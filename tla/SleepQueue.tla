----------------------------- MODULE SleepQueue -----------------------------
(***************************************************************************)
(* SleepQueue (thread/thread.cpp): the binary heap of sleeping threads,    *)
(* ordered by ts_wakeup, in which every thread knows its index so that it  *)
(* can be taken out of the middle.                                         *)
(***************************************************************************)
EXTENDS Integers, Sequences, FiniteSets

CONSTANTS Thread, Times

VARIABLES
  heap,        \* q: the vector, q[i + 1] is element i; idx: thread::idx, -1 for
               \* a thread outside; ts: thread::ts_wakeup
  sleeping     \* the threads pushed and not popped (history)

vars == <<heap, sleeping>>

Init ==
  /\ heap = [q   |-> <<>>,
             idx |-> [t \in Thread |-> -1],
             ts  |-> [t \in Thread |-> 0]]
  /\ sleeping = {}

\* thread::operator<
Less(h, a, b) == h.ts[a] < h.ts[b]

update_node(h, i, obj) == [h EXCEPT !.q[i + 1] = obj, !.idx[obj] = i]

\* `if (ret) update_node(idx, tmp)`: only a node that has moved is written
Placed(h, i, tmp) == IF h.q[i + 1] = tmp THEN h ELSE update_node(h, i, tmp)

pop_back(h) == [h EXCEPT !.q = SubSeq(@, 1, Len(@) - 1)]

------------------------------------------------------------------------------
(* up(i): tmp moves towards the root while it is less than the parent.     *)
RECURSIVE Rise(_, _, _)
Rise(h, i, tmp) ==
  LET p == (i - 1) \div 2
  IN IF i # 0 /\ Less(h, tmp, h.q[p + 1])
     THEN Rise(update_node(h, i, h.q[p + 1]), p, tmp)
     ELSE Placed(h, i, tmp)

Up(h, i) == Rise(h, i, h.q[i + 1])

(* down(i): tmp moves towards the leaves while the lesser child is less.   *)
RECURSIVE Sink(_, _, _)
Sink(h, i, tmp) ==
  LET l == 2 * i + 1
      c == IF l + 1 < Len(h.q) /\ Less(h, h.q[l + 2], h.q[l + 1]) THEN l + 1 ELSE l
  IN IF l < Len(h.q) /\ Less(h, h.q[c + 1], tmp)
     THEN Sink(update_node(h, i, h.q[c + 1]), c, tmp)
     ELSE Placed(h, i, tmp)

Down(h, i) == IF i < Len(h.q) THEN Sink(h, i, h.q[i + 1]) ELSE h

(* `if (!up(id)) down(id)` *)
UpOrDown(h, i) == LET h1 == Up(h, i) IN IF h1 # h THEN h1 ELSE Down(h, i)

(* push(obj) *)
Pushed(h, obj) ==
  Up([h EXCEPT !.q = Append(@, obj), !.idx[obj] = Len(h.q)], Len(h.q))

(* pop_front(): the last element replaces the first and goes down.         *)
PoppedFront(h) ==
  LET h1 == pop_back(update_node(h, 0, h.q[Len(h.q)]))
  IN [Down(h1, 0) EXCEPT !.idx[h.q[1]] = -1]

\* fault: the replacement never rises
PoppedSinking(h, obj) ==
  LET i == h.idx[obj]
      h1 == pop_back(update_node(h, i, h.q[Len(h.q)]))
      h2 == IF i = Len(h.q) - 1 THEN pop_back(h) ELSE Down(h1, i)
  IN [h2 EXCEPT !.idx[obj] = -1]

(* pop(obj): the last element replaces obj and goes up or down.            *)
Popped(h, obj) ==
  LET i == h.idx[obj]
      h1 == pop_back(update_node(h, i, h.q[Len(h.q)]))
      h2 == IF i = Len(h.q) - 1 THEN pop_back(h) ELSE UpOrDown(h1, i)
  IN [h2 EXCEPT !.idx[obj] = -1]

------------------------------------------------------------------------------
\* prepare_usleep() sets the wake-up time and pushes the thread.
Push(t, w) ==
  /\ t \notin sleeping
  /\ heap' = Pushed([heap EXCEPT !.ts[t] = w], t)
  /\ sleeping' = sleeping \cup {t}

PopFront ==
  /\ heap.q # <<>>
  /\ heap' = PoppedFront(heap)
  /\ sleeping' = sleeping \ {heap.q[1]}

Pop(t) ==
  /\ heap.idx[t] # -1
  /\ heap' = Popped(heap, t)
  /\ sleeping' = sleeping \ {t}

Next ==
  \/ \E t \in Thread : Pop(t) \/ \E w \in Times : Push(t, w)
  \/ PopFront

Spec == Init /\ [][Next]_vars

------------------------------------------------------------------------------
(* The vector holds exactly the sleeping threads, once each, and every     *)
(* thread's idx is its place, or -1: pop() takes out the thread it is for. *)
IndexAgrees ==
  /\ Len(heap.q) = Cardinality(sleeping)
  /\ \A t \in Thread :
       IF t \in sleeping THEN heap.idx[t] + 1 \in DOMAIN heap.q /\ heap.q[heap.idx[t] + 1] = t
                         ELSE heap.idx[t] = -1

(* The idle worker's timeout is computed from front(), and resume_threads()*)
(* stops at the first thread that is not due: front() sleeps the shortest. *)
FrontIsEarliest ==
  \A t \in sleeping : heap.ts[heap.q[1]] <= heap.ts[t]
==============================================================================
