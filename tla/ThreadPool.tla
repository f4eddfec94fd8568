----------------------------- MODULE ThreadPool -----------------------------
(***************************************************************************)
(* ThreadPoolBase (thread/thread-pool.cpp) over IdentityPoolBase           *)
(* (common/identity-pool.cpp): threads that wait for work, the work of the *)
(* users, joins, the timer that shrinks the pool, and its destruction.     *)
(* All threads are of one vCPU, so that a step goes from one blocking call *)
(* to the next and m_mtx is never contended.                               *)
(***************************************************************************)
EXTENDS Naturals, Sequences, FiniteSets

CONSTANTS
  Ctrl,                    \* the TPControls (pooled threads) that may come to be
  User,                    \* threads that create a thread, and maybe join it
  Capacity,                \* m_capacity
  Autoscale                \* whether enable_autoscale() has been called

Nobody == "none"
Stub == "stub"             \* the start routine that tells a thread to end

VARIABLES
  ip,     \* the identity pool: m_items, m_refcnt, min_size_in_interval
  tc,     \* each TPControl, and what its thread does
  us,     \* each user
  sc,     \* the timer thread: next step and number of threads to destroy
  del     \* the thread that deletes the pool
tpvars == <<ip, tc, us, sc, del>>

Init ==
  /\ ip = [items |-> <<>>, refcnt |-> 0, min |-> 0]
  /\ tc = [c \in Ctrl |-> [pc |-> "none", start |-> Nobody, joinable |-> FALSE, joining |-> FALSE]]
  /\ us = [u \in User |-> [pc |-> "new", ctrl |-> Nobody]]
  /\ sc = [pc |-> "idle", n |-> 0] /\ del = "idle"

Size == Len(ip.items)
Items == {ip.items[i] : i \in 1..Size}

\* condition_variable::notify: the pooled thread, or a joiner, if it waits.
Woken(c) == IF c.pc = "waiting" THEN [c EXCEPT !.pc = "ready"]
            ELSE IF c.pc = "unjoined" THEN [c EXCEPT !.pc = "reset"] ELSE c

------------------------------------------------------------------------------
(* IdentityPoolBase, with ctor() and dtor() of the thread pool             *)

\* get(): the last item, or a new thread, which has already run up to its loop.
Get(c) ==
  IF Size > 0
  THEN /\ c = ip.items[Size]
       /\ ip' = [items |-> SubSeq(ip.items, 1, Size - 1), refcnt |-> ip.refcnt + 1,
                 min |-> IF Size - 1 < ip.min THEN Size - 1 ELSE ip.min]
  ELSE tc[c].pc = "none" /\ ip' = [ip EXCEPT !.refcnt = @ + 1]

\* dtor() of a TPControl that has no work
Ended(c) == Woken([tc[c] EXCEPT !.start = Stub])

\* put(), by somebody who leaves the control in state `rec`.  The yield of dtor() before it
\* drops the reference only delays the destructor of the pool.
Put(c, rec) ==
  IF Size < Capacity
  THEN /\ ip' = [ip EXCEPT !.items = Append(@, c), !.refcnt = @ - 1]
       /\ tc' = [tc EXCEPT ![c] = rec]
  ELSE /\ ip' = [ip EXCEPT !.refcnt = @ - 1]
       /\ tc' = [tc EXCEPT ![c] = Woken([rec EXCEPT !.start = Stub])]

\* do_scale(): half of what has not been used since the last time.
Scale ==
  /\ Autoscale /\ sc.pc = "idle" /\ del = "idle" /\ (ip.min > 0 \/ Size > 0)
  /\ sc' = [pc |-> "scaling", n |-> (ip.min + 1) \div 2] /\ UNCHANGED <<ip, tc, us, del>>
\* dtor() yields, so that the pool may be used between two rounds.
ScaleRound ==
  /\ sc.pc = "scaling" /\ UNCHANGED <<us, del>>
  /\ IF Size > 0 /\ sc.n > 0
     THEN /\ ip' = [ip EXCEPT !.items = SubSeq(@, 1, Size - 1)]
          /\ tc' = [tc EXCEPT ![ip.items[Size]] = Ended(ip.items[Size])]
          /\ sc' = [sc EXCEPT !.n = @ - 1]
     ELSE ip' = [ip EXCEPT !.min = Size] /\ sc' = [pc |-> "idle", n |-> 0] /\ UNCHANGED tc

\* ~IdentityPoolBase(): disable_autoscale(), wait for the items in use, destroy
\* the others.
Delete ==
  /\ del = "idle" /\ sc.pc = "idle" /\ \A u \in User : us[u].pc # "new"
  /\ del' = "waiting" /\ UNCHANGED <<ip, tc, us, sc>>
DeleteRound ==
  /\ del = "waiting" /\ ip.refcnt = 0 /\ UNCHANGED <<us, sc>>
  /\ IF Size > 0 THEN /\ ip' = [ip EXCEPT !.items = SubSeq(@, 1, Size - 1)]
                      /\ tc' = [tc EXCEPT ![ip.items[Size]] = Ended(ip.items[Size])]
                      /\ UNCHANGED del
                 ELSE del' = "deleted" /\ UNCHANGED <<ip, tc>>

------------------------------------------------------------------------------
(* Users                                                                   *)

\* thread_create_ex()
Create(u, c) ==
  /\ us[u].pc = "new" /\ Get(c) /\ UNCHANGED <<sc, del>>
  /\ \E joinable \in BOOLEAN :
       /\ tc' = [tc EXCEPT ![c] =
            Woken([pc |-> IF @.pc = "none" THEN "ready" ELSE @.pc, start |-> u,
                   joinable |-> joinable, joining |-> FALSE])]
       /\ us' = [us EXCEPT ![u] = [pc |-> IF joinable THEN "join" ELSE "done", ctrl |-> c]]

\* fault: the result of do_thread_join() does not tell who waited
JoinPutting(u) ==
  LET c == us[u].ctrl IN
  /\ us[u].pc = "join" /\ tc[c].joinable /\ tc[c].joining
  /\ us' = [us EXCEPT ![u].pc = "joined"] /\ Put(c, Woken(tc[c])) /\ UNCHANGED <<sc, del>>

\* join(), when the thread has already ended and waits to be joined: wake it up.
JoinEnded(u) ==
  LET c == us[u].ctrl IN
  /\ us[u].pc = "join" /\ tc[c].joinable /\ tc[c].joining
  /\ us' = [us EXCEPT ![u].pc = "joined"] /\ tc' = [tc EXCEPT ![c] = Woken(@)]
  /\ UNCHANGED <<ip, sc, del>>

\* join(), when it still runs: wait ...
JoinWait(u) ==
  LET c == us[u].ctrl IN
  /\ us[u].pc = "join" /\ tc[c].joinable /\ ~ tc[c].joining
  /\ us' = [us EXCEPT ![u].pc = "joining"] /\ tc' = [tc EXCEPT ![c].joining = TRUE]
  /\ UNCHANGED <<ip, sc, del>>

\* ... and put the control back.
JoinWoken(u) ==
  LET c == us[u].ctrl IN
  /\ us[u].pc = "woken" /\ us' = [us EXCEPT ![u].pc = "joined"] /\ Put(c, tc[c])
  /\ UNCHANGED <<sc, del>>

UserSteps(u) == JoinEnded(u) \/ JoinWait(u) \/ JoinWoken(u)

------------------------------------------------------------------------------
(* Pooled threads: stub()                                                  *)

\* wait_for_work()
WaitForWork(c) ==
  /\ tc[c].pc = "ready" /\ UNCHANGED <<ip, us, sc, del>>
  /\ tc' = [tc EXCEPT ![c].pc = CASE tc[c].start = Nobody -> "waiting"
                                 [] tc[c].start = Stub -> "ended"
                                 [] OTHER -> "running"]

Idle(rec) == [rec EXCEPT !.pc = "ready", !.start = Nobody, !.joinable = FALSE, !.joining = FALSE]

\* The work is done.  after_work_done(): wake the joiner, who puts the control
\* back; or wait for one; or put it back.
WorkDone(c) ==
  /\ tc[c].pc = "running" /\ UNCHANGED <<sc, del>>
  /\ IF tc[c].joining
     THEN /\ tc' = [tc EXCEPT ![c] = Idle(@)] /\ UNCHANGED ip
          /\ us' = [us EXCEPT ![tc[c].start].pc = "woken"]
     ELSE /\ UNCHANGED us
          /\ IF tc[c].joinable
             THEN tc' = [tc EXCEPT ![c].pc = "unjoined", ![c].joining = TRUE] /\ UNCHANGED ip
             ELSE Put(c, Idle(tc[c]))
Joined(c) == tc[c].pc = "reset" /\ Put(c, Idle(tc[c])) /\ UNCHANGED <<us, sc, del>>

ThreadSteps(c) == WaitForWork(c) \/ WorkDone(c) \/ Joined(c)

Next == \/ Scale \/ ScaleRound \/ Delete \/ DeleteRound
        \/ \E u \in User, c \in Ctrl : Create(u, c)
        \/ \E u \in User : UserSteps(u)
        \/ \E c \in Ctrl : ThreadSteps(c)
Spec == Init /\ [][Next]_tpvars

\* The threads of the vCPU are scheduled in turn, and the work of users ends.
Fairness == /\ \A c \in Ctrl : WF_tpvars(ThreadSteps(c))
            /\ \A u \in User : WF_tpvars(UserSteps(u))
            /\ WF_tpvars(ScaleRound) /\ WF_tpvars(DeleteRound)
FairSpec == Spec /\ Fairness

------------------------------------------------------------------------------
(* What is in the pool is there once, has no work, and its thread is about *)
(* to wait for some: nobody else puts it, joins it or ends it.             *)
PooledIdle ==
  /\ Cardinality(Items) = Size /\ Size <= Capacity
  /\ \A c \in Items : /\ tc[c].start = Nobody /\ tc[c].pc \in {"ready", "waiting"}
                      /\ \A u \in User : us[u].ctrl = c => us[u].pc \in {"done", "joined"}
  /\ sc.pc = "idle" /\ del = "idle" => (ip.min + 1) \div 2 <= Size

(* The destructor returns, and all threads of the pool end.                *)
Stopping == del = "waiting"
Stopped == del = "deleted" /\ \A c \in Ctrl : tc[c].pc \in {"none", "ended"}
DeletedEnded == Stopping ~> Stopped
==============================================================================
