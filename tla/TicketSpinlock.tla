--------------------------- MODULE TicketSpinlock ---------------------------
(***************************************************************************)
(* photon::ticket_spinlock (thread/thread.cpp): waiters draw numbers from  *)
(* `next` and are served in turn.  The counters are size_t and wrap around *)
(* at Wrap = 2^64; nothing resets them.                                    *)
(***************************************************************************)
EXTENDS Naturals, FiniteSets

CONSTANTS Proc, Wrap    \* Wrap is more than the number of threads

VARIABLES next, serv, ticket, successor, pc,
          turn    \* how many draw before p, not counting those done (history)

vars == <<next, serv, ticket, successor, pc, turn>>

Init ==
  /\ next = 0 /\ serv = 0
  /\ ticket = [p \in Proc |-> 0]
  /\ successor = [p \in Proc |-> 0]
  /\ pc = [p \in Proc |-> "out"]
  /\ turn = [p \in Proc |-> 0]

Goto(p, l) == pc' = [pc EXCEPT ![p] = l]
Inside == {p \in Proc : pc[p] # "out"}

(* lock(): next.fetch_add(1) ...                                           *)
Draw(p) ==
  /\ pc[p] = "out"
  /\ ticket' = [ticket EXCEPT ![p] = next]
  /\ next' = (next + 1) % Wrap
  /\ turn' = [turn EXCEPT ![p] = Cardinality(Inside)]
  /\ Goto(p, "wait")
  /\ UNCHANGED <<serv, successor>>

(* ... and spin until it is served                                         *)
Enter(p) ==
  /\ pc[p] = "wait"
  /\ serv = ticket[p]
  /\ Goto(p, "in")
  /\ UNCHANGED <<next, serv, ticket, successor, turn>>

(* unlock(): load serv ...                                                 *)
UnlockLoad(p) ==
  /\ pc[p] = "in"
  /\ successor' = [successor EXCEPT ![p] = (serv + 1) % Wrap]
  /\ Goto(p, "unlock")
  /\ UNCHANGED <<next, serv, ticket, turn>>

\* fault: unlock() serves the last ticket drawn
UnlockLast(p) ==
  /\ pc[p] = "unlock"
  /\ serv' = IF Cardinality(Inside) > 1 THEN (next + Wrap - 1) % Wrap ELSE next
  /\ Goto(p, "out")
  /\ turn' = [r \in Proc |-> IF r \in Inside \ {p} THEN turn[r] - 1 ELSE turn[r]]
  /\ UNCHANGED <<next, ticket, successor>>

(* ... and store its successor                                             *)
UnlockStore(p) ==
  /\ pc[p] = "unlock"
  /\ serv' = successor[p]
  /\ Goto(p, "out")
  /\ turn' = [r \in Proc |-> IF r \in Inside \ {p} THEN turn[r] - 1 ELSE turn[r]]
  /\ UNCHANGED <<next, ticket, successor>>

Next == \E p \in Proc : Draw(p) \/ Enter(p) \/ UnlockLoad(p) \/ UnlockStore(p)

Spec == Init /\ [][Next]_vars

------------------------------------------------------------------------------
(* At most one thread is between lock() and the store of unlock(), also    *)
(* when the counters have wrapped around.                                  *)
MutualExclusion ==
  \A p, r \in Proc : pc[p] \in {"in", "unlock"} /\ pc[r] \in {"in", "unlock"} => p = r

(* The lock is given in the order of the fetch_add()s.                     *)
FIFO == \A p \in Proc : pc[p] \in {"in", "unlock"} => turn[p] = 0
==============================================================================
