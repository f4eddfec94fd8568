------------------------------ MODULE QSpinlock ------------------------------
(***************************************************************************)
(* photon::qspinlock (thread/thread.cpp): a queued spin lock.  Every OS    *)
(* thread owns one `holder` record (the thread_local qslholder); waiting   *)
(* holders form a linked list through `next`, and the lock word            *)
(* _owner_tail points to the last holder.  One atomic memory operation of  *)
(* the code is one action.                                                 *)
(*                                                                         *)
(* `ahead` and `qlen` are history variables: the number of holders that    *)
(* exchanged themselves into _owner_tail before p and have not released    *)
(* the lock, and the number of all such holders.                           *)
(***************************************************************************)
EXTENDS Naturals

CONSTANTS Proc,   \* the OS threads (vCPUs) that use the lock
          Null    \* the null holder pointer

ASSUME NullAssumption == Null \notin Proc

VARIABLES
  owner_tail,     \* qspinlock::_owner_tail
  next,           \* holder::next of every OS thread
  got_lock,       \* holder::got_lock of every OS thread
  pc,             \* the point every OS thread has reached
  old_tail,       \* local old_tail of lock()
  succ,           \* local `next` of unlock()
  ahead, qlen     \* history

impl == <<owner_tail, next, got_lock, pc, old_tail, succ>>
vars == <<owner_tail, next, got_lock, pc, old_tail, succ, ahead, qlen>>

Holder == Proc \cup {Null}
PCs == {"idle", "reset", "link", "spin", "cs", "unlock", "cas", "clear", "grant"}

Init ==
  /\ owner_tail = Null
  /\ next = [p \in Proc |-> Null]
  /\ got_lock = [p \in Proc |-> FALSE]
  /\ pc = [p \in Proc |-> "idle"]
  /\ old_tail = [p \in Proc |-> Null]
  /\ succ = [p \in Proc |-> Null]
  /\ ahead = [p \in Proc |-> 0]
  /\ qlen = 0

Goto(p, l) == pc' = [pc EXCEPT ![p] = l]

\* p takes the last place among the holders.
Enqueue(p) ==
  /\ ahead' = [ahead EXCEPT ![p] = qlen]
  /\ qlen' = qlen + 1

\* The first holder leaves; everyone else moves up by one place.
Dequeue(p) ==
  /\ ahead' = [q \in Proc |-> IF ahead[q] = 0 THEN 0 ELSE ahead[q] - 1]
  /\ qlen' = qlen - 1

------------------------------------------------------------------------------
(* try_lock(): a failing compare-exchange returns -1 and changes nothing. *)
TryLock(p) ==
  /\ pc[p] = "idle"
  /\ owner_tail = Null
  /\ owner_tail' = p
  /\ Goto(p, "cs")
  /\ Enqueue(p)
  /\ UNCHANGED <<next, got_lock, old_tail, succ>>

(* lock(): _owner_tail.exchange(h) *)
LockExchange(p) ==
  /\ pc[p] = "idle"
  /\ owner_tail' = p
  /\ old_tail' = [old_tail EXCEPT ![p] = owner_tail]
  /\ Goto(p, IF owner_tail = Null THEN "cs" ELSE "reset")
  /\ Enqueue(p)
  /\ UNCHANGED <<next, got_lock, succ>>

\* fault: a stale got_lock of an earlier wait is not reset.
LockResetSkipped(p) ==
  /\ pc[p] = "reset"
  /\ Goto(p, "link")
  /\ UNCHANGED <<owner_tail, next, got_lock, old_tail, succ, ahead, qlen>>

(* lock(): h->got_lock.store(false) *)
LockReset(p) ==
  /\ pc[p] = "reset"
  /\ got_lock' = [got_lock EXCEPT ![p] = FALSE]
  /\ Goto(p, "link")
  /\ UNCHANGED <<owner_tail, next, old_tail, succ, ahead, qlen>>

(* lock(): old_tail->next.store(h) *)
LockLink(p) ==
  /\ pc[p] = "link"
  /\ next' = [next EXCEPT ![old_tail[p]] = p]
  /\ Goto(p, "spin")
  /\ UNCHANGED <<owner_tail, got_lock, old_tail, succ, ahead, qlen>>

(* lock(): the spin loop ends once got_lock is set *)
LockSpin(p) ==
  /\ pc[p] = "spin"
  /\ got_lock[p]
  /\ Goto(p, "cs")
  /\ UNCHANGED <<owner_tail, next, got_lock, old_tail, succ, ahead, qlen>>

(* lock(): a round of the spin loop *)
Spin(p) ==
  /\ pc[p] = "spin"
  /\ ~got_lock[p]
  /\ UNCHANGED vars

(* The caller's critical section ends. *)
LeaveCS(p) ==
  /\ pc[p] = "cs"
  /\ Goto(p, "unlock")
  /\ UNCHANGED <<owner_tail, next, got_lock, old_tail, succ, ahead, qlen>>

(* unlock(): h->next.load() *)
UnlockLoad(p) ==
  /\ pc[p] = "unlock"
  /\ succ' = [succ EXCEPT ![p] = next[p]]
  /\ Goto(p, IF next[p] = Null THEN "cas" ELSE "clear")
  /\ UNCHANGED <<owner_tail, next, got_lock, old_tail, ahead, qlen>>

\* fault: a plain store instead of the compare-exchange.
UnlockStore(p) ==
  /\ pc[p] = "cas"
  /\ owner_tail' = Null
  /\ Goto(p, "idle")
  /\ Dequeue(p)
  /\ UNCHANGED <<next, got_lock, old_tail, succ>>

\* fault: a failed compare-exchange is not retried.
UnlockCasOnce(p) ==
  /\ pc[p] = "cas"
  /\ owner_tail' = IF owner_tail = p THEN Null ELSE owner_tail
  /\ Goto(p, "idle")
  /\ Dequeue(p)
  /\ UNCHANGED <<next, got_lock, old_tail, succ>>

(* unlock(): _owner_tail.compare_exchange_strong(h, nullptr) *)
UnlockCas(p) ==
  /\ pc[p] = "cas"
  /\ \/ /\ owner_tail = p
        /\ owner_tail' = Null
        /\ Goto(p, "idle")
        /\ Dequeue(p)
     \/ /\ owner_tail # p
        /\ Goto(p, "unlock")
        /\ UNCHANGED <<owner_tail, ahead, qlen>>
  /\ UNCHANGED <<next, got_lock, old_tail, succ>>

(* unlock(): h->next.store(nullptr) *)
UnlockClear(p) ==
  /\ pc[p] = "clear"
  /\ next' = [next EXCEPT ![p] = Null]
  /\ Goto(p, "grant")
  /\ UNCHANGED <<owner_tail, got_lock, old_tail, succ, ahead, qlen>>

(* unlock(): next->got_lock.store(true) *)
UnlockGrant(p) ==
  /\ pc[p] = "grant"
  /\ got_lock' = [got_lock EXCEPT ![succ[p]] = TRUE]
  /\ Goto(p, "idle")
  /\ Dequeue(p)
  /\ UNCHANGED <<owner_tail, next, old_tail, succ>>

Lock(p) == LockReset(p) \/ LockLink(p) \/ LockSpin(p)
Unlock(p) == UnlockLoad(p) \/ UnlockCas(p) \/ UnlockClear(p) \/ UnlockGrant(p)

Next ==
  \E p \in Proc :
    TryLock(p) \/ LockExchange(p) \/ Spin(p) \/ Lock(p) \/ LeaveCS(p) \/ Unlock(p)

Spec == Init /\ [][Next]_vars

(* A thread that started lock() or unlock() keeps running; a critical      *)
(* section ends (spin locks never sleep inside it).  Nobody has to ask.    *)
Fairness == \A p \in Proc : WF_vars(Lock(p) \/ LeaveCS(p) \/ Unlock(p))
FairSpec == Spec /\ Fairness

------------------------------------------------------------------------------
(* Variables range over their types.                                       *)
TypeOK ==
  /\ owner_tail \in Holder
  /\ next \in [Proc -> Holder]
  /\ got_lock \in [Proc -> BOOLEAN]
  /\ pc \in [Proc -> PCs]
  /\ old_tail \in [Proc -> Holder]
  /\ succ \in [Proc -> Holder]
  /\ ahead \in [Proc -> Nat]
  /\ qlen \in Nat

Owns(p) == pc[p] \in {"cs", "unlock", "cas", "clear", "grant"}

(* qspinlock::lock()/unlock(): at any time at most one OS thread is        *)
(* between the return of lock() and the release inside unlock().           *)
MutualExclusion == \A p, q \in Proc : Owns(p) /\ Owns(q) => p = q

(* The lock is granted in the order of the exchanges on _owner_tail: an    *)
(* owner has nobody ahead of it.                                           *)
FIFO == \A p \in Proc : Owns(p) => ahead[p] = 0

(* The two assertions of lock(): a holder starts with a null `next`, and   *)
(* the predecessor's `next` is still null when the newcomer links itself.  *)
NextPointersFree ==
  \A p \in Proc : /\ pc[p] = "idle" => next[p] = Null
                  /\ pc[p] = "link" => next[old_tail[p]] = Null

(* Every lock() returns, provided critical sections end.                   *)
LockReturns == \A p \in Proc : pc[p] = "reset" ~> pc[p] = "cs"
==============================================================================
