--------------------------- MODULE QSpinlockProofs ---------------------------
(***************************************************************************)
(* Mutual exclusion and FIFO order of photon::qspinlock, for any set of OS *)
(* threads.  The inductive invariant IInv describes the linked list of     *)
(* holders through the history variable `ahead`.                           *)
(***************************************************************************)
EXTENDS QSpinlock, TLAPS

Queued(p) == pc[p] # "idle"

\* Positions: 0 .. qlen-1, one holder each, the last one in _owner_tail.
Positions ==
  /\ \A p \in Proc : Queued(p) => ahead[p] < qlen
  /\ \A p, q \in Proc : Queued(p) /\ Queued(q) /\ ahead[p] = ahead[q] => p = q
  /\ owner_tail = Null => qlen = 0
  /\ owner_tail # Null => Queued(owner_tail) /\ ahead[owner_tail] + 1 = qlen

\* A newcomer knows its predecessor, whose `next` nobody else writes.
Newcomers ==
  \A p \in Proc : pc[p] \in {"reset", "link"} =>
    /\ old_tail[p] \in Proc
    /\ Queued(old_tail[p])
    /\ ahead[p] = ahead[old_tail[p]] + 1
    /\ next[old_tail[p]] = Null
    /\ pc[old_tail[p]] \notin {"clear", "grant"}
    /\ pc[p] = "link" => ~got_lock[p]

\* A linked waiter is either granted and first, or still known to its predecessor.
Waiters ==
  \A p \in Proc : pc[p] = "spin" =>
    IF got_lock[p] THEN ahead[p] = 0 ELSE ahead[p] > 0

\* `next` points to the holder right behind.
Links ==
  \A p \in Proc : next[p] # Null =>
    /\ Queued(p)
    /\ pc[p] # "grant"
    /\ pc[next[p]] = "spin"
    /\ ~got_lock[next[p]]
    /\ ahead[next[p]] = ahead[p] + 1

\* An owner is first; the successor it has read is the waiter right behind it.
Owners ==
  \A p \in Proc : Owns(p) =>
    /\ ahead[p] = 0
    /\ pc[p] = "clear" => succ[p] # Null /\ next[p] = succ[p]
    /\ pc[p] = "grant" => /\ succ[p] # Null
                          /\ pc[succ[p]] = "spin"
                          /\ ~got_lock[succ[p]]
                          /\ ahead[succ[p]] = 1

IInv == TypeOK /\ Positions /\ Newcomers /\ Waiters /\ Links /\ Owners

(* The free lock satisfies the invariant ...                              *)
LEMMA InitIInv == Init => IInv
  BY NullAssumption DEF Init, IInv, TypeOK, Holder, PCs, Positions, Queued, Newcomers,
     Waiters, Links, Owners

(* ... and every atomic access of lock(), try_lock() and unlock() keeps it. *)
LEMMA NextIInv == IInv /\ [Next]_vars => IInv'
<1> USE NullAssumption DEF Holder, PCs, Goto
<1> SUFFICES ASSUME IInv, [Next]_vars PROVE IInv'
  OBVIOUS
<1>1. ASSUME NEW p \in Proc, TryLock(p) PROVE IInv'
  <2>1. TypeOK'
    BY <1>1 DEF TryLock, Enqueue, IInv, TypeOK
  <2>2. Positions'
    BY <1>1 DEF TryLock, Enqueue, IInv, TypeOK, Positions, Queued
  <2>3. Newcomers'
    BY <1>1 DEF TryLock, IInv, TypeOK, Positions, Newcomers
  <2>4. Waiters'
    BY <1>1 DEF TryLock, Enqueue, IInv, Waiters
  <2>5. Links'
    BY <1>1 DEF TryLock, IInv, TypeOK, Positions, Links
  <2>6. Owners'
    BY <1>1 DEF TryLock, Enqueue, IInv, TypeOK, Positions, Owners, Owns
  <2> QED BY <2>1, <2>2, <2>3, <2>4, <2>5, <2>6 DEF IInv
<1>2. ASSUME NEW p \in Proc, LockExchange(p) PROVE IInv'
  <2>1. TypeOK'
    BY <1>2 DEF LockExchange, Enqueue, IInv, TypeOK
  <2>2. Positions'
    BY <1>2 DEF LockExchange, Enqueue, IInv, TypeOK, Positions, Queued
  <2>3. Newcomers'
    BY <1>2 DEF LockExchange, Enqueue, IInv, TypeOK, Positions, Newcomers, Links,
       Owners, Queued, Owns
  <2>4. Waiters'
    BY <1>2 DEF LockExchange, Enqueue, IInv, Waiters
  <2>5. Links'
    BY <1>2 DEF LockExchange, Enqueue, IInv, Links, Queued
  <2>6. Owners'
    BY <1>2 DEF LockExchange, Enqueue, IInv, TypeOK, Positions, Owners, Owns
  <2> QED BY <2>1, <2>2, <2>3, <2>4, <2>5, <2>6 DEF IInv
<1>3. ASSUME NEW p \in Proc, LockReset(p) PROVE IInv'
  <2>1. TypeOK'
    BY <1>3 DEF LockReset, IInv, TypeOK
  <2>2. Positions'
    BY <1>3 DEF LockReset, IInv, Positions, Queued
  <2>3. Newcomers'
    BY <1>3 DEF LockReset, IInv, TypeOK, Newcomers, Queued
  <2>4. Waiters'
    BY <1>3 DEF LockReset, IInv, Waiters
  <2>5. Links'
    BY <1>3 DEF LockReset, IInv, Links, Queued
  <2>6. Owners'
    BY <1>3 DEF LockReset, IInv, Owners, Owns
  <2> QED BY <2>1, <2>2, <2>3, <2>4, <2>5, <2>6 DEF IInv
<1>4. ASSUME NEW p \in Proc, LockLink(p) PROVE IInv'
  <2>1. TypeOK'
    BY <1>4 DEF LockLink, IInv, TypeOK
  <2>2. Positions'
    BY <1>4 DEF LockLink, IInv, Positions, Queued
  <2>3. Newcomers'
    BY <1>4 DEF LockLink, IInv, TypeOK, Positions, Newcomers, Queued
  <2>4. Waiters'
    BY <1>4 DEF LockLink, IInv, TypeOK, Newcomers, Waiters
  <2>5. Links'
    BY <1>4 DEF LockLink, IInv, TypeOK, Newcomers, Links, Queued
  <2>6. Owners'
    BY <1>4 DEF LockLink, IInv, TypeOK, Newcomers, Owners, Queued, Owns
  <2> QED BY <2>1, <2>2, <2>3, <2>4, <2>5, <2>6 DEF IInv
<1>5. ASSUME NEW p \in Proc, LockSpin(p) PROVE IInv'
  <2>1. TypeOK'
    BY <1>5 DEF LockSpin, IInv, TypeOK
  <2>2. Positions'
    BY <1>5 DEF LockSpin, IInv, Positions, Queued
  <2>3. Newcomers'
    BY <1>5 DEF LockSpin, IInv, Newcomers, Queued
  <2>4. Waiters'
    BY <1>5 DEF LockSpin, IInv, Waiters
  <2>5. Links'
    BY <1>5 DEF LockSpin, IInv, Links, Queued
  <2>6. Owners'
    BY <1>5 DEF LockSpin, IInv, TypeOK, Positions, Waiters, Links, Owners, Queued, Owns
  <2> QED BY <2>1, <2>2, <2>3, <2>4, <2>5, <2>6 DEF IInv
<1>6. ASSUME NEW p \in Proc, LeaveCS(p) PROVE IInv'
  <2>1. TypeOK'
    BY <1>6 DEF LeaveCS, IInv, TypeOK
  <2>2. Positions'
    BY <1>6 DEF LeaveCS, IInv, Positions, Queued
  <2>3. Newcomers'
    BY <1>6 DEF LeaveCS, IInv, Newcomers, Queued
  <2>4. Waiters'
    BY <1>6 DEF LeaveCS, IInv, Waiters, Queued
  <2>5. Links'
    BY <1>6 DEF LeaveCS, IInv, Links, Queued
  <2>6. Owners'
    BY <1>6 DEF LeaveCS, IInv, TypeOK, Positions, Links, Owners, Queued, Owns
  <2> QED BY <2>1, <2>2, <2>3, <2>4, <2>5, <2>6 DEF IInv
<1>7. ASSUME NEW p \in Proc, UnlockLoad(p) PROVE IInv'
  <2>1. TypeOK'
    BY <1>7 DEF UnlockLoad, IInv, TypeOK, Queued
  <2>2. Positions'
    BY <1>7 DEF UnlockLoad, IInv, TypeOK, Positions, Queued
  <2>3. Newcomers'
    BY <1>7 DEF UnlockLoad, IInv, TypeOK, Positions, Newcomers, Queued
  <2>4. Waiters'
    BY <1>7 DEF UnlockLoad, IInv, TypeOK, Waiters, Queued
  <2>5. Links'
    BY <1>7 DEF UnlockLoad, IInv, TypeOK, Positions, Links, Queued
  <2>6. Owners'
    BY <1>7 DEF UnlockLoad, IInv, TypeOK, Positions, Newcomers, Owners, Queued, Owns
  <2> QED BY <2>1, <2>2, <2>3, <2>4, <2>5, <2>6 DEF IInv
<1>8. ASSUME NEW p \in Proc, UnlockCas(p) PROVE IInv'
  <2>1. TypeOK'
    BY <1>8 DEF UnlockCas, Dequeue, IInv, TypeOK, Positions, Newcomers, Queued
  <2>2. Positions'
    BY <1>8 DEF UnlockCas, Dequeue, IInv, TypeOK, Positions, Newcomers, Links, Owners,
       Queued, Owns
  <2>3. Newcomers'
    BY <1>8 DEF UnlockCas, IInv, TypeOK, Positions, Newcomers, Links, Owners, Queued,
       Owns
  <2>4. Waiters'
    BY <1>8 DEF UnlockCas, IInv, TypeOK, Positions, Newcomers, Waiters, Links, Owners,
       Queued, Owns
  <2>5. Links'
    BY <1>8 DEF UnlockCas, IInv, TypeOK, Positions, Newcomers, Links, Owners, Queued,
       Owns
  <2>6. Owners'
    BY <1>8 DEF UnlockCas, IInv, TypeOK, Positions, Newcomers, Waiters, Links, Owners,
       Queued, Owns
  <2> QED BY <2>1, <2>2, <2>3, <2>4, <2>5, <2>6 DEF IInv
<1>9. ASSUME NEW p \in Proc, UnlockClear(p) PROVE IInv'
  <2>1. TypeOK'
    BY <1>9 DEF UnlockClear, IInv, TypeOK
  <2>2. Positions'
    BY <1>9 DEF UnlockClear, IInv, TypeOK, Positions, Newcomers, Links, Owners, Queued
  <2>3. Newcomers'
    BY <1>9 DEF UnlockClear, IInv, TypeOK, Positions, Newcomers, Waiters, Links,
       Owners, Queued, Owns
  <2>4. Waiters'
    BY <1>9 DEF UnlockClear, IInv, TypeOK, Positions, Newcomers, Waiters, Links,
       Owners, Queued
  <2>5. Links'
    BY <1>9 DEF UnlockClear, IInv, TypeOK, Positions, Newcomers, Waiters, Links,
       Owners, Queued
  <2>6. Owners'
    BY <1>9 DEF UnlockClear, IInv, TypeOK, Positions, Newcomers, Waiters, Links,
       Owners, Queued, Owns
  <2> QED BY <2>1, <2>2, <2>3, <2>4, <2>5, <2>6 DEF IInv
<1>10. ASSUME NEW p \in Proc, UnlockGrant(p) PROVE IInv'
  <2>1. TypeOK'
    BY <1>10 DEF UnlockGrant, Dequeue, IInv, TypeOK, Positions, Newcomers, Waiters,
       Links, Owners, Queued, Owns
  <2>2. Positions'
    BY <1>10 DEF UnlockGrant, Dequeue, IInv, TypeOK, Positions, Newcomers, Waiters,
       Links, Owners, Queued, Owns
  <2>3. Newcomers'
    BY <1>10 DEF UnlockGrant, Dequeue, IInv, TypeOK, Positions, Newcomers, Waiters,
       Links, Owners, Queued, Owns
  <2>4. Waiters'
    BY <1>10 DEF UnlockGrant, Dequeue, IInv, TypeOK, Positions, Newcomers, Waiters,
       Links, Owners, Queued, Owns
  <2>5. Links'
    BY <1>10 DEF UnlockGrant, Dequeue, IInv, TypeOK, Positions, Newcomers, Waiters,
       Links, Owners, Queued, Owns
  <2>6. Owners'
    BY <1>10 DEF UnlockGrant, IInv, TypeOK, Positions, Newcomers, Waiters, Links,
       Owners, Queued, Owns
  <2> QED BY <2>1, <2>2, <2>3, <2>4, <2>5, <2>6 DEF IInv
<1>11. CASE UNCHANGED vars
  BY <1>11 DEF vars, IInv, TypeOK, Positions, Newcomers, Waiters, Links, Owners,
     Queued, Owns
<1> QED
  BY <1>1, <1>2, <1>3, <1>4, <1>5, <1>6, <1>7, <1>8, <1>9, <1>10, <1>11 DEF Next,
     Lock, Unlock, Spin

(* The structure of the holders' list, for any set of OS threads.          *)
THEOREM Invariance == Spec => []IInv
<1>1. Init => IInv
  BY InitIInv
<1>2. IInv /\ [Next]_vars => IInv'
  BY NextIInv
<1> QED
  BY <1>1, <1>2, PTL DEF Spec

(* qspinlock excludes: no two OS threads are ever between the return of    *)
(* lock() and the release inside unlock(), however many compete.           *)
THEOREM Exclusion == Spec => []MutualExclusion
<1>1. IInv => MutualExclusion
  BY DEF IInv, Positions, Owners, MutualExclusion, Queued, Owns
<1> QED
  BY <1>1, Invariance, PTL

(* qspinlock grants in the order of the exchanges on _owner_tail.          *)
THEOREM GrantsInOrder == Spec => []FIFO
<1>1. IInv => FIFO
  BY DEF IInv, Owners, FIFO
<1> QED
  BY <1>1, Invariance, PTL

(* The assertions in qspinlock::lock() never fail.                         *)
THEOREM AssertionsHold == Spec => []NextPointersFree
<1>1. IInv => NextPointersFree
  BY NullAssumption DEF IInv, Newcomers, Links, NextPointersFree, Queued
<1> QED
  BY <1>1, Invariance, PTL
==============================================================================
