--------------------------- MODULE RecursiveMutex ---------------------------
(***************************************************************************)
(* photon::recursive_mutex (thread/thread.cpp): a mutex whose owner may    *)
(* lock it again; recursive_count tells the unlock() that gives it up.     *)
(***************************************************************************)
EXTENDS Mutex

CONSTANT MaxDepth    \* bound on nested locks

ASSUME RecursiveMutexAssumption == MaxDepth \in Nat \ {0}

VARIABLES recursive_count,
          depth    \* depth[t]: locks minus unlocks of t (history)

rvars == <<vars, recursive_count, depth>>

RInit ==
  /\ Init
  /\ recursive_count = 0
  /\ depth = [t \in Thread |-> 0]

(* lock() or try_lock() by the owner *)
Relock(t) ==
  /\ pc[t] = "cs" /\ owner = t
  /\ depth[t] < MaxDepth
  /\ recursive_count' = recursive_count + 1
  /\ depth' = [depth EXCEPT ![t] = @ + 1]
  /\ UNCHANGED vars

\* fault: the first lock() resets the counter only when the mutex was free
MutexStepUncounted(t) ==
  LET got == pc[t] # "cs" /\ pc'[t] = "cs"
  IN /\ \/ LockFast(t) \/ LockBusy(t) \/ Lock(t) \/ LockExpired(t)
        \/ Unlock(t) \/ Timeout(t) \/ InterruptWaiter(t)
     /\ recursive_count' = recursive_count + (IF got /\ pc[t] # "sleep" THEN 1 ELSE 0)
     /\ depth' = [depth EXCEPT ![t] = IF got THEN @ + 1 ELSE @]

(* mutex::lock(), mutex::try_lock() and the rest of do_mutex_unlock(), with*)
(* the first lock counted by the thread that has got the mutex *)
MutexStep(t) ==
  LET got == pc[t] # "cs" /\ pc'[t] = "cs"
  IN /\ \/ LockFast(t) \/ LockBusy(t) \/ Lock(t) \/ LockExpired(t)
        \/ Unlock(t) \/ Timeout(t) \/ InterruptWaiter(t)
     /\ recursive_count' = recursive_count + (IF got THEN 1 ELSE 0)
     /\ depth' = [depth EXCEPT ![t] = IF got THEN @ + 1 ELSE @]

(* unlock(): a nested one ...                                              *)
UnlockNested(t) ==
  /\ pc[t] = "cs"
  /\ recursive_count > 1
  /\ recursive_count' = recursive_count - 1
  /\ depth' = [depth EXCEPT ![t] = @ - 1]
  /\ UNCHANGED vars

(* ... and the last, which goes on to do_mutex_unlock()                    *)
UnlockLast(t) ==
  /\ recursive_count <= 1
  /\ UnlockSplock(t)
  /\ recursive_count' = recursive_count - 1
  /\ depth' = [depth EXCEPT ![t] = @ - 1]

RNext == \E t \in Thread : Relock(t) \/ MutexStep(t) \/ UnlockNested(t) \/ UnlockLast(t)

RSpec == RInit /\ [][RNext]_rvars

------------------------------------------------------------------------------
(* The mutex is held by the thread whose locks exceed its unlocks, and by  *)
(* nobody else, and recursive_count is that difference.                    *)
DepthOwned ==
  /\ \A t \in Thread : depth[t] > 0 => owner = t /\ recursive_count = depth[t]
  /\ (\A t \in Thread : depth[t] = 0) => recursive_count = 0
==============================================================================
