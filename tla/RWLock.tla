------------------------------- MODULE RWLock -------------------------------
(***************************************************************************)
(* photon::rwlock (thread/thread.cpp): a signed counter of holders and a   *)
(* condition variable of readers and writers in arrival order, under a     *)
(* mutex.  The mutex is the one that module Mutex models; here it is its   *)
(* owner only.  Sleepers time out and are interrupted without the mutex,   *)
(* from other vCPUs even while a thread is inside unlock().                *)
(***************************************************************************)
EXTENDS SleepWake, FiniteSets

CONSTANT MultiVCPU   \* the threads of the lock run on several vCPUs

VARIABLES
  state,          \* -1: locked for writing, n > 0: by n readers
  mtx,            \* owner of the mutex
  rwlock_mark,    \* thread::rwlock_mark: the mode a thread asks for
  hold,           \* the mode in which a thread has the lock (history)
  pc

vars == <<swVars, state, mtx, rwlock_mark, hold, pc>>

RLOCK == "R"
WLOCK == "W"
Mode == {RLOCK, WLOCK}
PCs == {"idle", "check", "switch", "sleep", "peek", "notify", "loop", "loopnotify"}

Init ==
  /\ SWInit
  /\ state = 0
  /\ mtx = None
  /\ rwlock_mark = [t \in Thread |-> None]
  /\ hold = [t \in Thread |-> None]
  /\ pc = [t \in Thread |-> "idle"]

Goto(t, l) == pc' = [pc EXCEPT ![t] = l]

\* `op & state`: a reader conflicts with a writer, a writer with everybody.
Conflict(mode) == IF mode = RLOCK THEN state < 0 ELSE state # 0

------------------------------------------------------------------------------
(* lock(mode): scoped_lock and the mark of the current thread *)
Lock(t, mode) ==
  /\ pc[t] = "idle" /\ hold[t] = None
  /\ mtx = None
  /\ mtx' = t
  /\ rwlock_mark' = [rwlock_mark EXCEPT ![t] = mode]
  /\ Goto(t, "check")
  /\ UNCHANGED <<swVars, state, hold>>

\* `state += op` after the rotation of op, and the end of lock().
Take(t) ==
  /\ state' = state + (IF rwlock_mark[t] = RLOCK THEN 1 ELSE -1)
  /\ hold' = [hold EXCEPT ![t] = rwlock_mark[t]]
  /\ rwlock_mark' = [rwlock_mark EXCEPT ![t] = None]
  /\ mtx' = None
  /\ Goto(t, "idle")

LockTake(t) ==
  /\ pc[t] = "check"
  /\ queue["cvar"] = <<>>
  /\ ~Conflict(rwlock_mark[t])
  /\ Take(t)
  /\ UNCHANGED swVars

(* cvar.wait(lock, timeout): sleep in the queue ...                        *)
LockWait(t) ==
  /\ pc[t] = "check"
  /\ queue["cvar"] # <<>> \/ Conflict(rwlock_mark[t])
  /\ Sleep(t, "cvar")
  /\ Goto(t, "switch")
  /\ UNCHANGED <<state, mtx, rwlock_mark, hold>>

(* ... mutex_unlock() is deferred until t has been switched out ...        *)
DeferredUnlock(t) ==
  /\ pc[t] = "switch"
  /\ mtx' = None
  /\ Goto(t, "sleep")
  /\ UNCHANGED <<swVars, state, rwlock_mark, hold>>

(* ... and the mutex is locked again: t was not notified: lock() fails;    *)
LockFail(t) ==
  /\ pc[t] = "sleep" /\ ~asleep[t] /\ mtx = None
  /\ error_number[t] # RESUMED
  /\ Clear(t)
  /\ rwlock_mark' = [rwlock_mark EXCEPT ![t] = None]
  /\ Goto(t, "idle")
  /\ UNCHANGED <<state, mtx, hold>>
\* fault: `if` in place of `while (op & state)`
LockNotifiedUnchecked(t) ==
  /\ pc[t] = "sleep" /\ ~asleep[t] /\ mtx = None
  /\ error_number[t] = RESUMED
  /\ Clear(t)
  /\ Take(t)

\* it was, and takes the lock whoever waits;
LockNotified(t) ==
  /\ pc[t] = "sleep" /\ ~asleep[t] /\ mtx = None
  /\ error_number[t] = RESUMED
  /\ ~Conflict(rwlock_mark[t])
  /\ Clear(t)
  /\ Take(t)

\* or waits again in `while (op & state)`.
LockAgain(t) ==
  /\ pc[t] = "sleep" /\ ~asleep[t] /\ mtx = None
  /\ error_number[t] = RESUMED
  /\ Conflict(rwlock_mark[t])
  /\ mtx' = t
  /\ asleep' = [asleep EXCEPT ![t] = TRUE]
  /\ queue' = [queue EXCEPT !["cvar"] = Append(@, t)]
  /\ error_number' = [error_number EXCEPT ![t] = 0]
  /\ Goto(t, "switch")
  /\ UNCHANGED <<state, rwlock_mark, hold>>

(* unlock(): the counter, and whether anybody is to be notified *)
Unlock(t) ==
  LET left == state + (IF state > 0 THEN -1 ELSE 1)
      wake == left = 0 /\ queue["cvar"] # <<>>
  IN /\ pc[t] = "idle" /\ hold[t] # None
     /\ mtx = None
     /\ state' = left
     /\ hold' = [hold EXCEPT ![t] = None]
     /\ mtx' = IF wake THEN t ELSE None
     /\ Goto(t, IF wake THEN "peek" ELSE "idle")
     /\ UNCHANGED <<swVars, rwlock_mark>>

\* The head of the queue asks for this mode, read without the queue's lock.
HeadWants(mode) == queue["cvar"] # <<>> /\ rwlock_mark[Head(queue["cvar"])] = mode

(* one notify_one() if the first waiter is a writer ...                    *)
UnlockPeek(t) ==
  /\ pc[t] = "peek"
  /\ Goto(t, IF HeadWants(WLOCK) THEN "notify" ELSE "loop")
  /\ UNCHANGED <<swVars, state, mtx, rwlock_mark, hold>>

\* notify_one() resumes the head of the queue, if there is one by then.
NotifyOne == IF queue["cvar"] = <<>> THEN UNCHANGED swVars ELSE Resume("cvar")

UnlockNotify(t) ==
  /\ pc[t] = "notify"
  /\ NotifyOne
  /\ mtx' = None
  /\ Goto(t, "idle")
  /\ UNCHANGED <<state, rwlock_mark, hold>>
\* fault: readers at the head of the queue are not notified
UnlockLoopNever(t) ==
  /\ pc[t] = "loop"
  /\ Goto(t, "idle")
  /\ mtx' = None
  /\ UNCHANGED <<swVars, state, rwlock_mark, hold>>

(* ... else one for every reader at the head                               *)
UnlockLoop(t) ==
  /\ pc[t] = "loop"
  /\ IF HeadWants(RLOCK) THEN Goto(t, "loopnotify") /\ UNCHANGED mtx
                         ELSE Goto(t, "idle") /\ mtx' = None
  /\ UNCHANGED <<swVars, state, rwlock_mark, hold>>

UnlockLoopNotify(t) ==
  /\ pc[t] = "loopnotify"
  /\ NotifyOne
  /\ Goto(t, "loop")
  /\ UNCHANGED <<state, mtx, rwlock_mark, hold>>

------------------------------------------------------------------------------
\* On a single vCPU nothing else runs while unlock() does.
OthersRun ==
  MultiVCPU \/ \A t \in Thread : pc[t] \notin {"peek", "notify", "loop", "loopnotify"}

Timeout(t) ==
  /\ OthersRun
  /\ Expire(t)
  /\ UNCHANGED <<state, mtx, rwlock_mark, hold, pc>>

InterruptWaiter(t) ==
  /\ OthersRun
  /\ Interrupt(t, EINTR)
  /\ UNCHANGED <<state, mtx, rwlock_mark, hold, pc>>

Locking(t) == \/ LockTake(t) \/ LockWait(t) \/ DeferredUnlock(t)
              \/ LockFail(t) \/ LockNotified(t) \/ LockAgain(t)
Unlocking(t) == \/ UnlockPeek(t) \/ UnlockNotify(t)
                \/ UnlockLoop(t) \/ UnlockLoopNotify(t)

Next ==
  \E t \in Thread :
    \/ \E mode \in Mode : Lock(t, mode)
    \/ Locking(t) \/ Unlock(t) \/ Unlocking(t)
    \/ Timeout(t) \/ InterruptWaiter(t)

Spec == Init /\ [][Next]_vars

(* Threads keep running, get the mutex eventually (Mutex!LockReturns) and  *)
(* every holder unlocks.                                                   *)
Fairness == \A t \in Thread : SF_vars(Locking(t) \/ Unlock(t) \/ Unlocking(t))
FairSpec == Spec /\ Fairness

------------------------------------------------------------------------------
(* Variables range over their types.                                       *)
TypeOK ==
  /\ state \in -1 .. Cardinality(Thread)
  /\ mtx \in Thread \cup {None}
  /\ rwlock_mark \in [Thread -> Mode \cup {None}]
  /\ hold \in [Thread -> Mode \cup {None}]
  /\ pc \in [Thread -> PCs]

Holders(mode) == {t \in Thread : hold[t] = mode}

(* A writer has the lock alone, and `state` counts the holders.            *)
ReadersXorWriter ==
  /\ Holders(WLOCK) # {} => Cardinality(Holders(WLOCK)) = 1 /\ Holders(RLOCK) = {}
  /\ state = Cardinality(Holders(RLOCK)) - Cardinality(Holders(WLOCK))

(* unlock() leaves nobody behind: when the lock is free and no thread is   *)
(* inside, some thread has been woken for every queue that is not empty.   *)
FreeLockWakes ==
  mtx = None /\ state = 0 /\ queue["cvar"] # <<>> =>
    \E t \in Thread : pc[t] = "sleep" /\ ~asleep[t] /\ error_number[t] = RESUMED

(* A free lock that is waited for gets taken, unless the waiters give up.  *)
Due == state = 0 /\ queue["cvar"] # <<>>
Settled == state # 0 \/ queue["cvar"] = <<>>
FreeLockTaken == Due ~> Settled
==============================================================================
