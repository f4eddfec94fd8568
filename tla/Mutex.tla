-------------------------------- MODULE Mutex --------------------------------
(***************************************************************************)
(* photon::mutex and seq_mutex (thread/thread.cpp): try_lock() by compare- *)
(* exchange, `retries` rounds of thread_yield(), then a sleep in the wait  *)
(* queue; unlock() hands the ownership to the head of the wait queue.      *)
(* Threads of any vCPUs take part, so all steps interleave.                *)
(* thread_usleep_defer() releases splock only after the sleeper is in the  *)
(* queue, on the stack of the next thread of its vCPU (DeferredUnlock).    *)
(***************************************************************************)
EXTENDS SleepWake

CONSTANTS Retries     \* mutex::retries: 0 for seq_mutex
ASSUME RetriesAssumption == Retries \in Nat /\ "q" \in Queue

VARIABLES
  owner,              \* mutex::owner
  splock,             \* holder of mutex::splock
  pin,                \* pin[h]: who holds h's thread::lock (ScopedLockHead)
  pc,
  re                  \* the local `re`: rounds left

vars == <<swVars, owner, splock, pin, pc, re>>

PCs == {"idle", "yield", "slow", "check", "switch", "sleep", "cs",
        "unlock", "handoff", "grant"}

Init ==
  /\ SWInit
  /\ owner = None
  /\ splock = None
  /\ pin = [t \in Thread |-> None]
  /\ pc = [t \in Thread |-> "idle"]
  /\ re = [t \in Thread |-> 0]

Goto(t, l) == pc' = [pc EXCEPT ![t] = l]

TryLock(t) == owner = None /\ owner' = t

------------------------------------------------------------------------------
(* lock(), or a successful try_lock(): the lock is free *)
LockFast(t) ==
  /\ pc[t] = "idle"
  /\ TryLock(t)
  /\ Goto(t, "cs")
  /\ UNCHANGED <<swVars, splock, pin, re>>

(* lock(): it is not; yield (error_number is cleared) or go the slow way *)
LockBusy(t) ==
  /\ pc[t] = "idle"
  /\ owner # None
  /\ re' = [re EXCEPT ![t] = Retries]
  /\ IF Retries = 0
     THEN Goto(t, "slow") /\ UNCHANGED swVars
     ELSE Goto(t, "yield") /\ Clear(t)
  /\ UNCHANGED <<owner, splock, pin>>

(* lock(): thread_yield() returns; an interruption fails the lock() and    *)
(* leaves error_number as it is                                            *)
YieldReturn(t) ==
  /\ pc[t] = "yield"
  /\ \/ /\ error_number[t] # 0
        /\ Goto(t, "idle")
        /\ re' = [re EXCEPT ![t] = 0]
        /\ UNCHANGED <<swVars, owner>>
     \/ /\ error_number[t] = 0
        /\ TryLock(t)
        /\ Goto(t, "cs")
        /\ re' = [re EXCEPT ![t] = 0]
        /\ UNCHANGED swVars
     \/ /\ error_number[t] = 0
        /\ owner # None
        /\ re' = [re EXCEPT ![t] = @ - 1]
        /\ IF re[t] = 1 THEN Goto(t, "slow") /\ UNCHANGED swVars
                        ELSE UNCHANGED pc /\ Clear(t)
        /\ UNCHANGED owner
  /\ UNCHANGED <<splock, pin>>

(* lock(): splock.lock() *)
LockSplock(t) ==
  /\ pc[t] = "slow"
  /\ splock = None
  /\ splock' = t
  /\ Goto(t, "check")
  /\ UNCHANGED <<swVars, owner, pin, re>>

(* lock(): try_lock() again, under splock *)
LockCheck(t) ==
  /\ pc[t] = "check"
  /\ TryLock(t)
  /\ splock' = None
  /\ Goto(t, "cs")
  /\ UNCHANGED <<swVars, pin, re>>

(* lock(): the timeout has expired already *)
LockExpired(t) ==
  /\ pc[t] = "check"
  /\ owner # None
  /\ splock' = None
  /\ Goto(t, "idle")
  /\ UNCHANGED <<swVars, owner, pin, re>>

(* lock(): thread_usleep_defer(timeout, &q, spinlock_unlock, &splock) ...  *)
LockSleep(t) ==
  /\ pc[t] = "check"
  /\ owner # None
  /\ pin[t] = None
  /\ Sleep(t, "q")
  /\ Goto(t, "switch")
  /\ UNCHANGED <<owner, splock, pin, re>>
\* fault: nobody releases splock for the sleeper
DeferredUnlockLost(t) ==
  /\ pc[t] = "switch"
  /\ Goto(t, "sleep")
  /\ UNCHANGED <<swVars, owner, splock, pin, re>>

(* ... the deferred unlock, once t is switched out ...                     *)
DeferredUnlock(t) ==
  /\ pc[t] = "switch"
  /\ splock' = None
  /\ Goto(t, "sleep")
  /\ UNCHANGED <<swVars, owner, pin, re>>
\* fault: whatever ends the sleep is taken for a success
LockReturnAny(t) ==
  /\ pc[t] = "sleep"
  /\ ~asleep[t]
  /\ Goto(t, "cs")
  /\ Clear(t)
  /\ UNCHANGED <<owner, splock, pin, re>>

(* ... and the return: waitq_translate_errno() makes -1 a success.         *)
LockReturn(t) ==
  /\ pc[t] = "sleep"
  /\ ~asleep[t]
  /\ Goto(t, IF error_number[t] = RESUMED THEN "cs" ELSE "idle")
  /\ Clear(t)
  /\ UNCHANGED <<owner, splock, pin, re>>

------------------------------------------------------------------------------
(* unlock() by the owner: do_mutex_unlock() takes splock ...               *)
UnlockSplock(t) ==
  /\ pc[t] = "cs"
  /\ splock = None
  /\ splock' = t
  /\ Goto(t, "unlock")
  /\ UNCHANGED <<swVars, owner, pin, re>>

(* ... and the lock of the first waiter; with no waiter it just frees.     *)
UnlockPinHead(t) ==
  /\ pc[t] = "unlock"
  /\ IF queue["q"] = <<>>
     THEN /\ owner' = None
          /\ splock' = None
          /\ Goto(t, "idle")
          /\ UNCHANGED pin
     ELSE /\ pin[Head(queue["q"])] = None
          /\ pin' = [pin EXCEPT ![Head(queue["q"])] = t]
          /\ Goto(t, "handoff")
          /\ UNCHANGED <<owner, splock>>
  /\ UNCHANGED <<swVars, re>>
\* fault: the mutex is freed before the waiter is woken up, for it to try again
UnlockHandoffFree(t) ==
  /\ pc[t] = "handoff"
  /\ owner' = None
  /\ Goto(t, "grant")
  /\ UNCHANGED <<swVars, splock, pin, re>>

(* owner.store(h) *)
UnlockHandoff(t) ==
  /\ pc[t] = "handoff"
  /\ owner' = Head(queue["q"])
  /\ Goto(t, "grant")
  /\ UNCHANGED <<swVars, splock, pin, re>>

(* prelocked_thread_interrupt(h, -1), and both locks are released *)
UnlockGrant(t) ==
  /\ pc[t] = "grant"
  /\ Resume("q")
  /\ pin' = [pin EXCEPT ![Head(queue["q"])] = None]
  /\ splock' = None
  /\ Goto(t, "idle")
  /\ UNCHANGED <<owner, re>>

------------------------------------------------------------------------------
(* The rest of the program: timeouts, and interrupts from anywhere.  To    *)
(* wake a sleeper up they need its thread::lock; an interrupt of a thread  *)
(* that was seen READY does not.                                           *)
Timeout(t) ==
  /\ pin[t] = None
  /\ Expire(t)
  /\ UNCHANGED <<owner, splock, pin, pc, re>>

InterruptWaiter(t) ==
  /\ \/ pin[t] = None /\ Interrupt(t, EINTR)
     \/ Nudge(t, EINTR)
  /\ UNCHANGED <<owner, splock, pin, pc, re>>

Lock(t) == YieldReturn(t) \/ LockSplock(t) \/ LockCheck(t) \/ LockSleep(t)
           \/ DeferredUnlock(t) \/ LockReturn(t)
Unlock(t) == UnlockPinHead(t) \/ UnlockHandoff(t) \/ UnlockGrant(t)

Next ==
  \E t \in Thread :
    \/ LockFast(t) \/ LockBusy(t) \/ Lock(t) \/ LockExpired(t)
    \/ UnlockSplock(t) \/ Unlock(t)
    \/ Timeout(t) \/ InterruptWaiter(t)

Spec == Init /\ [][Next]_vars

(* Threads inside lock() and unlock() keep running and get a spin lock     *)
(* that is free again and again; the owner unlocks.                        *)
Fairness == \A t \in Thread : /\ SF_vars(Lock(t) \/ Unlock(t))
                              /\ SF_vars(UnlockSplock(t))
FairSpec == Spec /\ Fairness

------------------------------------------------------------------------------
(* Variables range over their types.                                       *)
TypeOK ==
  /\ asleep \in [Thread -> BOOLEAN]
  /\ queue \in [Queue -> Seq(Thread)]
  /\ error_number \in [Thread -> Errno]
  /\ owner \in Thread \cup {None}
  /\ splock \in Thread \cup {None}
  /\ pin \in [Thread -> Thread \cup {None}]
  /\ pc \in [Thread -> PCs]
  /\ re \in [Thread -> 0..Retries]

\* From the return of a successful lock() to the store to owner in unlock().
Holds(t) == pc[t] \in {"cs", "unlock", "handoff"}
\* t owns the mutex, but its lock() has not returned yet.
Handed(t) ==
  \/ asleep[t] /\ pin[t] # None /\ pc[pin[t]] = "grant"
  \/ pc[t] = "sleep" /\ error_number[t] = RESUMED

(* mutex: at most one thread is between a successful lock() and unlock().  *)
MutualExclusion == \A t, u \in Thread : Holds(t) /\ Holds(u) => t = u

(* The owner is a thread that holds the mutex, or one whose lock() is      *)
(* about to succeed: no timeout or interrupt loses a mutex handed over,    *)
(* and nobody who is not the owner believes to have it.                    *)
OwnerKnowsIt ==
  /\ \A t \in Thread : Holds(t) => owner = t
  /\ owner # None => Holds(owner) \/ Handed(owner)

(* seq_mutex: "threads are guaranteed to get the lock in sequental order   *)
(* (FIFO)": once somebody waits, the next owner is the first waiter.       *)
NoBarging ==
  [][owner' # owner /\ owner' # None /\ queue["q"] # <<>>
       => owner' = Head(queue["q"])]_vars

(* A waiter gets the mutex, or its lock() fails, if owners unlock.         *)
Due(t) == pc[t] = "slow"
Settled(t) == pc[t] \in {"cs", "idle"}
LockReturns == \A t \in Thread : Due(t) ~> Settled(t)
==============================================================================
