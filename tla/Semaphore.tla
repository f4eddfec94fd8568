------------------------------ MODULE Semaphore ------------------------------
(***************************************************************************)
(* photon::semaphore (thread/thread.cpp, thread.h): a counter under a spin *)
(* lock, waiters for different counts in one wait queue, and try_resume()  *)
(* which wakes from the head as many waiters as the count suffices for, or *)
(* also later ones when the semaphore resumes out of order.                *)
(***************************************************************************)
EXTENDS SleepWake

CONSTANTS Counts,    \* the counts that threads wait for and signal
          MaxCount,  \* bound on m_count
          OOO        \* m_ooo_resume

VARIABLES
  m_count, splock,
  qlock,             \* holder of the spin lock of the wait queue
  pin,               \* pin[h]: who holds h's thread::lock
  semaphore_count,   \* thread::semaphore_count: what a waiter waits for
  pc,
  cnt,               \* the local `cnt` of try_resume()
  pos                \* the local `th` of its out-of-order scan, as a position

vars == <<swVars, m_count, splock, qlock, pin, semaphore_count, pc, cnt, pos>>
locals == <<cnt, pos>>

PCs == {"idle", "try", "switch", "sleep", "resume", "wake", "scan", "spin"}

Init ==
  /\ SWInit
  /\ m_count = 0
  /\ splock = None
  /\ qlock = None
  /\ pin = [t \in Thread |-> None]
  /\ semaphore_count = [t \in Thread |-> 0]
  /\ pc = [t \in Thread |-> "idle"]
  /\ cnt = [t \in Thread |-> 0]
  /\ pos = [t \in Thread |-> 0]

Goto(t, l) == pc' = [pc EXCEPT ![t] = l]
\* The call of t returns: DEFER(counter = 0) and DEFER(splock.unlock()).
Return(t) ==
  /\ splock' = None
  /\ semaphore_count' = [semaphore_count EXCEPT ![t] = 0]
  /\ Goto(t, "idle")
  /\ cnt' = [cnt EXCEPT ![t] = 0]
  /\ pos' = [pos EXCEPT ![t] = 0]

------------------------------------------------------------------------------
(* wait_interruptible(c) *)
Wait(t, c) ==
  /\ pc[t] = "idle"
  /\ splock = None
  /\ splock' = t
  /\ semaphore_count' = [semaphore_count EXCEPT ![t] = c]
  /\ Goto(t, "try")
  /\ UNCHANGED <<swVars, m_count, qlock, pin, locals>>

(* try_subtract() succeeds *)
Subtract(t) ==
  /\ pc[t] = "try"
  /\ m_count >= semaphore_count[t]
  /\ m_count' = m_count - semaphore_count[t]
  /\ Return(t)
  /\ UNCHANGED <<swVars, qlock, pin>>
\* fault: the waiter falls asleep with the lock of the wait queue
WaitSleepHolding(t) ==
  /\ pc[t] = "try"
  /\ m_count < semaphore_count[t]
  /\ qlock = None /\ pin[t] = None
  /\ Sleep(t, "q")
  /\ qlock' = t
  /\ Goto(t, "switch")
  /\ UNCHANGED <<m_count, splock, pin, semaphore_count, locals>>

(* it fails: waitq::wait_defer(timeout, spinlock_unlock, &splock) ...      *)
WaitSleep(t) ==
  /\ pc[t] = "try"
  /\ m_count < semaphore_count[t]
  /\ qlock = None /\ pin[t] = None
  /\ Sleep(t, "q")
  /\ Goto(t, "switch")
  /\ UNCHANGED <<m_count, splock, qlock, pin, semaphore_count, locals>>

(* ... the deferred unlock ...                                             *)
DeferredUnlock(t) ==
  /\ pc[t] = "switch"
  /\ splock' = None
  /\ Goto(t, "sleep")
  /\ UNCHANGED <<swVars, m_count, qlock, pin, semaphore_count, locals>>

(* ... and splock.lock() after the sleep.  A resumed thread tries again; a *)
(* thread that timed out or was interrupted passes the count on, and fails.*)
WaitReturn(t) ==
  /\ pc[t] = "sleep"
  /\ ~asleep[t]
  /\ splock = None
  /\ Clear(t)
  /\ IF error_number[t] = RESUMED
     THEN /\ splock' = t
          /\ Goto(t, "try")
          /\ UNCHANGED <<semaphore_count, locals>>
     ELSE IF ~OOO /\ m_count > 0
          THEN /\ splock' = t
               /\ cnt' = [cnt EXCEPT ![t] = m_count]
               /\ Goto(t, "resume")
               /\ UNCHANGED <<semaphore_count, pos>>
          ELSE Return(t)
  /\ UNCHANGED <<m_count, qlock, pin>>

(* signal(c): add the count, then try_resume() *)
Signal(t, c) ==
  /\ pc[t] = "idle"
  /\ splock = None
  /\ m_count + c <= MaxCount
  /\ splock' = t
  /\ m_count' = m_count + c
  /\ cnt' = [cnt EXCEPT ![t] = m_count + c]
  /\ Goto(t, "resume")
  /\ UNCHANGED <<swVars, qlock, pin, semaphore_count, pos>>

\* fault: the count must be more than what the first waiter asks for
HeadServedStrict(t) == queue["q"] # <<>> /\ semaphore_count[Head(queue["q"])] < cnt[t]

\* The first waiter can be served with what is left of the count.
HeadServed(t) == queue["q"] # <<>> /\ semaphore_count[Head(queue["q"])] <= cnt[t]

(* try_resume(): lock the head; wake it up if the count suffices ...       *)
ResumeHead(t) ==
  /\ pc[t] = "resume"
  /\ HeadServed(t)
  /\ pin[Head(queue["q"])] = None
  /\ pin' = [pin EXCEPT ![Head(queue["q"])] = t]
  /\ Goto(t, "wake")
  /\ UNCHANGED <<swVars, m_count, splock, qlock, semaphore_count, locals>>

ResumeWake(t) ==
  LET h == Head(queue["q"])
  IN /\ pc[t] = "wake"
     /\ qlock = None
     /\ cnt' = [cnt EXCEPT ![t] = @ - semaphore_count[h]]
     /\ Resume("q")
     /\ pin' = [pin EXCEPT ![h] = None]
     /\ Goto(t, "resume")
     /\ UNCHANGED <<m_count, splock, qlock, semaphore_count, pos>>

(* ... else end, unless the semaphore resumes out of order: then lock the  *)
(* wait queue and scan the waiters after the head.                         *)
ResumeEnd(t) ==
  /\ pc[t] = "resume"
  /\ ~HeadServed(t)
  /\ IF queue["q"] = <<>> \/ cnt[t] = 0 \/ ~OOO
     THEN Return(t) /\ UNCHANGED qlock
     ELSE /\ qlock = None
          /\ qlock' = t
          /\ pos' = [pos EXCEPT ![t] = 2]
          /\ Goto(t, "scan")
          /\ UNCHANGED <<splock, semaphore_count, cnt>>
  /\ UNCHANGED <<swVars, m_count, pin>>

(* the scan: the next waiter is locked and looked at, with q.lock held.    *)
(* If the count suffices for it, prelocked_thread_interrupt(th, -1) calls  *)
(* dequeue_ready_atomic(), which spins on the q.lock that t itself holds.  *)
ScanNext(t) ==
  /\ pc[t] = "scan"
  /\ pos[t] <= Len(queue["q"]) /\ cnt[t] > 0
  /\ LET th == queue["q"][pos[t]]
     IN /\ pin[th] = None
        /\ IF semaphore_count[th] <= cnt[t]
           THEN /\ pin' = [pin EXCEPT ![th] = t]
                /\ cnt' = [cnt EXCEPT ![t] = @ - semaphore_count[th]]
                /\ Goto(t, "spin")
                /\ UNCHANGED pos
           ELSE /\ pos' = [pos EXCEPT ![t] = @ + 1]
                /\ UNCHANGED <<pin, cnt, pc>>
  /\ UNCHANGED <<swVars, m_count, splock, qlock, semaphore_count>>

ScanEnd(t) ==
  /\ pc[t] = "scan"
  /\ pos[t] > Len(queue["q"]) \/ cnt[t] = 0
  /\ qlock' = None
  /\ Return(t)
  /\ UNCHANGED <<swVars, m_count, pin>>

------------------------------------------------------------------------------
(* The rest of the program: timeouts and interrupts. *)
Timeout(t) ==
  /\ pin[t] = None /\ qlock = None
  /\ Expire(t)
  /\ UNCHANGED <<m_count, splock, qlock, pin, semaphore_count, pc, locals>>

InterruptWaiter(t) ==
  /\ pin[t] = None /\ qlock = None
  /\ Interrupt(t, EINTR)
  /\ UNCHANGED <<m_count, splock, qlock, pin, semaphore_count, pc, locals>>

Waiter(t) == Subtract(t) \/ WaitSleep(t) \/ DeferredUnlock(t) \/ WaitReturn(t)
TryResume(t) == \/ ResumeHead(t) \/ ResumeWake(t) \/ ResumeEnd(t)
                \/ ScanNext(t) \/ ScanEnd(t)

Next ==
  \E t \in Thread :
    \/ \E c \in Counts : Wait(t, c) \/ Signal(t, c)
    \/ Waiter(t) \/ TryResume(t)
    \/ Timeout(t) \/ InterruptWaiter(t)

Spec == Init /\ [][Next]_vars

(* Threads inside the semaphore keep running and get splock eventually.    *)
Fairness == \A t \in Thread : SF_vars(Waiter(t) \/ TryResume(t))
FairSpec == Spec /\ Fairness

------------------------------------------------------------------------------
(* Variables range over their types.                                       *)
TypeOK ==
  /\ m_count \in 0..MaxCount
  /\ splock \in Thread \cup {None}
  /\ qlock \in Thread \cup {None}
  /\ pin \in [Thread -> Thread \cup {None}]
  /\ semaphore_count \in [Thread -> Counts \cup {0}]
  /\ pc \in [Thread -> PCs]
  /\ cnt \in [Thread -> 0..MaxCount]
  /\ pos \in [Thread -> Nat]

\* No thread is inside the semaphore, and nobody woken has still to run.
Quiet == splock = None /\ \A t \in Thread : pc[t] = "sleep" => asleep[t]

(* thread.h: a wait times out if the "count is not enough until timeout".  *)
(* When nothing is in motion, the first waiter really lacks the count.     *)
HeadLacksCount ==
  Quiet /\ queue["q"] # <<>> => semaphore_count[Head(queue["q"])] > m_count

(* signal() returns: "always lock struct thread before waitq, so as to     *)
(* avoid deadlock" (scheduler notes in thread.cpp).                        *)
Due(t) == pc[t] = "resume"
Settled(t) == pc[t] = "idle"
SignalReturns == \A t \in Thread : Due(t) ~> Settled(t)
==============================================================================
