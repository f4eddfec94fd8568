------------------------- MODULE DisposableSemaphore -------------------------
(***************************************************************************)
(* photon::disposable_semaphore (thread/thread.h): one word in which the   *)
(* waiter leaves its address and two signal()s, the one of the completion  *)
(* and the one deferred until the waiter sleeps, leave a mark.  The second *)
(* one wakes the waiter.  A thread performs a sequence of asynchronous     *)
(* operations, each with a semaphore of its own.                           *)
(***************************************************************************)
EXTENDS SleepWake, TLAPS

CONSTANTS Waiter,  \* a member of Thread
          Ops,     \* the number of operations
          Timed    \* wait() may time out

Op == 1..Ops

VARIABLES
  waiter, mark,   \* `_waiter` of each semaphore: address or None, lowest bit
  wpc, cur,       \* the waiter and its operation
  spc,            \* the completion's signal() of each operation
  deferred,       \* the deferred signal() has still to run
  ret             \* what wait() returned

vars == <<swVars, waiter, mark, wpc, cur, spc, deferred, ret>>

Init ==
  /\ SWInit
  /\ waiter = [o \in Op |-> None] /\ mark = [o \in Op |-> FALSE]
  /\ wpc = "submit" /\ cur = 1
  /\ spc = [o \in Op |-> "none"]
  /\ deferred = FALSE
  /\ ret = 0

(* An operation is submitted with a fresh semaphore. *)
Submit ==
  /\ wpc = "submit"
  /\ spc' = [spc EXCEPT ![cur] = "signal"]
  /\ wpc' = "wait"
  /\ UNCHANGED <<swVars, waiter, mark, cur, deferred, ret>>

(* wait(): the compare-exchange; it fails after the completion ...         *)
WaitSignalled ==
  /\ wpc = "wait"
  /\ mark[cur]
  /\ ret' = 0
  /\ wpc' = "returned"
  /\ UNCHANGED <<swVars, waiter, mark, cur, spc, deferred>>

WaitCas ==
  /\ wpc = "wait"
  /\ ~mark[cur]
  /\ waiter' = [waiter EXCEPT ![cur] = Waiter]
  /\ wpc' = "sleep"
  /\ UNCHANGED <<swVars, mark, cur, spc, deferred, ret>>

\* fault: nothing is deferred, the completion is taken for the second signal
WaitSleepNoDefer ==
  /\ wpc = "sleep"
  /\ Sleep(Waiter, None)
  /\ mark' = [mark EXCEPT ![cur] = TRUE]
  /\ wpc' = "asleep"
  /\ UNCHANGED <<waiter, cur, spc, deferred, ret>>

(* ... else thread_usleep_defer(timeout, &defer, this) ...                 *)
WaitSleep ==
  /\ wpc = "sleep"
  /\ Sleep(Waiter, None)
  /\ deferred' = TRUE
  /\ wpc' = "asleep"
  /\ UNCHANGED <<waiter, mark, cur, spc, ret>>

\* thread_interrupt(th, -1): of a sleeping thread, or of one that is READY
\* after a timeout
Wake ==
  IF asleep[Waiter] \/ (wpc = "asleep" /\ error_number[Waiter] = 0)
  THEN /\ asleep' = [asleep EXCEPT ![Waiter] = FALSE]
       /\ error_number' = [error_number EXCEPT ![Waiter] = RESUMED]
       /\ UNCHANGED queue
  ELSE UNCHANGED swVars

(* ... defer() signals, before any other thread of the vCPU runs ...       *)
DeferSignal ==
  /\ deferred
  /\ mark' = [mark EXCEPT ![cur] = TRUE]
  /\ IF mark[cur] THEN Wake ELSE UNCHANGED swVars
  /\ deferred' = FALSE
  /\ UNCHANGED <<waiter, wpc, cur, spc, ret>>

(* ... and wait() returns: woken by a signal, or not in time.              *)
WaitReturn ==
  /\ wpc = "asleep" /\ ~deferred
  /\ Clear(Waiter)
  /\ ret' = IF error_number[Waiter] = RESUMED THEN 0 ELSE -1
  /\ wpc' = "returned"
  /\ UNCHANGED <<waiter, mark, cur, spc, deferred>>

(* The waiter goes on to its next operation. *)
Again ==
  /\ wpc = "returned" /\ cur < Ops
  /\ cur' = cur + 1
  /\ wpc' = "submit"
  /\ UNCHANGED <<swVars, waiter, mark, spc, deferred, ret>>

\* fault: every signal() that finds a waiter wakes it
SignalAny(o) ==
  /\ spc[o] = "signal"
  /\ mark' = [mark EXCEPT ![o] = TRUE]
  /\ spc' = [spc EXCEPT ![o] = IF waiter[o] # None THEN "interrupt" ELSE "done"]
  /\ UNCHANGED <<swVars, waiter, wpc, cur, deferred, ret>>

(* signal() of the completion: fetch_or(1) ...                             *)
Signal(o) ==
  /\ spc[o] = "signal"
  /\ mark' = [mark EXCEPT ![o] = TRUE]
  /\ spc' = [spc EXCEPT ![o] = IF waiter[o] # None /\ mark[o] THEN "interrupt" ELSE "done"]
  /\ UNCHANGED <<swVars, waiter, wpc, cur, deferred, ret>>

(* ... and thread_interrupt() if it is the second                          *)
SignalInterrupt(o) ==
  /\ spc[o] = "interrupt"
  /\ Wake
  /\ spc' = [spc EXCEPT ![o] = "done"]
  /\ UNCHANGED <<waiter, mark, wpc, cur, deferred, ret>>

(* The sleep times out; this may come before defer() if the vCPU had only  *)
(* its idle worker left and thread_usleep_defer() created a thread for it. *)
Timeout ==
  /\ Timed
  /\ Expire(Waiter)
  /\ UNCHANGED <<waiter, mark, wpc, cur, spc, deferred, ret>>

WaiterSteps ==
  Submit \/ WaitSignalled \/ WaitCas \/ WaitSleep \/ DeferSignal \/ WaitReturn \/ Again
Signals(o) == Signal(o) \/ SignalInterrupt(o)

Next == WaiterSteps \/ (\E o \in Op : Signals(o)) \/ Timeout
Spec == Init /\ [][Next]_vars

(* The waiter keeps running and every operation completes.                 *)
FairSpec == Spec /\ WF_vars(WaiterSteps) /\ \A o \in Op : WF_vars(Signals(o))

------------------------------------------------------------------------------
(* wait() returns 0 only when the operation has completed, and then nobody *)
(* will touch the semaphore any more, so that it may be disposed of.       *)
SuccessMeansSignalled == wpc = "returned" /\ ret = 0 => spc[cur] = "done" /\ ~deferred

(* The waiter of a completed operation never sleeps for ever.              *)
Due == wpc = "wait"
Settled == wpc = "returned"
WaitReturns == Due ~> Settled
------------------------------------------------------------------------------
(* The proof, for any number of operations whose waits do not time out.    *)

(* A waiter that sleeps has a signal to come: the deferred one, or the     *)
(* completion's, which will be the second.                                 *)
NoLostSignal == asleep[Waiter] => deferred \/ spc[cur] \in {"signal", "interrupt"}

Shape ==
  /\ asleep \in [Thread -> BOOLEAN] /\ error_number \in [Thread -> Int]
  /\ cur \in Op
  /\ waiter \in [Op -> {None, Waiter}] /\ mark \in [Op -> BOOLEAN]
  /\ spc \in [Op -> {"none", "signal", "interrupt", "done"}]
  /\ wpc \in {"submit", "wait", "sleep", "asleep", "returned"}
  /\ deferred \in BOOLEAN

(* Where the two signals of an operation stand.  Before the deferred one   *)
(* the mark is that of the completion; operations before the current one   *)
(* are over, those after it have not begun.                                *)
Signalled ==
  /\ \A o \in Op : (o < cur => spc[o] = "done") /\ (o > cur => spc[o] = "none" /\ ~mark[o])
  /\ asleep[Waiter] => wpc = "asleep"
  /\ deferred => wpc = "asleep" /\ asleep[Waiter]
  /\ wpc = "submit" => spc[cur] = "none" /\ ~mark[cur]
  /\ wpc \in {"wait", "sleep"} \/ deferred =>
        spc[cur] = (IF mark[cur] THEN "done" ELSE "signal")
  /\ wpc \in {"sleep", "asleep"} => waiter[cur] = Waiter
  /\ wpc = "asleep" /\ ~deferred => mark[cur]
  /\ wpc = "asleep" /\ ~asleep[Waiter] => spc[cur] = "done"
  /\ wpc = "returned" => spc[cur] = "done"

Inv == Shape /\ Signalled /\ NoLostSignal

(* What thread_interrupt() does to the waiter. *)
LEMMA WakeWakes == ASSUME Waiter \in Thread, Shape, Wake
                   PROVE  /\ asleep' \in [Thread -> BOOLEAN] /\ error_number' \in [Thread -> Int]
                          /\ ~asleep'[Waiter]
<1>1. CASE asleep[Waiter] \/ (wpc = "asleep" /\ error_number[Waiter] = 0)
  <2>1. /\ asleep' = [asleep EXCEPT ![Waiter] = FALSE]
        /\ error_number' = [error_number EXCEPT ![Waiter] = RESUMED]
    BY <1>1 DEF Wake
  <2>2. RESUMED \in Int
    BY DEF RESUMED
  <2>3. error_number' \in [Thread -> Int]
    BY <2>1, <2>2 DEF Shape
  <2>4. asleep' \in [Thread -> BOOLEAN] /\ ~asleep'[Waiter]
    BY <2>1 DEF Shape
  <2>5. QED
    BY <2>3, <2>4
<1>2. CASE ~(asleep[Waiter] \/ (wpc = "asleep" /\ error_number[Waiter] = 0))
  BY <1>2 DEF Wake, Shape, swVars
<1>3. QED
  BY <1>1, <1>2

(* Every step keeps the invariant. *)
LEMMA Step == ASSUME Ops \in Nat \ {0}, Waiter \in Thread, ~Timed, Inv, [Next]_vars PROVE Inv'
<1> USE DEF Inv, Op
<1>n. None # Waiter
  BY SleepWakeAssumption
<1>1. CASE UNCHANGED vars
  BY <1>1 DEF vars, swVars, Shape, Signalled, NoLostSignal
<1>2. CASE Submit
  BY <1>2 DEF Submit, swVars, Shape, Signalled, NoLostSignal
<1>3. CASE WaitSignalled
  BY <1>3 DEF WaitSignalled, swVars, Shape, Signalled, NoLostSignal
<1>4. CASE WaitCas
  BY <1>4 DEF WaitCas, swVars, Shape, Signalled, NoLostSignal
<1>5. CASE WaitSleep
  BY <1>5 DEF WaitSleep, Sleep, Shape, Signalled, NoLostSignal
<1>6. CASE DeferSignal
  <2>1. CASE mark[cur]
    <3>1. /\ asleep' \in [Thread -> BOOLEAN] /\ error_number' \in [Thread -> Int]
          /\ ~asleep'[Waiter]
      BY <1>6, <2>1, WakeWakes DEF DeferSignal
    <3>2. spc[cur] = "done" /\ wpc = "asleep"
      BY <1>6, <2>1 DEF DeferSignal, Signalled
    <3>3. mark' = [mark EXCEPT ![cur] = TRUE] /\ deferred' = FALSE /\ UNCHANGED <<waiter, wpc, cur, spc>>
      BY <1>6 DEF DeferSignal
    <3>4. QED
      BY <3>1, <3>2, <3>3 DEF Shape, Signalled, NoLostSignal
  <2>2. CASE ~mark[cur]
    BY <1>6, <2>2 DEF DeferSignal, swVars, Shape, Signalled, NoLostSignal
  <2>3. QED
    BY <2>1, <2>2
<1>7. CASE WaitReturn
  BY <1>7 DEF WaitReturn, Clear, Shape, Signalled, NoLostSignal
<1>8. CASE Again
  BY <1>8 DEF Again, swVars, Shape, Signalled, NoLostSignal
<1>9. ASSUME NEW o \in Op, Signal(o) PROVE Inv'
  <2>1. o = cur
    BY <1>9 DEF Signal, Shape, Signalled
  <2>2. QED
    BY <1>9, <1>n, <2>1 DEF Signal, swVars, Shape, Signalled, NoLostSignal
<1>10. ASSUME NEW o \in Op, SignalInterrupt(o) PROVE Inv'
  <2>1. o = cur /\ wpc = "asleep" /\ ~deferred
    BY <1>10 DEF SignalInterrupt, Shape, Signalled
  <2>2. /\ asleep' \in [Thread -> BOOLEAN] /\ error_number' \in [Thread -> Int]
        /\ ~asleep'[Waiter]
    BY <1>10, WakeWakes DEF SignalInterrupt
  <2>3. QED
    BY <1>10, <2>1, <2>2 DEF SignalInterrupt, Shape, Signalled, NoLostSignal
<1>11. QED
  BY <1>1, <1>2, <1>3, <1>4, <1>5, <1>6, <1>7, <1>8, <1>9, <1>10 DEF Next, WaiterSteps, Signals, Timeout

(* For any number of operations, each with a semaphore of its own: wait()  *)
(* succeeds only after both signal()s are done with the semaphore, and a   *)
(* waiter that sleeps has a signal to come (thread.h,                      *)
(* disposable_semaphore).                                                  *)
THEOREM Disposed == ASSUME Ops \in Nat \ {0}, Waiter \in Thread, ~Timed
                    PROVE  Spec => [](SuccessMeansSignalled /\ NoLostSignal)
<1>1. Init => Inv
  <2>1. ASSUME Init PROVE Shape
    <3>1. asleep \in [Thread -> BOOLEAN] /\ error_number \in [Thread -> Int]
      BY <2>1 DEF Init, SWInit
    <3>2. waiter \in [Op -> {None, Waiter}] /\ mark \in [Op -> BOOLEAN]
      BY <2>1 DEF Init
    <3>3. spc \in [Op -> {"none", "signal", "interrupt", "done"}] /\ cur \in Op
      BY <2>1 DEF Init, Op
    <3>4. wpc = "submit" /\ deferred \in BOOLEAN
      BY <2>1 DEF Init
    <3>5. QED
      BY <3>1, <3>2, <3>3, <3>4 DEF Shape
  <2>2. Init => Signalled
    BY DEF Init, SWInit, Signalled, Op
  <2>3. Init => NoLostSignal
    BY DEF Init, SWInit, NoLostSignal
  <2>4. QED
    BY <2>1, <2>2, <2>3 DEF Inv
<1>2. Inv /\ [Next]_vars => Inv'
  BY Step
<1>3. Inv => SuccessMeansSignalled /\ NoLostSignal
  BY DEF Inv, Shape, Signalled, SuccessMeansSignalled
<1>4. QED
  BY <1>1, <1>2, <1>3, PTL DEF Spec
==============================================================================
