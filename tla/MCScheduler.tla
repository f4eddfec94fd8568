---------------------------- MODULE MCScheduler ----------------------------
(* Model checking of Scheduler: two vCPUs and their main threads, another  *)
(* thread that programs may create, and an OS thread that is no vCPU.      *)
EXTENDS Scheduler, TLC
CONSTANTS v1, v2, m1, m2
MCMain == v1 :> m1 @@ v2 :> m2

\* What the programs do that are checked for safety ...
SafetyPrograms ==
  {{"wait", "interrupt", "resume_one", "os"},
   {"yield_to", "usleep", "interrupt", "migrate"},
   {"yield", "create", "exit", "migrate"},
   {"yield", "wait", "interrupt", "resume_one", "resume", "shutdown"}}
\* ... and for liveness.
LivenessPrograms == {{"yield", "wait", "resume_one"}, {"yield", "usleep", "interrupt"}}

----------------------------------------------------------------------------
\* Scheduler implements SleepWake: a thread is asleep exactly while its state is SLEEPING,
\* whichever vCPU wakes it up and however the wakers race with each other and the timeout.
Abstract == INSTANCE SleepWake WITH
  Thread <- Thread, Queue <- Queue, None <- None,
  asleep <- [t \in Thread |-> state[t] = "SLEEPING"],
  queue <- wq,
  error_number <- error_number

(* Each step of the scheduler is one step of SleepWake or none: a sleep    *)
(* ends once, by resume_one() only at the head of the wait queue, and the  *)
(* error_number tells which way it ended.                                  *)
ImplementsSleepWake == Abstract!SWSpec
=============================================================================
