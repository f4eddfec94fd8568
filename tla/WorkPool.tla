------------------------------ MODULE WorkPool ------------------------------
(***************************************************************************)
(* WorkPool (thread/workerpool.cpp) and Executor (common/executor), both   *)
(* over a RingChannel (common/lockfree_queue.h): a bounded queue of tasks, *)
(* a semaphore for receivers that give up polling, and the number of       *)
(* receivers that might sleep (`idler`).  The queue is abstract here;      *)
(* LockfreeQueue is about how it works.                                    *)
(***************************************************************************)
EXTENDS Naturals, Sequences, FiniteSets

CONSTANTS
  Worker,                  \* the std::threads that the constructor starts
  Joiner,                  \* vCPUs that join_current_vcpu_into_workpool()
  Task,                    \* the tasks that are submitted, by a thread each
  RingSize,                \* capacity of the ring
  Mode,                    \* < 0: workers run tasks; otherwise a thread runs each
  Executor                 \* one worker, stopped by one empty task

NoTask == "none"           \* the empty Delegate that ends a worker

VARIABLES
  pool,   \* ring, semaphore count, idler, vcpus, ready_vcpu
  rx,     \* of each worker: next step, task at hand, running_tasks
  tx,     \* of each task: what its caller does
  done,   \* the tasks that have been run
  owner   \* what the thread does that creates and deletes the pool
wvars == <<pool, rx, tx, done, owner>>

Receiver == Worker \cup Joiner

Init ==
  /\ pool = [ring |-> <<>>, sem |-> 0, idler |-> 0, vcpus |-> {}, ready |-> 0]
  /\ rx = [w \in Receiver |-> [pc |-> "out", task |-> NoTask, running |-> {}]]
  /\ tx = [k \in Task |-> [pc |-> "new", waits |-> FALSE]]
  /\ done = {} /\ owner = [pc |-> "ctor", stops |-> 0]

At(w, l) == rx' = [rx EXCEPT ![w].pc = l]

------------------------------------------------------------------------------
(* RingChannel                                                             *)

\* send(): push, waiting while the ring is full, ...
Push(x) == Len(pool.ring) < RingSize /\ pool' = [pool EXCEPT !.ring = Append(@, x)]

\* fault: the semaphore is not signalled
NotifyNot == pool' = pool

\* ... then signal if some receiver may sleep.
Notify == pool' = IF pool.idler > 0 THEN [pool EXCEPT !.sem = @ + 1] ELSE pool

\* recv(): a first pop without further ado ...
RecvFirst(w) ==
  /\ rx[w].pc = "recv"
  /\ IF pool.ring # <<>>
     THEN /\ pool' = [pool EXCEPT !.ring = Tail(@)]
          /\ rx' = [rx EXCEPT ![w].pc = "got", ![w].task = Head(pool.ring)]
     ELSE At(w, "yield") /\ UNCHANGED pool
  /\ UNCHANGED <<tx, done, owner>>

\* ... then it counts as an idler ...
RecvIdle(w) ==
  /\ rx[w].pc = "yield" /\ pool' = [pool EXCEPT !.idler = @ + 1] /\ At(w, "pop")
  /\ UNCHANGED <<tx, done, owner>>

\* ... and polls; when it has polled enough, or runs tasks, it waits.
RecvPop(w) ==
  /\ rx[w].pc = "pop"
  /\ IF pool.ring # <<>>
     THEN /\ pool' = [pool EXCEPT !.ring = Tail(@), !.idler = @ - 1]
          /\ rx' = [rx EXCEPT ![w].pc = "got", ![w].task = Head(pool.ring)]
     ELSE At(w, "wait") /\ UNCHANGED pool
  /\ UNCHANGED <<tx, done, owner>>

RecvWait(w) ==
  /\ rx[w].pc = "wait"
  /\ IF pool.sem > 0 THEN pool' = [pool EXCEPT !.sem = @ - 1] /\ At(w, "pop")
                     ELSE UNCHANGED pool /\ At(w, "asleep")
  /\ UNCHANGED <<tx, done, owner>>

\* A sleeper is resumed by a signal, or after 100 ms.
RecvWoken(w) ==
  /\ rx[w].pc = "asleep" /\ pool.sem > 0
  /\ pool' = [pool EXCEPT !.sem = @ - 1] /\ At(w, "pop") /\ UNCHANGED <<tx, done, owner>>
RecvTimeout(w) ==
  rx[w].pc = "asleep" /\ pool.sem = 0 /\ At(w, "pop") /\ UNCHANGED <<pool, tx, done, owner>>

Recv(w) == RecvFirst(w) \/ RecvIdle(w) \/ RecvPop(w) \/ RecvWait(w) \/ RecvWoken(w)

------------------------------------------------------------------------------
(* Workers                                                                 *)

\* main_loop(): add_vcpu() and ready_vcpu.signal(1).  A worker thread is
\* started by the constructor; a joiner comes once the pool is there.
Enter(w) ==
  /\ rx[w].pc = "out" /\ (w \in Joiner => owner.pc = "use")
  /\ pool' = [pool EXCEPT !.vcpus = @ \cup {w}, !.ready = @ + 1] /\ At(w, "recv")
  /\ UNCHANGED <<tx, done, owner>>

\* The task at hand: an empty one ends the loop, others are run in place,
\* or by a thread that copies the delegate before main_loop goes on.
Dispatch(w) ==
  LET x == rx[w].task IN
  /\ rx[w].pc = "got"
  /\ rx' = [rx EXCEPT ![w] =
       IF x = NoTask THEN [@ EXCEPT !.pc = "drain"]
       ELSE [pc |-> IF Mode < 0 /\ ~ Executor THEN "run" ELSE "recv", task |-> NoTask,
             running |-> @.running \cup {x}]]
  /\ UNCHANGED <<pool, tx, done, owner>>

\* delegate_helper(), do_event(): a task ends, and call() is resumed.
RunTask(w) ==
  \E x \in rx[w].running :
    /\ rx' = [rx EXCEPT ![w].running = @ \ {x},
                        ![w].pc = IF @ = "run" THEN "recv" ELSE @]
    /\ done' = done \cup {x}
    /\ tx' = [tx EXCEPT ![x] = [pc |-> IF @.pc = "suspended" THEN "returned" ELSE @.pc,
                                waits |-> FALSE]]
    /\ UNCHANGED <<pool, owner>>

\* fault: the worker leaves while its tasks run
DrainNot(w) ==
  /\ rx[w].pc = "drain" /\ At(w, "end")
  /\ pool' = [pool EXCEPT !.vcpus = @ \ {w}] /\ UNCHANGED <<tx, done, owner>>

\* The end of main_loop(): wait for the tasks, delete the thread pool, remove_vcpu().
Drain(w) ==
  /\ rx[w].pc = "drain" /\ rx[w].running = {} /\ At(w, "end")
  /\ pool' = [pool EXCEPT !.vcpus = @ \ {w}] /\ UNCHANGED <<tx, done, owner>>

Work(w) == Enter(w) \/ Recv(w) \/ Dispatch(w) \/ Drain(w)

------------------------------------------------------------------------------
(* Callers                                                                 *)

\* async_call(), _issue() and the first half of call(): enqueue
Enqueue(k) ==
  /\ tx[k].pc = "new" /\ owner.pc = "use" /\ Push(k)
  /\ \E waits \in BOOLEAN : tx' = [tx EXCEPT ![k] = [pc |-> "notify", waits |-> waits]]
  /\ UNCHANGED <<rx, done, owner>>
EnqueueNotify(k) ==
  /\ tx[k].pc = "notify" /\ Notify /\ UNCHANGED <<rx, done, owner>>
  /\ tx' = [tx EXCEPT ![k].pc = IF tx[k].waits THEN "suspended" ELSE "returned"]

Call(k) == Enqueue(k) \/ EnqueueNotify(k)

------------------------------------------------------------------------------
(* The owner                                                               *)

\* impl(): wait until the workers it has started are ready.
Construct ==
  /\ owner.pc = "ctor" /\ pool.ready >= Cardinality(Worker)
  /\ pool' = [pool EXCEPT !.ready = @ - Cardinality(Worker)]
  /\ owner' = [owner EXCEPT !.pc = "use"] /\ UNCHANGED <<rx, tx, done>>

\* fault: the stop tasks are counted by the threads of the constructor
DestroyOwned ==
  /\ owner.pc = "use" /\ \A k \in Task : tx[k].pc \in {"new", "returned"}
  /\ \A j \in Joiner : rx[j].pc # "out"
  /\ owner' = [pc |-> "stop", stops |-> Cardinality(Worker)] /\ UNCHANGED <<pool, rx, tx, done>>

\* ~impl(), when nobody submits or joins any more: one empty task per vCPU.
Destroy ==
  /\ owner.pc = "use" /\ \A k \in Task : tx[k].pc \in {"new", "returned"}
  /\ \A j \in Joiner : rx[j].pc # "out"
  /\ owner' = [pc |-> "stop", stops |-> IF Executor THEN 1 ELSE Cardinality(pool.vcpus)]
  /\ UNCHANGED <<pool, rx, tx, done>>
StopPush ==
  /\ owner.pc = "stop" /\ owner.stops > 0 /\ Push(NoTask)
  /\ owner' = [owner EXCEPT !.pc = "notify"] /\ UNCHANGED <<rx, tx, done>>
StopNotify ==
  /\ owner.pc = "notify" /\ Notify
  /\ owner' = [pc |-> "stop", stops |-> owner.stops - 1] /\ UNCHANGED <<rx, tx, done>>

\* join the threads, and wait for the vCPUs that joined.
Freed ==
  /\ owner.pc = "stop" /\ owner.stops = 0 /\ pool.vcpus = {}
  /\ \A w \in Worker : rx[w].pc = "end"
  /\ owner' = [owner EXCEPT !.pc = "freed"] /\ UNCHANGED <<pool, rx, tx, done>>

Own == Construct \/ Destroy \/ StopPush \/ StopNotify \/ Freed

Next == \/ \E w \in Receiver : Work(w) \/ RunTask(w) \/ RecvTimeout(w)
        \/ \E k \in Task : Call(k)
        \/ Own

\* Threads run, and tasks end; nothing is said about the 100 ms.
Fairness == /\ \A w \in Receiver : SF_wvars(Work(w)) /\ WF_wvars(RunTask(w))
            /\ \A k \in Task : WF_wvars(EnqueueNotify(k))
            /\ SF_wvars(Own)
Spec == Init /\ [][Next]_wvars
FairSpec == Spec /\ Fairness

------------------------------------------------------------------------------
(* RingChannel: while a task is in the ring and a receiver sleeps, a signal *)
(* is there or about to come, or another receiver is about to look.        *)
NoSleepOverTask ==
  (pool.ring # <<>> /\ \E w \in Receiver : rx[w].pc = "asleep") =>
    \/ pool.sem > 0 \/ owner.pc = "notify" \/ \E k \in Task : tx[k].pc = "notify"
    \/ \E w \in Receiver : rx[w].pc \notin {"asleep", "out", "end"}

(* The destructor returns only after every task that was submitted has run *)
(* to its end, whichever worker took the empty tasks.                      *)
TasksRun == owner.pc = "freed" => \A k \in Task : tx[k].pc = "returned" => k \in done

(* The destructor returns, without the help of timeouts.                   *)
Stopping == owner.pc = "stop"
Stopped == owner.pc = "freed"
DestructorReturns == Stopping ~> Stopped
==============================================================================
