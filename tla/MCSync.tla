------------------------------- MODULE MCSync -------------------------------
(***************************************************************************)
(* Model checking of what threads synchronise with: mutexes, semaphores,   *)
(* read-write locks, thread_join(), timers, and the heap of sleepers; and  *)
(* of the pools of threads and the keys of their values.  A behaviour      *)
(* exercises one `part`; the variables of the other parts keep their       *)
(* initial values.  Mutex, Semaphore, RWLock and DisposableSemaphore share *)
(* the variables of the threads that use them: the ones of SleepWake,      *)
(* thread::lock (pin), splock and pc.  p1, p2, ... are the variables of    *)
(* WorkPool, ThreadPool or ThreadKey, in the order in which the module     *)
(* declares them, and else 0.                                              *)
(***************************************************************************)
EXTENDS RecursiveMutex

CONSTANTS
  MaxCount,                \* of the semaphore
  w, Ops,                  \* the waiter and the number of disposable semaphores
  Parent, N, Values,       \* of thread_join()
  User,                    \* of the timer
  Sleeper, Times,          \* of the heap
  Parts                    \* the parts that are exercised

VARIABLES
  part,
  m_count, qlock, semaphore_count, cnt, pos,
  state, mtx, rwlock_mark, hold,
  waiter, mark, wpc, cur, spc, deferred, ret,
  j_asleep, j_queue, j_error_number, j_pc, i, created, j_tpc, tstate, lock, field,
  result, joined, disposed,
  tpc, cancelled, waiting, repeating, th, timeout, upc,
  heap, sleeping,
  p1, p2, p3, p4, p5

Sem == INSTANCE Semaphore WITH OOO <- FALSE, Counts <- {1}
SemOOO == INSTANCE Semaphore WITH OOO <- TRUE, Counts <- {1, 2}
RWOne == INSTANCE RWLock WITH MultiVCPU <- FALSE
RWMany == INSTANCE RWLock WITH MultiVCPU <- TRUE
Disposable == INSTANCE DisposableSemaphore WITH Waiter <- w, Timed <- FALSE
DisposableTimed == INSTANCE DisposableSemaphore WITH Waiter <- w, Timed <- TRUE
Join == INSTANCE ThreadJoin WITH
  Thread <- {Parent}, Queue <- 1..N, MayFail <- TRUE, DtorBlocks <- TRUE,
  asleep <- j_asleep, queue <- j_queue, error_number <- j_error_number, pc <- j_pc,
  tpc <- j_tpc
Repeat == INSTANCE Timer WITH Repeating <- TRUE
OneShot == INSTANCE Timer WITH Repeating <- FALSE
Heap == INSTANCE SleepQueue WITH Thread <- Sleeper
Two == Thread \ {Parent}
Work == INSTANCE WorkPool WITH Worker <- Two, Joiner <- {Parent}, Task <- Two, RingSize <- 1, Mode <- 0,
  Executor <- FALSE, pool <- p1, rx <- p2, tx <- p3, done <- p4, owner <- p5
WorkDirect == INSTANCE WorkPool WITH Worker <- Two, Joiner <- {}, Task <- Thread, RingSize <- 2, Mode <- -1,
  Executor <- FALSE, pool <- p1, rx <- p2, tx <- p3, done <- p4, owner <- p5
Exec == INSTANCE WorkPool WITH Worker <- {Parent}, Joiner <- {}, Task <- Thread, RingSize <- 2, Mode <- 0,
  Executor <- TRUE, pool <- p1, rx <- p2, tx <- p3, done <- p4, owner <- p5
Threads == INSTANCE ThreadPool WITH Ctrl <- Two, User <- Thread, Capacity <- 1, Autoscale <- TRUE,
  ip <- p1, tc <- p2, us <- p3, sc <- p4, del <- p5
Keys == INSTANCE ThreadKey WITH Thread <- {Parent}, FirstLevel <- 3, SecondLevel <- 3, Iterations <- 2,
  Used <- {0, 7}, MaxTimes <- 2, MaxValue <- 3, Null <- None, keys <- p1, tls <- p2, th <- p3, value <- p4

s_vars == <<m_count, qlock, semaphore_count, cnt, pos>>
rw_vars == <<state, mtx, rwlock_mark, hold>>
d_vars == <<waiter, mark, wpc, cur, spc, deferred, ret>>
j_vars == <<j_asleep, j_queue, j_error_number, j_pc, i, created, j_tpc, tstate, lock,
            field, result, joined, disposed>>
tm_vars == <<tpc, cancelled, waiting, repeating, th, timeout, upc>>
h_vars == <<heap, sleeping>>
p_vars == <<p1, p2, p3, p4, p5>>
allVars == <<rvars, s_vars, rw_vars, d_vars, j_vars, tm_vars, h_vars, p_vars, part>>

MCInit ==
  /\ part \in Parts
  /\ RInit /\ Sem!Init /\ RWOne!Init /\ Disposable!Init /\ Join!Init /\ Heap!Init
  /\ IF part = "oneshot" THEN OneShot!Init ELSE Repeat!Init
  /\ CASE part = "work" -> Work!Init
       [] part = "work_direct" -> WorkDirect!Init
       [] part = "executor" -> Exec!Init
       [] part = "threads" -> Threads!Init
       [] part = "keys" -> Keys!Init /\ p5 = 0
       [] OTHER -> p1 = 0 /\ p2 = 0 /\ p3 = 0 /\ p4 = 0 /\ p5 = 0

\* What the parts leave alone
mutexRest == <<owner, re, recursive_count, depth>>
notMutex == <<s_vars, rw_vars, d_vars, j_vars, tm_vars, h_vars, p_vars, part>>
notSem == <<mutexRest, rw_vars, d_vars, j_vars, tm_vars, h_vars, p_vars, part>>
notRW == <<splock, pin, mutexRest, s_vars, d_vars, j_vars, tm_vars, h_vars, p_vars, part>>
notDisposable == <<splock, pin, pc, mutexRest, s_vars, rw_vars, j_vars, tm_vars, h_vars, p_vars, part>>
notJoin == <<rvars, s_vars, rw_vars, d_vars, tm_vars, h_vars, p_vars, part>>
notTimer == <<rvars, s_vars, rw_vars, d_vars, j_vars, h_vars, p_vars, part>>
notHeap == <<rvars, s_vars, rw_vars, d_vars, j_vars, tm_vars, p_vars, part>>
notPool == <<rvars, s_vars, rw_vars, d_vars, j_vars, tm_vars, h_vars, part>>

MCNext ==
  \/ part = "mutex" /\ Next /\ UNCHANGED <<recursive_count, depth, notMutex>>
  \/ part = "recursive" /\ RNext /\ UNCHANGED notMutex
  \/ part = "semaphore" /\ Sem!Next /\ UNCHANGED notSem
  \/ part = "out_of_order" /\ SemOOO!Next /\ UNCHANGED notSem
  \/ part = "rwlock" /\ RWOne!Next /\ UNCHANGED notRW
  \/ part = "rwlock_shared" /\ RWMany!Next /\ UNCHANGED notRW
  \/ part = "disposable" /\ Disposable!Next /\ UNCHANGED notDisposable
  \/ part = "disposable_timed" /\ DisposableTimed!Next /\ UNCHANGED notDisposable
  \/ part = "join" /\ Join!Next /\ UNCHANGED notJoin
  \/ part = "timer" /\ Repeat!Next /\ UNCHANGED notTimer
  \/ part = "oneshot" /\ OneShot!Next /\ UNCHANGED notTimer
  \/ part = "heap" /\ Heap!Next /\ UNCHANGED notHeap
  \/ part = "work" /\ Work!Next /\ UNCHANGED notPool
  \/ part = "work_direct" /\ WorkDirect!Next /\ UNCHANGED notPool
  \/ part = "executor" /\ Exec!Next /\ UNCHANGED notPool
  \/ part = "threads" /\ Threads!Next /\ UNCHANGED notPool
  \/ part = "keys" /\ Keys!Next /\ UNCHANGED <<notPool, p5>>

MCSpec == MCInit /\ [][MCNext]_allVars

------------------------------------------------------------------------------
(* Semaphore: when nothing is in motion, the first waiter lacks the count. *)
HeadLacksCount == part = "semaphore" => Sem!TypeOK /\ Sem!HeadLacksCount

(* RWLock: a writer is alone, and `state` counts the holders.              *)
ReadersXorWriter == part \in {"rwlock", "rwlock_shared"} => RWMany!TypeOK /\ RWMany!ReadersXorWriter

(* DisposableSemaphore: a wait() that succeeds has been signalled, and     *)
(* nobody touches the semaphore after it.                                  *)
SuccessMeansSignalled == part = "disposable" => Disposable!SuccessMeansSignalled

(* ThreadJoin: a stack is freed when nothing runs on it any more.  Timer:  *)
(* its thread does not outlive it.                                         *)
FreedAfterUse == Join!FreedAfterUse /\ Repeat!NoUseAfterDtor

(* SleepQueue: the heap holds the sleepers, each knows its index, and the  *)
(* front is the one that wakes first.                                      *)
SleepersInOrder == Heap!IndexAgrees /\ Heap!FrontIsEarliest

(* WorkPool: no receiver sleeps over a task without a signal to come, and  *)
(* the destructor returns only after every task that was submitted has run.*)
NoSleepOverTask ==
  /\ part = "work" => Work!NoSleepOverTask /\ Work!TasksRun
  /\ part = "work_direct" => WorkDirect!NoSleepOverTask /\ WorkDirect!TasksRun
  /\ part = "executor" => Exec!NoSleepOverTask /\ Exec!TasksRun

(* ThreadPool: a thread in the pool is there once, idle, and nobody's.     *)
(* ThreadKey: what it had set under the keys was destroyed, once, by the   *)
(* key's own destructor, and a key created anew shows nothing of it.       *)
PooledIdle ==
  /\ part = "threads" => Threads!PooledIdle
  /\ part = "keys" => Keys!ValuesOfKey /\ Keys!ValuesDestroyed
==============================================================================
