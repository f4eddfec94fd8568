------------------------------ MODULE Scheduler ------------------------------
(***************************************************************************)
(* The scheduler core of photon (thread/thread.cpp): vCPUs, their run      *)
(* queues, sleep queues and standby queues, the wait queues threads sleep  *)
(* in, thread_yield/yield_to, prepare_usleep, thread_interrupt,            *)
(* waitq::resume_one, thread_migrate, thread_create/die, resume_threads    *)
(* and the idle worker with its default event engine.                      *)
(*                                                                         *)
(* A vCPU is an OS thread.  It runs its CURRENT photon thread, the head of *)
(* runq[v], and nothing preempts that thread; what interleaves is the code *)
(* of different vCPUs, and of OS threads that are no vCPU.  pc[a] is the   *)
(* point actor a has reached inside the scheduler ("run": in the code of   *)
(* CURRENT), and a step of an actor is the code between two accesses to    *)
(* data that other actors use.  The asymmetric run-queue lock is taken as  *)
(* correct here (see AsymSpinlock), so an AtomicRunQ operation is atomic.  *)
(*                                                                         *)
(* Time is abstract: a sleep is `timed` or endless, and any timed sleeper  *)
(* may be the one at the front of the sleep queue that has expired.        *)
(***************************************************************************)
EXTENDS Integers, Sequences, FiniteSets, Functions

CONSTANTS VCPU,     \* vCPUs; v also names the idle_worker of vCPU v
          OS,       \* OS threads that run no vCPU but call into photon
          Worker,   \* the other photon threads
          Main,     \* Main[v]: the thread that called vcpu_init() on v
          Queue,    \* wait queues (waitq of mutexes, semaphores, ...)
          Programs, \* sets of calls: a program makes those of one of them
          None

Calls == {"yield", "yield_to", "usleep", "wait", "interrupt", "resume", "shutdown",
          "resume_one", "migrate", "create", "exit",
          "os"}     \* OS threads call, too

Thread == Worker \cup VCPU
Actor == VCPU \cup OS

ASSUME SchedulerAssumption ==
  /\ VCPU \cap Worker = {} /\ VCPU \cap OS = {} /\ OS \cap Worker = {}
  /\ None \notin Thread \cup Actor \cup Queue
  /\ Main \in [VCPU -> Worker]
  /\ \A v, w \in VCPU : Main[v] = Main[w] => v = w
  /\ Programs \subseteq SUBSET Calls
  /\ IsFiniteSet(VCPU) /\ IsFiniteSet(Worker)

RESUMED == -1       \* error_number of a thread resumed by its wait queue
EINTR == 4          \* the default error_number of thread_interrupt()
EPERM == 1          \* the error_number of thread_shutdown()
Errno == {RESUMED, 0, EPERM, EINTR}

VARIABLES
  \* fields of struct thread
  state, vcpu, error_number, lock, waitq,
  timed,            \* ts_wakeup is a finite time
  shutting_down,
  call,             \* the call the thread is blocked in: "none", "usleep", "yield"
  \* fields of struct vcpu_t
  runq,             \* the circular list of runnable threads, from CURRENT on
  sleepq, standbyq, nthreads,
  notify,           \* NullEventEngine::notify
  \* wait queues: the list and its spin lock
  wq, wlock,
  \* locals of the code an actor executes
  pc, tgt, arg,
  list,             \* the local `list` of resume_threads()
  ops               \* the calls this program makes: one of Programs

threadVars == <<state, vcpu, error_number, lock, waitq, timed, shutting_down, call>>
vcpuVars == <<runq, sleepq, standbyq, nthreads, notify>>
waitVars == <<wq, wlock>>
localVars == <<pc, tgt, arg, list>>
vars == <<threadVars, vcpuVars, waitVars, localVars, ops>>

PCs == {"run", "clear", "sleep", "read", "out", "lock", "do", "push", "cancel",
        "head", "pin", "move", "eject", "ready", "expire", "dequeue", "yield",
        "wait", "block", "wake"}
States == {"NEW", "READY", "RUNNING", "SLEEPING", "STANDBY", "DONE"}

Current(v) == Head(runq[v])
\* CURRENT of v is a worker that may make the call op.
Running(v, op) ==
  /\ op \in ops
  /\ pc[v] = "run"
  /\ Current(v) \in Worker
  /\ call[Current(v)] = "none"
\* Actor a may make the call op: OS threads may call the ones that do not block.
Calling(a, op) ==
  \/ a \in OS /\ {op, "os"} \subseteq ops /\ pc[a] = "run"
  \/ a \in VCPU /\ Running(a, op)

Alive(t) == state[t] \notin {"NEW", "DONE"}
Init ==
  /\ state = [t \in Thread |-> IF t \in VCPU THEN "READY"
                               ELSE IF \E v \in VCPU : t = Main[v] THEN "RUNNING"
                               ELSE "NEW"]
  /\ vcpu = [t \in Thread |-> IF t \in VCPU THEN t
                              ELSE IF \E v \in VCPU : t = Main[v]
                                   THEN CHOOSE v \in VCPU : t = Main[v]
                                   ELSE None]
  /\ error_number = [t \in Thread |-> 0]
  /\ lock = [t \in Thread |-> None]
  /\ waitq = [t \in Thread |-> None]
  /\ timed = [t \in Thread |-> FALSE]
  /\ shutting_down = [t \in Thread |-> FALSE]
  /\ call = [t \in Thread |-> "none"]
  /\ runq = [v \in VCPU |-> <<Main[v], v>>]
  /\ sleepq = [v \in VCPU |-> {}]
  /\ standbyq = [v \in VCPU |-> <<>>]
  /\ nthreads = [v \in VCPU |-> 2]
  /\ notify = [v \in VCPU |-> FALSE]
  /\ wq = [q \in Queue |-> <<>>]
  /\ wlock = [q \in Queue |-> None]
  /\ pc = [a \in Actor |-> "run"]
  /\ tgt = [a \in Actor |-> None]
  /\ arg = [a \in Actor |-> 0]
  /\ list = [v \in VCPU |-> <<>>]
  /\ ops \in Programs

\* t is taken out of the intrusive list s, if it is there.
Erase(s, t) ==
  LET k == CHOOSE i \in DOMAIN s : s[i] = t
  IN IF \E i \in DOMAIN s : s[i] = t THEN SubSeq(s, 1, k - 1) \o SubSeq(s, k + 1, Len(s))
                                     ELSE s

Goto(a, l) == pc' = [pc EXCEPT ![a] = l]
\* The call of actor a returns; its locals are dead.
Return(a) == /\ Goto(a, "run")
             /\ tgt' = [tgt EXCEPT ![a] = None]
             /\ arg' = [arg EXCEPT ![a] = 0]

------------------------------------------------------------------------------
(* Switching *)

\* CURRENT of v stays runnable and the next thread of the run queue runs.
GotoNext(v) ==
  /\ runq' = [runq EXCEPT ![v] = Append(Tail(@), Head(@))]
  /\ state' = [state EXCEPT ![Current(v)] = "READY", ![runq[v][2]] = "RUNNING"]

\* CURRENT of v leaves the run queue and the next thread of it runs.
RemoveCurrent(v, newState) ==
  /\ runq' = [runq EXCEPT ![v] = Tail(@)]
  /\ state' = [state EXCEPT ![Current(v)] = newState, ![runq[v][2]] = "RUNNING"]

(* thread_yield(), also for a sleep that has expired already *)
Yield(v) ==
  /\ Running(v, "yield")
  /\ error_number' = [error_number EXCEPT ![Current(v)] = 0]
  /\ GotoNext(v)
  /\ UNCHANGED <<vcpu, lock, waitq, timed, shutting_down, call, sleepq, standbyq,
                 nthreads, notify, waitVars, localVars, ops>>

\* AtomicRunQ::try_goto: th is moved behind CURRENT and runs.
TryGoto(v, th) ==
  /\ runq' = [runq EXCEPT ![v] = <<th>> \o Append(Erase(Tail(@), th), Head(@))]
  /\ state' = [state EXCEPT ![Current(v)] = "READY", ![th] = "RUNNING"]

(* thread_yield_to() of a READY thread of this vCPU.  error_number is      *)
(* cleared before the switch if th is the next thread, after it otherwise. *)
YieldTo(v, th) ==
  /\ Running(v, "yield_to")
  /\ th # Current(v) /\ vcpu[th] = v /\ state[th] = "READY"
  /\ TryGoto(v, th)
  /\ IF th = runq[v][2]
     THEN /\ error_number' = [error_number EXCEPT ![Current(v)] = 0]
          /\ UNCHANGED <<pc, tgt, arg>>
     ELSE /\ Goto(v, "clear")
          /\ tgt' = [tgt EXCEPT ![v] = Current(v)]
          /\ UNCHANGED <<error_number, arg>>
  /\ UNCHANGED <<vcpu, lock, waitq, timed, shutting_down, call, sleepq, standbyq,
                 nthreads, notify, waitVars, list, ops>>

(* thread_yield_to() of a thread that other vCPUs are waking up: resume    *)
(* threads until it is READY (the loop continues in ResumeInsert).         *)
YieldToStandby(v, th) ==
  /\ Running(v, "yield_to")
  /\ th # Current(v) /\ vcpu[th] = v /\ state[th] = "STANDBY"
  /\ Goto(v, "eject")
  /\ arg' = [arg EXCEPT ![v] = th]
  /\ UNCHANGED <<threadVars, vcpuVars, waitVars, tgt, list, ops>>

(* the late rq.current->error_number = 0 of thread_yield_to() *)
YieldToClear(v) ==
  /\ pc[v] = "clear"
  /\ error_number' = [error_number EXCEPT ![tgt[v]] = 0]
  /\ Return(v)
  /\ UNCHANGED <<state, vcpu, lock, waitq, timed, shutting_down, call, vcpuVars,
                 waitVars, list, ops>>

------------------------------------------------------------------------------
(* Sleeping *)

(* thread_usleep() without a wait queue.  A thread that is shutting down   *)
(* sleeps 10ms at most.                                                    *)
Usleep(v, finite) ==
  /\ Running(v, "usleep")
  /\ timed' = [timed EXCEPT ![Current(v)] = finite \/ shutting_down[Current(v)]]
  /\ Goto(v, "sleep")
  /\ UNCHANGED <<state, vcpu, error_number, lock, waitq, shutting_down, call,
                 vcpuVars, waitVars, tgt, arg, list, ops>>

(* thread_usleep(timeout, waitq): prepare_usleep() takes the lock of the   *)
(* wait queue first ...                                                    *)
Wait(v, q, finite) ==
  /\ Running(v, "wait")
  /\ wlock[q] = None
  /\ wlock' = [wlock EXCEPT ![q] = v]
  /\ timed' = [timed EXCEPT ![Current(v)] = finite]
  /\ Goto(v, "sleep")
  /\ UNCHANGED <<state, vcpu, error_number, lock, waitq, shutting_down, call,
                 vcpuVars, wq, tgt, arg, list, ops>>

(* ... and then the lock of CURRENT, which leaves the run queue, enters    *)
(* the wait queue and the sleep queue, and is switched out.                *)
PrepareUsleep(v) ==
  LET c == Current(v)
      held == {q \in Queue : wlock[q] = v}
  IN /\ pc[v] = "sleep"
     /\ lock[c] = None
     /\ RemoveCurrent(v, "SLEEPING")
     /\ waitq' = [waitq EXCEPT ![c] = IF held = {} THEN None ELSE CHOOSE q \in held : TRUE]
     /\ wq' = [q \in Queue |-> IF q \in held THEN Append(wq[q], c) ELSE wq[q]]
     /\ wlock' = [q \in Queue |-> IF q \in held THEN None ELSE wlock[q]]
     /\ sleepq' = [sleepq EXCEPT ![v] = @ \cup {c}]
     /\ call' = [call EXCEPT ![c] = "usleep"]
     /\ Goto(v, "run")
     /\ UNCHANGED <<vcpu, error_number, lock, timed, shutting_down, standbyq,
                    nthreads, notify, tgt, arg, list, ops>>

(* The sleeper runs again: set_error_number(), and its sleep returns       *)
(* (ts_wakeup has no meaning until the next sleep).                        *)
UsleepReturn(v) ==
  LET c == Current(v)
  IN /\ pc[v] = "run"
     /\ call[c] = "usleep"
     /\ call' = [call EXCEPT ![c] = "none"]
     /\ error_number' = [error_number EXCEPT ![c] = 0]
     /\ timed' = [timed EXCEPT ![c] = FALSE]
     /\ UNCHANGED <<state, vcpu, lock, waitq, shutting_down, vcpuVars,
                    waitVars, localVars, ops>>

------------------------------------------------------------------------------
(* Waking a thread up, from the same or from another vCPU *)

\* thread_interrupt() after it has read th->state.
InterruptBranch(a, th, e, locked) ==
  CASE state[th] = "SLEEPING" -> /\ Goto(a, IF locked THEN "do" ELSE "lock")
                                 /\ tgt' = [tgt EXCEPT ![a] = th]
                                 /\ arg' = [arg EXCEPT ![a] = e]
                                 /\ lock' = [lock EXCEPT ![th] = IF locked THEN a ELSE @]
    [] state[th] = "READY"    -> /\ Goto(a, "out")
                                 /\ tgt' = [tgt EXCEPT ![a] = th]
                                 /\ arg' = [arg EXCEPT ![a] = e]
                                 /\ lock' = [lock EXCEPT ![th] = IF locked THEN a ELSE @]
    [] OTHER                  -> /\ Return(a)
                                 /\ UNCHANGED lock

(* thread_interrupt(th), and thread_resume(th), which interrupts with 0:   *)
(* the unlocked check of th->state                                         *)
Interrupt(a, th, e) ==
  /\ Calling(a, IF e = 0 THEN "resume" ELSE "interrupt")
  /\ state[th] # "NEW"
  /\ a \in VCPU => th # Current(a)
  /\ InterruptBranch(a, th, e, FALSE)
  /\ UNCHANGED <<state, vcpu, error_number, waitq, timed, shutting_down, call,
                 vcpuVars, waitVars, list, ops>>

(* thread_shutdown(): set the flag, and interrupt th if it is sleeping *)
Shutdown(a, th) ==
  /\ Calling(a, "shutdown")
  /\ state[th] # "NEW"
  /\ shutting_down' = [shutting_down EXCEPT ![th] = TRUE]
  /\ IF state[th] = "SLEEPING"
     THEN /\ Goto(a, "read")
          /\ tgt' = [tgt EXCEPT ![a] = th]
          /\ arg' = [arg EXCEPT ![a] = EPERM]
     ELSE UNCHANGED <<pc, tgt, arg>>
  /\ UNCHANGED <<state, vcpu, error_number, lock, waitq, timed, call, vcpuVars,
                 waitVars, list, ops>>

ShutdownInterrupt(a) ==
  /\ pc[a] = "read"
  /\ InterruptBranch(a, tgt[a], arg[a], FALSE)
  /\ UNCHANGED <<state, vcpu, error_number, waitq, timed, shutting_down, call,
                 vcpuVars, waitVars, list, ops>>
\* fault: the state is not read again after th->lock has been taken
InterruptLockUnchecked(a) ==
  /\ pc[a] = "lock"
  /\ lock[tgt[a]] = None
  /\ lock' = [lock EXCEPT ![tgt[a]] = a]
  /\ Goto(a, "do")
  /\ UNCHANGED <<state, vcpu, error_number, waitq, timed, shutting_down, call,
                 vcpuVars, waitVars, tgt, arg, list, ops>>

(* thread_interrupt(): take th->lock and check th->state again *)
InterruptLock(a) ==
  /\ pc[a] = "lock"
  /\ lock[tgt[a]] = None
  /\ InterruptBranch(a, tgt[a], arg[a], TRUE)
  /\ UNCHANGED <<state, vcpu, error_number, waitq, timed, shutting_down, call,
                 vcpuVars, waitVars, list, ops>>

Unlock(a, th) == lock' = [lock EXCEPT ![th] = IF @ = a THEN None ELSE @]
\* fault: an error_number that is set already is overwritten
InterruptOutOverwrites(a) ==
  LET th == tgt[a]
  IN /\ pc[a] = "out"
     /\ error_number' = [error_number EXCEPT ![th] = arg[a]]
     /\ Unlock(a, th)
     /\ Return(a)
     /\ UNCHANGED <<state, vcpu, waitq, timed, shutting_down, call, vcpuVars,
                    waitVars, list, ops>>

(* thread_interrupt(), label out: th was READY, "may have thread_yield()-ed" *)
InterruptOut(a) ==
  LET th == tgt[a]
  IN /\ pc[a] = "out"
     /\ error_number' = [error_number EXCEPT ![th] = IF @ = 0 THEN arg[a] ELSE @]
     /\ Unlock(a, th)
     /\ Return(a)
     /\ UNCHANGED <<state, vcpu, waitq, timed, shutting_down, call, vcpuVars,
                    waitVars, list, ops>>
\* fault: the thread is not erased from its wait queue
DequeueReadyUnerased(th, newState) ==
  /\ waitq[th] # None => wlock[waitq[th]] = None
  /\ waitq' = [waitq EXCEPT ![th] = None]
  /\ state' = [state EXCEPT ![th] = newState]
  /\ UNCHANGED wq

\* dequeue_ready_atomic(): the lock of the wait queue is held for a moment.
DequeueReady(th, newState) ==
  /\ waitq[th] # None => wlock[waitq[th]] = None
  /\ wq' = [q \in Queue |-> IF q = waitq[th] THEN Erase(wq[q], th) ELSE wq[q]]
  /\ waitq' = [waitq EXCEPT ![th] = None]
  /\ state' = [state EXCEPT ![th] = newState]

(* prelocked_thread_interrupt() of a thread of this vCPU *)
InterruptLocal(a) ==
  LET th == tgt[a]
  IN /\ pc[a] = "do"
     /\ vcpu[th] = a
     /\ error_number' = [error_number EXCEPT ![th] = arg[a]]
     /\ DequeueReady(th, "READY")
     /\ sleepq' = [sleepq EXCEPT ![a] = @ \ {th}]
     /\ runq' = [runq EXCEPT ![a] = Append(@, th)]
     /\ Unlock(a, th)
     /\ Return(a)
     /\ UNCHANGED <<vcpu, timed, shutting_down, call, standbyq, nthreads,
                    notify, wlock, list, ops>>

(* prelocked_thread_interrupt() of a thread of another vCPU: it leaves the *)
(* wait queue, but stays in the sleep queue of its vCPU ...                *)
InterruptRemote(a) ==
  LET th == tgt[a]
  IN /\ pc[a] = "do"
     /\ vcpu[th] # a
     /\ error_number' = [error_number EXCEPT ![th] = arg[a]]
     /\ DequeueReady(th, "STANDBY")
     /\ Goto(a, "push")
     /\ UNCHANGED <<vcpu, lock, timed, shutting_down, call, vcpuVars, wlock,
                    tgt, arg, list, ops>>

(* ... is moved to the standby queue of its vCPU ...                       *)
MoveToStandbyq(a) ==
  /\ pc[a] = "push"
  /\ standbyq' = [standbyq EXCEPT ![vcpu[tgt[a]]] = Append(@, tgt[a])]
  /\ Goto(a, "cancel")
  /\ arg' = [arg EXCEPT ![a] = vcpu[tgt[a]]]
  /\ UNCHANGED <<threadVars, runq, sleepq, nthreads, notify, waitVars, tgt, list, ops>>
\* fault: the condition variable is notified, but no flag remembers it
CancelWaitUnheard(a) ==
  /\ pc[a] = "cancel"
  /\ notify' = [notify EXCEPT ![arg[a]] = @ \/ pc[arg[a]] = "block"]
  /\ Unlock(a, tgt[a])
  /\ Return(a)
  /\ UNCHANGED <<state, vcpu, error_number, waitq, timed, shutting_down, call,
                 runq, sleepq, standbyq, nthreads, waitVars, list, ops>>

\* fault: th->lock is not released after the move to the standby queue
CancelWaitLocked(a) ==
  /\ pc[a] = "cancel"
  /\ notify' = [notify EXCEPT ![arg[a]] = TRUE]
  /\ Return(a)
  /\ UNCHANGED <<threadVars, runq, sleepq, standbyq, nthreads, waitVars, list, ops>>

(* ... whose event engine is told to stop waiting.                         *)
CancelWait(a) ==
  /\ pc[a] = "cancel"
  /\ notify' = [notify EXCEPT ![arg[a]] = TRUE]
  /\ Unlock(a, tgt[a])
  /\ Return(a)
  /\ UNCHANGED <<state, vcpu, error_number, waitq, timed, shutting_down, call,
                 runq, sleepq, standbyq, nthreads, waitVars, list, ops>>

\* indirect_lock() reads the head of the wait queue.
ReadHead(a, q) ==
  IF wq[q] = <<>>
  THEN Return(a)
  ELSE /\ Goto(a, "pin")
       /\ tgt' = [tgt EXCEPT ![a] = Head(wq[q])]
       /\ arg' = [arg EXCEPT ![a] = q]

(* waitq::resume_one(): lock the head of the queue ...                     *)
ResumeOne(a, q) ==
  /\ Calling(a, "resume_one")
  /\ ReadHead(a, q)
  /\ UNCHANGED <<threadVars, vcpuVars, waitVars, list, ops>>

(* ... read it again after it turned out to have changed.                  *)
ResumeAgain(a) ==
  /\ pc[a] = "head"
  /\ ReadHead(a, arg[a])
  /\ UNCHANGED <<threadVars, vcpuVars, waitVars, list, ops>>
\* fault: the head of the queue is not read again under th->lock
ResumeLockUnchecked(a) ==
  LET th == tgt[a]
  IN /\ pc[a] = "pin"
     /\ lock[th] = None
     /\ lock' = [lock EXCEPT ![th] = a]
     /\ arg' = [arg EXCEPT ![a] = RESUMED]
     /\ Goto(a, "do")
     /\ UNCHANGED <<state, vcpu, error_number, waitq, timed, shutting_down, call,
                    vcpuVars, waitVars, tgt, list, ops>>

(* Once locked, it is resumed if it still is the head of the queue.        *)
ResumeLock(a) ==
  LET th == tgt[a]
      q  == arg[a]
  IN /\ pc[a] = "pin"
     /\ lock[th] = None
     /\ IF wq[q] # <<>> /\ Head(wq[q]) = th
        THEN /\ lock' = [lock EXCEPT ![th] = a]
             /\ arg' = [arg EXCEPT ![a] = RESUMED]
             /\ Goto(a, "do")
        ELSE /\ Goto(a, "head")
             /\ UNCHANGED <<lock, arg>>
     /\ UNCHANGED <<state, vcpu, error_number, waitq, timed, shutting_down, call,
                    vcpuVars, waitVars, tgt, list, ops>>

------------------------------------------------------------------------------
(* Migration, creation and exit *)

\* do_thread_migrate(): th leaves the run queue of v and belongs to w.
DoThreadMigrate(v, th, w) ==
  /\ nthreads' = [nthreads EXCEPT ![v] = @ - 1, ![w] = @ + 1]
  /\ vcpu' = [vcpu EXCEPT ![th] = w]
  /\ Goto(v, "push")
  /\ tgt' = [tgt EXCEPT ![v] = th]

(* thread_migrate() of another thread, which must be READY on this vCPU *)
Migrate(v, th, w) ==
  /\ Running(v, "migrate")
  /\ w # v /\ th # Current(v) /\ vcpu[th] = v /\ state[th] = "READY"
  /\ runq' = [runq EXCEPT ![v] = Erase(@, th)]
  /\ state' = [state EXCEPT ![th] = "STANDBY"]
  /\ DoThreadMigrate(v, th, w)
  /\ UNCHANGED <<error_number, lock, waitq, timed, shutting_down, call, sleepq,
                 standbyq, notify, waitVars, arg, list, ops>>

(* thread_migrate() of CURRENT: switch to the next thread ...              *)
MigrateCurrent(v, w) ==
  /\ Running(v, "migrate")
  /\ w # v
  /\ GotoNext(v)
  /\ Goto(v, "move")
  /\ tgt' = [tgt EXCEPT ![v] = Current(v)]
  /\ arg' = [arg EXCEPT ![v] = w]
  /\ UNCHANGED <<vcpu, error_number, lock, waitq, timed, shutting_down, call,
                 sleepq, standbyq, nthreads, notify, waitVars, list, ops>>

\* fault: the thread that migrates stays in the run queue it leaves
MigrateDeferredUnremoved(v) ==
  /\ pc[v] = "move"
  /\ state' = [state EXCEPT ![tgt[v]] = "STANDBY"]
  /\ DoThreadMigrate(v, tgt[v], arg[v])
  /\ UNCHANGED <<error_number, lock, waitq, timed, shutting_down, call, runq, sleepq,
                 standbyq, notify, waitVars, arg, list, ops>>

(* ... on whose stack the deferred do_thread_migrate() moves it.           *)
MigrateDeferred(v) ==
  /\ pc[v] = "move"
  /\ runq' = [runq EXCEPT ![v] = Erase(@, tgt[v])]
  /\ state' = [state EXCEPT ![tgt[v]] = "STANDBY"]
  /\ DoThreadMigrate(v, tgt[v], arg[v])
  /\ UNCHANGED <<error_number, lock, waitq, timed, shutting_down, call, sleepq,
                 standbyq, notify, waitVars, arg, list, ops>>

(* thread_create() *)
Create(v, th) ==
  /\ Running(v, "create")
  /\ state[th] = "NEW"
  /\ state' = [state EXCEPT ![th] = "READY"]
  /\ vcpu' = [vcpu EXCEPT ![th] = v]
  /\ nthreads' = [nthreads EXCEPT ![v] = @ + 1]
  /\ runq' = [runq EXCEPT ![v] = Append(@, th)]
  /\ UNCHANGED <<error_number, lock, waitq, timed, shutting_down, call, sleepq,
                 standbyq, notify, waitVars, localVars, ops>>

(* thread::die(): th->lock is held from here to the deferred unlock, which *)
(* runs on the next thread's stack.  The main thread never dies.           *)
Die(v) ==
  LET c == Current(v)
  IN /\ Running(v, "exit")
     /\ \A w \in VCPU : c # Main[w]
     /\ lock[c] = None
     /\ nthreads' = [nthreads EXCEPT ![v] = @ - 1]
     /\ RemoveCurrent(v, "DONE")
     /\ UNCHANGED <<vcpu, error_number, lock, waitq, timed, shutting_down, call,
                    sleepq, standbyq, notify, waitVars, localVars, ops>>

------------------------------------------------------------------------------
(* resume_threads(), called by the idle worker and by thread_yield_to() *)

\* The idle worker of v is CURRENT and between two steps of its loop.
Idling(v) == pc[v] = "run" /\ Current(v) = v
\* fault: nothing was ejected, so the sleep queue is not looked at
ResumeEjectOnly(v) ==
  /\ pc[v] = "eject" \/ Idling(v)
  /\ list' = [list EXCEPT ![v] = standbyq[v]]
  /\ standbyq' = [standbyq EXCEPT ![v] = <<>>]
  /\ call' = [call EXCEPT ![v] = IF Idling(v) THEN "none" ELSE @]
  /\ Goto(v, IF standbyq[v] # <<>> THEN "ready" ELSE IF Len(runq[v]) > 1 THEN "yield" ELSE "wait")
  /\ UNCHANGED <<state, vcpu, error_number, lock, waitq, timed, shutting_down,
                 runq, sleepq, nthreads, notify, waitVars, tgt, arg, ops>>

(* Eject the whole standby queue at once.                                  *)
ResumeEject(v) ==
  /\ pc[v] = "eject" \/ Idling(v)
  /\ list' = [list EXCEPT ![v] = standbyq[v]]
  /\ standbyq' = [standbyq EXCEPT ![v] = <<>>]
  /\ call' = [call EXCEPT ![v] = IF Idling(v) THEN "none" ELSE @]
  /\ Goto(v, IF standbyq[v] = <<>> THEN "expire" ELSE "ready")
  /\ UNCHANGED <<state, vcpu, error_number, lock, waitq, timed, shutting_down,
                 runq, sleepq, nthreads, notify, waitVars, tgt, arg, ops>>

(* The ejected threads become READY and leave the sleep queue.             *)
ResumeReady(v) ==
  /\ pc[v] = "ready"
  /\ state' = [t \in Thread |-> IF t \in Range(list[v]) THEN "READY" ELSE state[t]]
  /\ sleepq' = [sleepq EXCEPT ![v] = @ \ Range(list[v])]
  /\ Goto(v, "expire")
  /\ UNCHANGED <<vcpu, error_number, lock, waitq, timed, shutting_down, call, runq,
                 standbyq, nthreads, notify, waitVars, tgt, arg, list, ops>>

(* The front of the sleep queue has expired: lock it and pop it ...        *)
ExpireLock(v, th) ==
  /\ pc[v] = "expire"
  /\ th \in sleepq[v] /\ timed[th]
  /\ lock[th] = None
  /\ lock' = [lock EXCEPT ![th] = v]
  /\ sleepq' = [sleepq EXCEPT ![v] = @ \ {th}]
  /\ Goto(v, "dequeue")
  /\ tgt' = [tgt EXCEPT ![v] = th]
  /\ UNCHANGED <<state, vcpu, error_number, waitq, timed, shutting_down, call,
                 runq, standbyq, nthreads, notify, waitVars, arg, list, ops>>

(* ... and make it READY, unless another vCPU has just interrupted it.     *)
ExpireDequeue(v) ==
  LET th == tgt[v]
  IN /\ pc[v] = "dequeue"
     /\ IF state[th] = "SLEEPING"
        THEN /\ DequeueReady(th, "READY")
             /\ list' = [list EXCEPT ![v] = Append(@, th)]
        ELSE UNCHANGED <<wq, waitq, state, list>>
     /\ Unlock(v, th)
     /\ Goto(v, "expire")
     /\ tgt' = [tgt EXCEPT ![v] = None]
     /\ UNCHANGED <<vcpu, error_number, timed, shutting_down, call, vcpuVars,
                    wlock, arg, ops>>

(* Nobody else has expired: the resumed threads enter the run queue.  Then *)
(* the idle worker yields if it is not alone, and waits for events if it   *)
(* is; thread_yield_to() goes to its target, or resumes again if the       *)
(* target still is on its way to the standby queue.                        *)
ResumeInsert(v) ==
  LET th == arg[v]
      q  == runq[v] \o list[v]
  IN /\ pc[v] = "expire"
     /\ list' = [list EXCEPT ![v] = <<>>]
     /\ \/ /\ Current(v) = v
           /\ runq' = [runq EXCEPT ![v] = q]
           /\ Goto(v, IF Len(q) > 1 THEN "yield" ELSE "wait")
           /\ UNCHANGED <<state, tgt, arg>>
        \/ /\ Current(v) # v
           /\ state[th] = "STANDBY"
           /\ runq' = [runq EXCEPT ![v] = q]
           /\ Goto(v, "eject")
           /\ UNCHANGED <<state, tgt, arg>>
        \/ /\ Current(v) # v
           /\ state[th] = "READY"
           /\ runq' = [runq EXCEPT ![v] = <<th>> \o Append(Erase(Tail(q), th), Head(q))]
           /\ state' = [state EXCEPT ![Current(v)] = "READY", ![th] = "RUNNING"]
           /\ Goto(v, "clear")
           /\ tgt' = [tgt EXCEPT ![v] = Current(v)]
           /\ arg' = [arg EXCEPT ![v] = 0]
     /\ UNCHANGED <<vcpu, error_number, lock, waitq, timed, shutting_down, call,
                    sleepq, standbyq, nthreads, notify, waitVars, ops>>

------------------------------------------------------------------------------
(* The idle worker and NullEventEngine::wait_and_fire_events() *)

IdleYield(v) ==
  /\ pc[v] = "yield"
  /\ error_number' = [error_number EXCEPT ![v] = 0]
  /\ call' = [call EXCEPT ![v] = "yield"]
  /\ GotoNext(v)
  /\ Goto(v, "run")
  /\ UNCHANGED <<vcpu, lock, waitq, timed, shutting_down, sleepq, standbyq,
                 nthreads, notify, waitVars, tgt, arg, list, ops>>

(* wait_and_fire_events(0), once a millisecond after a yield of the idle   *)
(* worker: returns at once, but clears notify                              *)
IdlePoll(v) ==
  /\ Idling(v) /\ call[v] = "yield"
  /\ notify' = [notify EXCEPT ![v] = FALSE]
  /\ call' = [call EXCEPT ![v] = "none"]
  /\ UNCHANGED <<state, vcpu, error_number, lock, waitq, timed, shutting_down,
                 runq, sleepq, standbyq, nthreads, waitVars, localVars, ops>>

(* wait_and_fire_events(usec): under the engine's mutex, return if notify  *)
(* is set, else wait on its condition variable ...                         *)
IdleWait(v) ==
  /\ pc[v] = "wait"
  /\ Goto(v, IF notify[v] THEN "wake" ELSE "block")
  /\ UNCHANGED <<threadVars, vcpuVars, waitVars, tgt, arg, list, ops>>

(* ... until cancel_wait() ...                                             *)
IdleNotified(v) ==
  /\ pc[v] = "block"
  /\ notify[v]
  /\ Goto(v, "wake")
  /\ UNCHANGED <<threadVars, vcpuVars, waitVars, tgt, arg, list, ops>>

(* ... or until the time of the next timed sleeper (or the upper bound).   *)
IdleTimeout(v) ==
  /\ pc[v] = "block"
  /\ Goto(v, "wake")
  /\ UNCHANGED <<threadVars, vcpuVars, waitVars, tgt, arg, list, ops>>

(* The DEFER of wait_and_fire_events() clears notify.                      *)
IdleWake(v) ==
  /\ pc[v] = "wake"
  /\ notify' = [notify EXCEPT ![v] = FALSE]
  /\ Goto(v, "run")
  /\ UNCHANGED <<threadVars, runq, sleepq, standbyq, nthreads, waitVars, tgt,
                 arg, list, ops>>

------------------------------------------------------------------------------
\* What an actor does on its own once it is inside the scheduler.
WakeStep(a) ==
  \/ ShutdownInterrupt(a) \/ InterruptLock(a) \/ InterruptOut(a)
  \/ InterruptLocal(a) \/ InterruptRemote(a) \/ MoveToStandbyq(a) \/ CancelWait(a)
  \/ ResumeAgain(a) \/ ResumeLock(a)

Internal(v) ==
  \/ WakeStep(v)
  \/ YieldToClear(v) \/ PrepareUsleep(v) \/ UsleepReturn(v) \/ MigrateDeferred(v)
  \/ ResumeEject(v) \/ ResumeReady(v) \/ ExpireDequeue(v) \/ ResumeInsert(v)
  \/ \E th \in Thread : ExpireLock(v, th)
  \/ IdleYield(v) \/ IdleWait(v) \/ IdleNotified(v) \/ IdleWake(v)

\* A round of the loop of an actor that waits for a spin lock.
Spin(a) ==
  /\ \/ pc[a] = "sleep" /\ lock[Current(a)] # None
     \/ pc[a] \in {"lock", "pin"} /\ lock[tgt[a]] # None
  /\ UNCHANGED vars

\* What the program running on vCPU v chooses to do.
Program(v) ==
  \/ Yield(v) \/ Die(v)
  \/ \E th \in Worker : YieldTo(v, th) \/ YieldToStandby(v, th) \/ Create(v, th)
  \/ \E finite \in BOOLEAN : Usleep(v, finite) \/ \E q \in Queue : Wait(v, q, finite)
  \/ \E w \in VCPU : MigrateCurrent(v, w) \/ \E th \in Worker : Migrate(v, th, w)

Wakeups(a) ==
  \/ \E th \in Worker : Interrupt(a, th, EINTR) \/ Interrupt(a, th, 0) \/ Shutdown(a, th)
  \/ \E q \in Queue : ResumeOne(a, q)

Next ==
  \/ \E v \in VCPU : Internal(v) \/ Program(v) \/ IdlePoll(v) \/ IdleTimeout(v)
  \/ \E a \in OS : WakeStep(a)
  \/ \E a \in Actor : Wakeups(a) \/ Spin(a)

Spec == Init /\ [][Next]_vars

(* Every OS thread keeps running, and gets a spin lock that is free again  *)
(* and again; photon threads are cooperative, so the running one yields    *)
(* again and again.  Time passes: a timed sleeper that is looked at again  *)
(* and again is found expired, and the wait of an event engine that has    *)
(* timed sleepers ends.                                                    *)
Fairness ==
  /\ \A v \in VCPU : /\ SF_vars(Internal(v)) /\ SF_vars(Yield(v))
                     /\ \A th \in Worker : SF_vars(ExpireLock(v, th))
                     /\ WF_vars((\E th \in sleepq[v] : timed[th]) /\ IdleTimeout(v))
  /\ \A a \in OS : SF_vars(WakeStep(a))
FairSpec == Spec /\ Fairness

------------------------------------------------------------------------------
(* Properties *)

(* Variables range over their types.                                       *)
TypeOK ==
  /\ state \in [Thread -> States]
  /\ vcpu \in [Thread -> VCPU \cup {None}]
  /\ error_number \in [Thread -> Errno]
  /\ lock \in [Thread -> Actor \cup {None}]
  /\ waitq \in [Thread -> Queue \cup {None}]
  /\ timed \in [Thread -> BOOLEAN]
  /\ shutting_down \in [Thread -> BOOLEAN]
  /\ call \in [Thread -> {"none", "usleep", "yield"}]
  /\ runq \in [VCPU -> Seq(Thread)]
  /\ sleepq \in [VCPU -> SUBSET Thread]
  /\ standbyq \in [VCPU -> Seq(Thread)]
  /\ nthreads \in [VCPU -> Int]
  /\ notify \in [VCPU -> BOOLEAN]
  /\ wq \in [Queue -> Seq(Thread)]
  /\ wlock \in [Queue -> VCPU \cup {None}]
  /\ pc \in [Actor -> PCs]
  /\ tgt \in [Actor -> Thread \cup {None}]
  /\ arg \in [Actor -> Errno \cup Thread \cup Queue]
  /\ list \in [VCPU -> Seq(Thread)]
  /\ ops \in Programs

\* t is on its way to a standby queue, or being popped from the sleep queue.
Pushing(t) == \E a \in Actor : pc[a] = "push" /\ tgt[a] = t
Expiring(t) == \E v \in VCPU : pc[v] = "dequeue" /\ tgt[v] = t

(* A thread is where its state says, on the vCPU it belongs to: RUNNING is *)
(* the head of the run queue, READY is in the run queue (or in the list    *)
(* resume_threads() is about to insert), SLEEPING is in the sleep queue,   *)
(* STANDBY is in the standby queue or about to be pushed or made READY.    *)
(* No thread is lost or queued twice, and none is runnable on two vCPUs.   *)
(* The idle worker stays runnable, so that the run queue is never empty    *)
(* (the assertions !current->single()), and nthreads counts the threads of *)
(* the vCPU, however they migrate.                                         *)
RunQueuesMatch ==
  \A v \in VCPU :
    /\ IsInjective(runq[v] \o list[v] \o standbyq[v])
    /\ v \in Range(runq[v])
    /\ nthreads[v] = Cardinality({t \in Thread : Alive(t) /\ vcpu[t] = v})
    /\ \A t \in Thread :
       /\ t \in Range(runq[v]) => vcpu[t] = v /\ state[t] \in {"READY", "RUNNING"}
       /\ t \in Range(list[v]) =>
            vcpu[t] = v /\ state[t] = IF pc[v] = "ready" THEN "STANDBY" ELSE "READY"
       /\ t \in Range(standbyq[v]) => vcpu[t] = v /\ state[t] = "STANDBY"
       /\ t \in sleepq[v] => vcpu[t] = v /\ state[t] \in {"SLEEPING", "STANDBY"}
       /\ vcpu[t] = v =>
            CASE state[t] = "RUNNING"  -> t = Current(v)
              [] state[t] = "READY"    -> t \in Range(Tail(runq[v]) \o list[v])
              [] state[t] = "SLEEPING" -> t \in sleepq[v] \/ Expiring(t)
              [] state[t] = "STANDBY"  -> t \in Range(standbyq[v] \o list[v]) \/ Pushing(t)
              [] OTHER                 -> TRUE

(* A thread is in a wait queue iff its waitq says so, and only while it is *)
(* SLEEPING: the assertions on waitq after a sleep and in resume_one().    *)
WaitqLinks ==
  \A q \in Queue :
    /\ IsInjective(wq[q])
    /\ \A t \in Thread : t \in Range(wq[q]) <=> waitq[t] = q
    /\ \A t \in Range(wq[q]) : state[t] = "SLEEPING"

(* The assertions on states: prelocked_thread_interrupt() interrupts a     *)
(* SLEEPING thread; an expired sleeper that is not SLEEPING any more is in *)
(* the standby queue; the target of thread_yield_to() has become READY.    *)
StateAssertions ==
  /\ \A a \in Actor : pc[a] = "do" => state[tgt[a]] = "SLEEPING" /\ lock[tgt[a]] = a
  /\ \A v \in VCPU : pc[v] = "dequeue" /\ state[tgt[v]] # "SLEEPING" =>
       state[tgt[v]] = "STANDBY" /\ tgt[v] \in Range(standbyq[v])
  /\ \A v \in VCPU : pc[v] = "expire" /\ Current(v) # v =>
       state[arg[v]] \in {"READY", "STANDBY"} /\ vcpu[arg[v]] = v

(* Every thread is where its state says, once, and the assertions on        *)
(* states and queues hold, whatever wakes, times out, migrates or exits.   *)
QueuesMatchStates == TypeOK /\ RunQueuesMatch /\ WaitqLinks /\ StateAssertions

(* An idle worker that blocks in its event engine while its standby queue  *)
(* is not empty is going to be notified: no wakeup from another vCPU is    *)
(* lost, whatever DEFER(notify = false) and wait_and_fire_events(0) clear. *)
NoLostWakeup ==
  \A v \in VCPU : pc[v] = "block" /\ standbyq[v] # <<>> =>
    notify[v] \/ \E a \in Actor : pc[a] = "cancel" /\ arg[a] = v

(* A thread that its wait queue has resumed learns of it: nobody replaces  *)
(* its error_number before its sleep returns.                              *)
ResumeNotLost ==
  [][\A t \in Thread :
       error_number[t] = RESUMED /\ error_number'[t] # RESUMED =>
         state[t] = "RUNNING" /\ call[t] = "usleep" /\ call'[t] = "none"]_vars

(* A thread woken up from another vCPU gets to run, even if the idle       *)
(* worker of its vCPU is blocked and no timeout ever ends its wait.        *)
StandbyRuns == \A t \in Worker : state[t] = "STANDBY" ~> state[t] = "RUNNING"

(* A timed sleeper does not sleep forever.                                 *)
TimedSleepEnds ==
  \A t \in Worker : state[t] = "SLEEPING" /\ timed[t] ~> state[t] # "SLEEPING"

(* prepare_usleep() gets thread::lock while it holds the lock of the wait  *)
(* queue, although wakers take the two locks in the other order.           *)
SleepCommits == \A v \in VCPU : pc[v] = "sleep" ~> pc[v] = "run"

(* Whoever goes to sleep gets to sleep, and a timed sleep ends.            *)
SleepsEnd == SleepCommits /\ TimedSleepEnds
==============================================================================
