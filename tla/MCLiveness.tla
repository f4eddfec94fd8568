------------------------------ MODULE MCLiveness ------------------------------
(***************************************************************************)
(* Model checking of what must come to an end: calls of mutex, semaphore,  *)
(* rwlock and their kin, of RPC, of the event engines and of the caches,   *)
(* and the destructors that wait for threads.  A behaviour exercises one   *)
(* `part`; v1, v2, ... are the variables of its module, in the order in    *)
(* which that module declares them.  As `part` never changes, one fairness *)
(* condition, and one leads-to formula, stands for the ones of all parts.  *)
(***************************************************************************)
EXTENDS Integers, FiniteSets

CONSTANTS Thread,          \* three threads
          Parent,          \* one of them
          None,
          Parts            \* the parts that are exercised

VARIABLES part, v1, v2, v3, v4, v5, v6, v7, v8, v9, v10, v11, v12, v13

T1 == {Parent}
T2 == Thread \ {Parent}
Number == CHOOSE f \in [Thread -> 1..Cardinality(Thread)] :
  f[Parent] = 3 /\ \A s, t \in Thread : s # t => f[s] # f[t]
Dir(t) == IF Number[t] = 1 THEN "r" ELSE "w"

Mutual == INSTANCE Mutex WITH Queue <- {"q", "cvar"}, Retries <- 1,
  asleep <- v1, queue <- v2, error_number <- v3, owner <- v4, splock <- v5, pin <- v6, pc <- v7,
  re <- v8
Sem == INSTANCE Semaphore WITH Queue <- {"q", "cvar"}, OOO <- FALSE, Counts <- {1}, MaxCount <- 3,
  asleep <- v1, queue <- v2, error_number <- v3, m_count <- v4, splock <- v5, qlock <- v6, pin <- v7,
  semaphore_count <- v8, pc <- v9, cnt <- v10, pos <- v11
ReadWrite == INSTANCE RWLock WITH Queue <- {"q", "cvar"}, MultiVCPU <- FALSE,
  asleep <- v1, queue <- v2, error_number <- v3, state <- v4, mtx <- v5, rwlock_mark <- v6,
  hold <- v7, pc <- v8
Disposable == INSTANCE DisposableSemaphore WITH Queue <- {"q", "cvar"}, Waiter <- Parent, Ops <- 2,
  Timed <- TRUE, asleep <- v1, queue <- v2, error_number <- v3, waiter <- v4, mark <- v5, wpc <- v6,
  cur <- v7, spc <- v8, deferred <- v9, ret <- v10
Join == INSTANCE ThreadJoin WITH Thread <- T1, Queue <- 1..2, N <- 2, Values <- {1, 2}, MayFail <- TRUE,
  DtorBlocks <- TRUE, asleep <- v1, queue <- v2, error_number <- v3, pc <- v4, i <- v5, created <- v6,
  tpc <- v7, tstate <- v8, lock <- v9, field <- v10, result <- v11, joined <- v12, disposed <- v13
Repeat == INSTANCE Timer WITH User <- T2, Repeating <- TRUE, tpc <- v1, cancelled <- v2, waiting <- v3,
  repeating <- v4, th <- v5, timeout <- v6, upc <- v7
Work == INSTANCE WorkPool WITH Worker <- T1, Joiner <- {"joiner"}, Task <- T1, RingSize <- 1, Mode <- 0,
  Executor <- FALSE, pool <- v1, rx <- v2, tx <- v3, done <- v4, owner <- v5
Threads == INSTANCE ThreadPool WITH Ctrl <- T2, User <- T2, Capacity <- 1, Autoscale <- TRUE,
  ip <- v1, tc <- v2, us <- v3, sc <- v4, del <- v5
Objects == INSTANCE ObjectCache WITH Thread <- T2, Key <- {1}, Item <- {1, 2}, NumLimit <- 0,
  Null <- None, set <- v1, it <- v2, list <- v3, th <- v4
Epoll == INSTANCE EventEngine WITH Thread <- T2, Fd <- {1}, Shared <- FALSE, Null <- None,
  entry <- v1, ker <- v2, th <- v3
Uring == INSTANCE IoUring WITH Thread <- T1, MaxCall <- 2, sq <- v1, busy <- v2, cq <- v3, th <- v4
Libaio == INSTANCE Aio WITH Thread <- T2, Depth <- 1, Interrupts <- FALSE, running <- v1, evfd <- v2,
  poll <- v3, flight <- v4, done <- v5, th <- v6, handler <- v7, owner <- v8
Calls == INSTANCE RPC WITH Caller <- T2, MaxTag <- 2, Null <- None,
  cl <- v1, en <- v2, net <- v3, sk <- v4
Server == INSTANCE SocketServer WITH Conn <- T2, Null <- None, sv <- v1, lp <- v2, ow <- v3, cn <- v4
EtStream == INSTANCE SocketStream WITH Cap <- 1, MaxLen <- 1,
  kern <- v1, io <- v2, waiter <- v3, loop <- v4
Sockets == INSTANCE SocketPool WITH User <- T1, Stream <- T2, TTL <- 1, Null <- None,
  list <- v1, age <- v2, watch <- v3, st <- v4, us <- v5, run <- v6
Export == INSTANCE ExportFs WITH Op <- T2, MaxInit <- 1, Stop <- None,
  queue <- v1, st <- v2, loop <- v3, ref <- v4, fini <- v5, inits <- v6
Fuse == INSTANCE FuseLoop WITH Worker <- Thread, MaxReq <- 2,
  dev <- v1, exited <- v2, idlers <- v3, waitting <- v4, pc <- v5
Http == INSTANCE HttpServer WITH Conn <- T1, MaxReq <- 2,
  server <- v1, workers <- v2, list <- v3, cn <- v4

z12 == v13 = 0
z11 == v12 = 0 /\ z12
z10 == v11 = 0 /\ z11
z9 == v10 = 0 /\ z10
z8 == v9 = 0 /\ z9
z7 == v8 = 0 /\ z8
z6 == v7 = 0 /\ z7
z5 == v6 = 0 /\ z6
z4 == v5 = 0 /\ z5
z3 == v4 = 0 /\ z4

\* What the parts leave alone
r12 == <<part, v13>>
r11 == <<r12, v12>>
r10 == <<r11, v11>>
r9 == <<r10, v10>>
r8 == <<r9, v9>>
r7 == <<r8, v8>>
r6 == <<r7, v7>>
r5 == <<r6, v6>>
r4 == <<r5, v5>>
r3 == <<r4, v4>>
lvars == <<v1, v2, v3, r3>>

MCInit ==
  /\ part \in Parts
  /\ \/ part = "mutex" /\ Mutual!Init /\ z8
     \/ part = "semaphore" /\ Sem!Init /\ z11
     \/ part = "rwlock" /\ ReadWrite!Init /\ z8
     \/ part = "disposable" /\ Disposable!Init /\ z10
     \/ part = "join" /\ Join!Init
     \/ part = "timer" /\ Repeat!Init /\ z7
     \/ part = "work" /\ Work!Init /\ z5
     \/ part = "threads" /\ Threads!Init /\ z5
     \/ part = "objects" /\ Objects!Init /\ z4
     \/ part = "epoll" /\ Epoll!Init /\ z3
     \/ part = "iouring" /\ Uring!Init /\ z4
     \/ part = "aio" /\ Libaio!Init /\ z8
     \/ part = "rpc" /\ Calls!Init /\ z4
     \/ part = "server" /\ Server!Init /\ z4
     \/ part = "stream" /\ EtStream!Init /\ z4
     \/ part = "sockets" /\ Sockets!Init /\ z6
     \/ part = "export" /\ Export!Init /\ z6
     \/ part = "fuse" /\ Fuse!Init /\ z5
     \/ part = "http" /\ Http!Init /\ z4

MCNext ==
  \/ part = "mutex" /\ Mutual!Next /\ UNCHANGED r8
  \/ part = "semaphore" /\ Sem!Next /\ UNCHANGED r11
  \/ part = "rwlock" /\ ReadWrite!Next /\ UNCHANGED r8
  \/ part = "disposable" /\ Disposable!Next /\ UNCHANGED r10
  \/ part = "join" /\ Join!Next /\ UNCHANGED part
  \/ part = "timer" /\ Repeat!Next /\ UNCHANGED r7
  \/ part = "work" /\ Work!Next /\ UNCHANGED r5
  \/ part = "threads" /\ Threads!Next /\ UNCHANGED r5
  \/ part = "objects" /\ Objects!Next /\ UNCHANGED r4
  \/ part = "epoll" /\ Epoll!Next /\ UNCHANGED r3
  \/ part = "iouring" /\ Uring!Next /\ UNCHANGED r4
  \/ part = "aio" /\ Libaio!Next /\ UNCHANGED r8
  \/ part = "rpc" /\ Calls!Next /\ UNCHANGED r4
  \/ part = "server" /\ Server!Next /\ UNCHANGED r4
  \/ part = "stream" /\ EtStream!Next /\ UNCHANGED r4
  \/ part = "sockets" /\ Sockets!Next /\ UNCHANGED r6
  \/ part = "export" /\ Export!Next /\ UNCHANGED r6
  \/ part = "fuse" /\ Fuse!Next /\ UNCHANGED r5
  \/ part = "http" /\ Http!Next /\ UNCHANGED r4

------------------------------------------------------------------------------
(* The fairness of the modules.  Strong: steps that wait for a lock, or     *)
(* that compete with others for a task or a connection.                    *)
Strong1(t) ==
  \/ part = "mutex" /\ (Mutual!Lock(t) \/ Mutual!Unlock(t)) /\ UNCHANGED r8
  \/ part = "semaphore" /\ (Sem!Waiter(t) \/ Sem!TryResume(t)) /\ UNCHANGED r11
  \/ /\ part = "rwlock" /\ (ReadWrite!Locking(t) \/ ReadWrite!Unlock(t) \/ ReadWrite!Unlocking(t))
     /\ UNCHANGED r8
  \/ part = "join" /\ t = Parent /\ Join!ParentSteps /\ UNCHANGED part
  \/ part = "work" /\ t = Parent /\ Work!Work(t) /\ UNCHANGED r5
  \/ part = "server" /\ t \in T2 /\ Server!Accept(t) /\ UNCHANGED r4
Strong2(t) ==
  \/ part = "mutex" /\ Mutual!UnlockSplock(t) /\ UNCHANGED r8
  \/ part = "join" /\ t \in T2 /\ Join!Die(Number[t]) /\ UNCHANGED part
  \/ part = "work" /\ Number[t] = 1 /\ Work!Work("joiner") /\ UNCHANGED r5
  \/ part = "work" /\ Number[t] = 2 /\ Work!Own /\ UNCHANGED r5

\* Weak: threads that run, one after the other.
Weak1(t) ==
  \/ part = "disposable" /\ t = Parent /\ Disposable!WaiterSteps /\ UNCHANGED r10
  \/ part = "join" /\ t \in T2 /\ Join!DieUnlock(Number[t]) /\ UNCHANGED part
  \/ part = "timer" /\ t \in T2 /\ Repeat!Dtor(t) /\ UNCHANGED r7
  \/ part = "work" /\ t = Parent /\ Work!EnqueueNotify(t) /\ UNCHANGED r5
  \/ part = "threads" /\ t \in T2 /\ Threads!ThreadSteps(t) /\ UNCHANGED r5
  \/ part = "objects" /\ t \in T2 /\ Objects!CallerStep(t) /\ UNCHANGED r4
  \/ part = "epoll" /\ t \in T2 /\ Epoll!Return(t) /\ UNCHANGED r3
  \/ part = "iouring" /\ t \in T1 /\ (Uring!Cancel(t) \/ Uring!Return(t)) /\ UNCHANGED r4
  \/ part = "aio" /\ t \in T2 /\ (Libaio!CallerStep(t) \/ Libaio!HandlerStep(t)) /\ UNCHANGED r8
  \/ part = "rpc" /\ t \in T2 /\ Calls!CallerStep(t) /\ UNCHANGED r4
  \/ part = "server" /\ t \in T2 /\ Server!Handler(t) /\ UNCHANGED r4
  \/ /\ part = "stream" /\ t \in T2 /\ UNCHANGED r4
     /\ EtStream!DoIo(Dir(t)) \/ EtStream!WaitForStateEnds(Dir(t))
  \/ part = "export" /\ t \in T2 /\ Export!DoOpq(t) /\ UNCHANGED r6
  \/ /\ part = "fuse" /\ UNCHANGED r5
     /\ \/ Fuse!Start(t) \/ Fuse!Loop(t) \/ Fuse!BlockingRead(t) \/ Fuse!Process(t)
        \/ Fuse!Readable(t) \/ Fuse!Wakes(t)
  \/ part = "http" /\ t \in T1 /\ Http!ThreadRuns(t) /\ UNCHANGED r4

\* The background: the kernel, the event loop, timers, threads that destruct.
Weak2(k) ==
  \/ part = "disposable" /\ k <= 2 /\ Disposable!Signals(k) /\ UNCHANGED r10
  \/ part = "timer" /\ k = 1 /\ Repeat!TimerThread /\ UNCHANGED r7
  \/ part = "work" /\ k = 1 /\ Work!RunTask(Parent) /\ UNCHANGED r5
  \/ part = "work" /\ k = 2 /\ Work!RunTask("joiner") /\ UNCHANGED r5
  \/ part = "threads" /\ k = 1 /\ Threads!ScaleRound /\ UNCHANGED r5
  \/ part = "threads" /\ k = 2 /\ Threads!DeleteRound /\ UNCHANGED r5
  \/ /\ part = "threads" /\ k > 2 /\ UNCHANGED r5
     /\ \E t \in T2 : Number[t] = k - 2 /\ Threads!UserSteps(t)
  \/ part = "epoll" /\ k = 1 /\ Epoll!Fire(1) /\ UNCHANGED r3
  \/ part = "iouring" /\ k = 1 /\ Uring!WaitAndFire /\ UNCHANGED r4
  \/ part = "iouring" /\ k = 2 /\ (\E b \in v2 : Uring!TimerFires(b)) /\ UNCHANGED r4
  \/ part = "aio" /\ k = 1 /\ Libaio!Polls /\ UNCHANGED r8
  \/ part = "aio" /\ k = 2 /\ Libaio!FiniEnds /\ UNCHANGED r8
  \/ part = "aio" /\ k > 2 /\ (\E t \in T2 : Number[t] = k - 2 /\ Libaio!Complete(t)) /\ UNCHANGED r8
  \/ part = "rpc" /\ k = 1 /\ Calls!Serve /\ UNCHANGED r4
  \/ part = "rpc" /\ k \in {2, 3} /\ Calls!Respond(k - 1) /\ UNCHANGED r4
  \/ part = "server" /\ k = 1 /\ (Server!Accepted \/ Server!BackOffEnds) /\ UNCHANGED r4
  \/ part = "server" /\ k = 2 /\ Server!Joined /\ UNCHANGED r4
  \/ part = "stream" /\ k = 1 /\ EtStream!Notify /\ UNCHANGED r4
  \/ part = "stream" /\ k = 2 /\ EtStream!RunExits /\ UNCHANGED r4
  \/ part = "sockets" /\ k = 1 /\ Sockets!Collect /\ UNCHANGED r6
  \/ part = "sockets" /\ k = 2 /\ Sockets!Evict /\ UNCHANGED r6
  \/ part = "export" /\ k = 1 /\ Export!OnEvents /\ UNCHANGED r6
  \/ part = "export" /\ k = 2 /\ (Export!FiniUnref \/ Export!FiniWait \/ Export!FiniDrain) /\ UNCHANGED r6
  \/ part = "http" /\ k = 1 /\ Http!Delete /\ UNCHANGED r4

MCFairness ==
  /\ \A t \in Thread : SF_lvars(Strong1(t)) /\ SF_lvars(Strong2(t)) /\ WF_lvars(Weak1(t))
  /\ \A k \in 1..4 : WF_lvars(Weak2(k))

MCFairSpec == MCInit /\ [][MCNext]_lvars /\ MCFairness

------------------------------------------------------------------------------
(* Every lock() of a mutex, signal() of a semaphore, wait() of a           *)
(* disposable semaphore and thread_join() returns, and so does the         *)
(* destructor of a repeating timer; a free rwlock that is waited for is    *)
(* taken, unless the waiters give up.                                      *)
SyncDue(t) ==
  \/ part = "mutex" /\ Mutual!Due(t)
  \/ part = "semaphore" /\ Sem!Due(t)
  \/ part = "rwlock" /\ ReadWrite!Due
  \/ part = "disposable" /\ Disposable!Due
  \/ part = "join" /\ Join!Due
  \/ part = "timer" /\ t \in T2 /\ Repeat!Due(t)
SyncSettled(t) ==
  \/ part = "mutex" /\ Mutual!Settled(t)
  \/ part = "semaphore" /\ Sem!Settled(t)
  \/ part = "rwlock" /\ ReadWrite!Settled
  \/ part = "disposable" /\ Disposable!Settled
  \/ part = "join" /\ Join!Settled
  \/ part = "timer" /\ t \in T2 /\ Repeat!Settled(t)
SyncReturns == \A t \in Thread : SyncDue(t) ~> SyncSettled(t)

(* Calls of RPC, io_uring and aio return; waiters of epoll and of a stream   *)
(* are woken; a recycled object of the cache is freed; connections are     *)
(* served; dead streams leave the pool; operations of exportfs are run.    *)
Due(t) ==
  \/ part = "rpc" /\ t \in T2 /\ Calls!Due(t)
  \/ part = "iouring" /\ t \in T1 /\ Uring!Due(t)
  \/ part = "aio" /\ t \in T2 /\ Libaio!Due(t)
  \/ part = "epoll" /\ t \in T2 /\ Epoll!Due(t)
  \/ part = "stream" /\ t \in T2 /\ EtStream!Due(Dir(t))
  \/ part = "objects" /\ t \in T2 /\ Objects!Due(t)
  \/ part = "server" /\ t \in T2 /\ Server!Due(t)
  \/ part = "sockets" /\ t \in T2 /\ Sockets!Due(t)
  \/ part = "export" /\ t \in T2 /\ Export!Due(t)
Settled(t) ==
  \/ part = "rpc" /\ t \in T2 /\ Calls!Settled(t)
  \/ part = "iouring" /\ t \in T1 /\ Uring!Settled(t)
  \/ part = "aio" /\ t \in T2 /\ Libaio!Settled(t)
  \/ part = "epoll" /\ t \in T2 /\ Epoll!Settled(t)
  \/ part = "stream" /\ t \in T2 /\ EtStream!Settled(Dir(t))
  \/ part = "objects" /\ t \in T2 /\ Objects!Settled(t)
  \/ part = "server" /\ t \in T2 /\ Server!Settled(t)
  \/ part = "sockets" /\ t \in T2 /\ Sockets!Settled(t)
  \/ part = "export" /\ t \in T2 /\ Export!Settled(t)
CallsReturn == \A t \in Thread : Due(t) ~> Settled(t)

(* The destructors of WorkPool, ThreadPool and HttpServer, exportfs_fini(),*)
(* the loop of FUSE and libaio_wrapper_fini() wait for their threads, and  *)
(* return.                                                                 *)
Stopping ==
  \/ part = "work" /\ Work!Stopping
  \/ part = "threads" /\ Threads!Stopping
  \/ part = "http" /\ Http!Stopping
  \/ part = "export" /\ Export!Stopping
  \/ part = "fuse" /\ Fuse!Stopping
  \/ part = "aio" /\ Libaio!Stopping
Stopped ==
  \/ part = "work" /\ Work!Stopped
  \/ part = "threads" /\ Threads!Stopped
  \/ part = "http" /\ Http!Stopped
  \/ part = "export" /\ Export!Stopped
  \/ part = "fuse" /\ Fuse!Stopped
  \/ part = "aio" /\ Libaio!Stopped
ShutdownsEnd == Stopping ~> Stopped
==============================================================================
