------------------------------ MODULE MCServices ------------------------------
(***************************************************************************)
(* Model checking of what is built on the threads: queues, caches, locks,  *)
(* throttles, event engines, sockets, HTTP, RPC and files.  A behaviour    *)
(* exercises one `part`; v1, v2, ... are the variables of its module, in   *)
(* the order in which that module declares them, and the rest are 0.       *)
(***************************************************************************)
EXTENDS Integers

CONSTANTS
  A, B, C, T,              \* two, two, one and three threads, connections, files, ...
  Null,
  Parts                    \* the parts that are exercised

VARIABLES part, v1, v2, v3, v4, v5, v6, v7, v8

v == <<part, v1, v2, v3, v4, v5, v6, v7, v8>>
r2 == <<part, v3, v4, v5, v6, v7, v8>>     \* what a part with two variables leaves alone
r3 == <<part, v4, v5, v6, v7, v8>>
r4 == <<part, v5, v6, v7, v8>>
r5 == <<part, v6, v7, v8>>
r6 == <<part, v7, v8>>
r7 == <<part, v8>>
z2 == v3 = 0 /\ v4 = 0 /\ v5 = 0 /\ v6 = 0 /\ v7 = 0 /\ v8 = 0
z3 == v4 = 0 /\ v5 = 0 /\ v6 = 0 /\ v7 = 0 /\ v8 = 0
z4 == v5 = 0 /\ v6 = 0 /\ v7 = 0 /\ v8 = 0
z5 == v6 = 0 /\ v7 = 0 /\ v8 = 0
z6 == v7 = 0 /\ v8 = 0
z7 == v8 = 0

Mpmc == INSTANCE LockfreeQueue WITH Producer <- A, Consumer <- B, Capacity <- 2, MaxPos <- 3,
  Batch <- 1, Kind <- "mpmc", Blocking <- FALSE, q <- v1, th <- v2
Channel == INSTANCE LockfreeQueue WITH Producer <- A, Consumer <- C, Capacity <- 2, MaxPos <- 3,
  Batch <- 1, Kind <- "mpmc", Blocking <- TRUE, q <- v1, th <- v2
Batches == INSTANCE LockfreeQueue WITH Producer <- A, Consumer <- C, Capacity <- 2, MaxPos <- 4,
  Batch <- 2, Kind <- "batch", Blocking <- FALSE, q <- v1, th <- v2
Spsc == INSTANCE LockfreeQueue WITH Producer <- C, Consumer <- {Null}, Capacity <- 2, MaxPos <- 8,
  Batch <- 2, Kind <- "spsc", Blocking <- FALSE, q <- v1, th <- v2
Objects == INSTANCE ObjectCache WITH Thread <- T, Key <- C, Item <- A, NumLimit <- 0,
  set <- v1, it <- v2, list <- v3, th <- v4
Ranges == INSTANCE RangeLock WITH Thread <- T, Size <- 4, index <- v1, th <- v2
Bytes == INSTANCE Ring WITH Reader <- A, Writer <- B, Capacity <- 4, MaxLen <- 3, MaxPos <- 6,
  None <- Null, rb <- v1, th <- v2, put <- v3, got <- v4
Limiter == INSTANCE Throttle WITH Thread <- A, Rates <- {2, 3}, Slices <- 2, SliceLen <- 1,
  Amounts <- {2}, MaxNow <- 3,
  rate <- v1, tok <- v2, now <- v3, last <- v4, starve <- v5, th <- v6, total <- v7
Ops == INSTANCE ThrottledFile WITH Thread <- T, MaxOps <- 2, Rate <- 2, Window <- 1, Capacity <- 2,
  Amounts <- {1, 2}, MaxNow <- 3, ops <- v1, q <- v2, sum <- v3, now <- v4, th <- v5, done <- v6
Epoll == INSTANCE EventEngine WITH Thread <- T, Fd <- C, Shared <- FALSE,
  entry <- v1, ker <- v2, th <- v3
Cascade == INSTANCE EpollNG WITH Thread <- T, Fd <- C, reg <- v1, buf <- v2, ready <- v3, th <- v4
Uring == INSTANCE IoUring WITH Thread <- A, MaxCall <- 2, sq <- v1, busy <- v2, cq <- v3, th <- v4
Libaio == INSTANCE Aio WITH Thread <- T, Depth <- 2, Interrupts <- FALSE, running <- v1, evfd <- v2,
  poll <- v3, flight <- v4, done <- v5, th <- v6, handler <- v7, owner <- v8
AnyAio == INSTANCE Aio WITH Thread <- A, Depth <- 1, Interrupts <- TRUE, running <- v1, evfd <- v2,
  poll <- v3, flight <- v4, done <- v5, th <- v6, handler <- v7, owner <- v8
Calls == INSTANCE RPC WITH Caller <- T, MaxTag <- 3, cl <- v1, en <- v2, net <- v3, sk <- v4
Cache == INSTANCE FileCache WITH Thread <- A, File <- C, Pages <- 2, WaterMark <- 1, RiskMark <- 2,
  Threshold <- 9, MaxRefilling <- 0, MaxUsed <- 3, fl <- v1, pool <- v2, th <- v3, wr <- v4
Refilled == INSTANCE FileCache WITH Thread <- A, File <- C, Pages <- 2, WaterMark <- 1, RiskMark <- 2,
  Threshold <- 2, MaxRefilling <- 1, MaxUsed <- 3, fl <- v1, pool <- v2, th <- v3, wr <- v4
Server == INSTANCE SocketServer WITH Conn <- T, sv <- v1, lp <- v2, ow <- v3, cn <- v4
EtStream == INSTANCE SocketStream WITH Cap <- 2, MaxLen <- 2,
  kern <- v1, io <- v2, waiter <- v3, loop <- v4
Sockets == INSTANCE SocketPool WITH User <- A, Stream <- T, TTL <- 2,
  list <- v1, age <- v2, watch <- v3, st <- v4, us <- v5, run <- v6
Export == INSTANCE ExportFs WITH Op <- T, MaxInit <- 2, Stop <- Null,
  queue <- v1, st <- v2, loop <- v3, ref <- v4, fini <- v5, inits <- v6
Fuse == INSTANCE FuseLoop WITH Worker <- T, MaxReq <- 3,
  dev <- v1, exited <- v2, idlers <- v3, waitting <- v4, pc <- v5
Chunks == INSTANCE ChunkedBody WITH MaxChunks <- 3, MaxLen <- 2, MaxCount <- 3, AnyPiece <- FALSE,
  wire <- v1, line <- v2, cur <- v3, remain <- v4, finish <- v5, rd <- v6, out <- v7, body <- v8
Client == INSTANCE HttpClient WITH Op <- A, Sock <- B, MaxRetry <- 1, MaxFollow <- 1,
  op <- v1, sock <- v2
Http == INSTANCE HttpServer WITH Conn <- A, MaxReq <- 2,
  server <- v1, workers <- v2, list <- v3, cn <- v4
Vector == INSTANCE IOVector WITH Capacity <- 4, Reserve <- 1, MaxLen <- 2, MaxBytes <- 3, MaxSteps <- 4,
  iovs <- v1, begin <- v2, nbases <- v3, bytes <- v4, next <- v5, steps <- v6, ok <- v7
Aligned == INSTANCE AlignedFile WITH Alignment <- 2, MaxSize <- 4, MaxCount <- 4,
  file <- v1, ref <- v2, rs <- v3, io <- v4, got <- v5

MCInit ==
  /\ part \in Parts
  /\ \/ part = "mpmc" /\ Mpmc!Init /\ z2
     \/ part = "channel" /\ Channel!Init /\ z2
     \/ part = "batch" /\ Batches!Init /\ z2
     \/ part = "spsc" /\ Spsc!Init /\ z2
     \/ part = "objects" /\ Objects!Init /\ z4
     \/ part = "ranges" /\ Ranges!Init /\ z2
     \/ part = "ring" /\ Bytes!Init /\ z4
     \/ part = "throttle" /\ Limiter!Init /\ z7
     \/ part = "throttled_file" /\ Ops!Init /\ z6
     \/ part = "epoll" /\ Epoll!Init /\ z3
     \/ part = "epoll_ng" /\ Cascade!Init /\ z4
     \/ part = "iouring" /\ Uring!Init /\ z4
     \/ part = "aio" /\ Libaio!Init
     \/ part = "aio_interrupts" /\ AnyAio!Init
     \/ part = "rpc" /\ Calls!Init /\ z4
     \/ part = "file_cache" /\ Cache!Init /\ z4
     \/ part = "refill_pool" /\ Refilled!Init /\ z4
     \/ part = "server" /\ Server!Init /\ z4
     \/ part = "stream" /\ EtStream!Init /\ z4
     \/ part = "sockets" /\ Sockets!Init /\ z6
     \/ part = "export" /\ Export!Init /\ z6
     \/ part = "fuse" /\ Fuse!Init /\ z5
     \/ part = "chunked" /\ Chunks!Init
     \/ part = "client" /\ Client!Init /\ z2
     \/ part = "http" /\ Http!Init /\ z4
     \/ part = "iovector" /\ Vector!Init /\ z7
     \/ part = "aligned" /\ Aligned!Init /\ z5

MCNext ==
  \/ part = "mpmc" /\ Mpmc!Next /\ UNCHANGED r2
  \/ part = "channel" /\ Channel!Next /\ UNCHANGED r2
  \/ part = "batch" /\ Batches!Next /\ UNCHANGED r2
  \/ part = "spsc" /\ Spsc!Next /\ UNCHANGED r2
  \/ part = "objects" /\ Objects!Next /\ UNCHANGED r4
  \/ part = "ranges" /\ Ranges!Next /\ UNCHANGED r2
  \/ part = "ring" /\ Bytes!Next /\ UNCHANGED r4
  \/ part = "throttle" /\ Limiter!Next /\ UNCHANGED r7
  \/ part = "throttled_file" /\ Ops!Next /\ UNCHANGED r6
  \/ part = "epoll" /\ Epoll!Next /\ UNCHANGED r3
  \/ part = "epoll_ng" /\ Cascade!Next /\ UNCHANGED r4
  \/ part = "iouring" /\ Uring!Next /\ UNCHANGED r4
  \/ part = "aio" /\ Libaio!Next /\ UNCHANGED part
  \/ part = "aio_interrupts" /\ AnyAio!Next /\ UNCHANGED part
  \/ part = "rpc" /\ Calls!Next /\ UNCHANGED r4
  \/ part = "file_cache" /\ Cache!Next /\ UNCHANGED r4
  \/ part = "refill_pool" /\ Refilled!Next /\ UNCHANGED r4
  \/ part = "server" /\ Server!Next /\ UNCHANGED r4
  \/ part = "stream" /\ EtStream!Next /\ UNCHANGED r4
  \/ part = "sockets" /\ Sockets!Next /\ UNCHANGED r6
  \/ part = "export" /\ Export!Next /\ UNCHANGED r6
  \/ part = "fuse" /\ Fuse!Next /\ UNCHANGED r5
  \/ part = "chunked" /\ Chunks!Next /\ UNCHANGED part
  \/ part = "client" /\ Client!Next /\ UNCHANGED r2
  \/ part = "http" /\ Http!Next /\ UNCHANGED r4
  \/ part = "iovector" /\ Vector!Next /\ UNCHANGED r7
  \/ part = "aligned" /\ Aligned!Next /\ UNCHANGED r5

MCSpec == MCInit /\ [][MCNext]_v

------------------------------------------------------------------------------
(* LockfreeQueue: a consumer gets the items of the positions it claimed,   *)
(* and push() and pop() fail only if the queue was full (empty) during the *)
(* call.                                                                   *)
ItemsInOrder ==
  /\ part = "mpmc" => Mpmc!ItemsInOrder /\ Mpmc!FailureIsHonest
  /\ part = "channel" => Channel!ItemsInOrder
  /\ part = "batch" => Batches!ItemsInOrder /\ Batches!FailureIsHonest
  /\ part = "spsc" => Spsc!ItemsInOrder /\ Spsc!FailureIsHonest

(* ObjectCache: a key never has two objects in use, and the LRU list holds *)
(* exactly the items that nobody uses.                                     *)
UsedItemIndexed == part = "objects" => Objects!UsedItemIndexed /\ Objects!UnusedListed

(* RangeLock: locked ranges do not overlap, and a waiter waits on one of   *)
(* them.                                                                   *)
RangesDisjoint == part = "ranges" => Ranges!RangesDisjoint /\ Ranges!WaitsOnLocked

(* Ring: bytes come out in the order they went in, and nobody waits for    *)
(* what is there.                                                          *)
BytesInOrder == part = "ring" => Bytes!BytesInOrder /\ Bytes!NobodyStuck

(* Throttle and ThrottledFile: what is admitted keeps to the rate.         *)
RateKept ==
  /\ part = "throttle" => Limiter!RateKept
  /\ part = "throttled_file" => Ops!SumMatches /\ Ops!WindowKept

(* EventEngine: a thread that sleeps in wait_for_fd() is registered and    *)
(* armed, and a registration leads to such a thread.  FuseLoop: while      *)
(* requests are processed, a worker waits for the device.                  *)
WaiterArmed ==
  /\ part = "epoll" => Epoll!WaiterArmed /\ Epoll!EntryLeadsToWaiter
  /\ part = "fuse" => Fuse!DeviceWatched

(* EpollNG, IoUring and Aio: what the kernel, the queues and the buffers   *)
(* point to is the stack frame of a call that has not returned, and        *)
(* whoever sleeps will be found.                                           *)
FramesAlive ==
  /\ part = "epoll_ng" => Cascade!WaitersAlive /\ Cascade!SleeperRegistered
  /\ part = "iouring" => Uring!ContextsAlive /\ Uring!ResultWritten
  /\ part = "aio" => Libaio!FramesKept /\ Libaio!NoLostCompletion
  /\ part = "aio_interrupts" => AnyAio!FramesKept /\ AnyAio!NoLostCompletion

(* RPC: the contexts in m_map are those of calls that have not returned,   *)
(* and the stream is not destructed while a request of it is served.       *)
MapHoldsLiveCalls == part = "rpc" => Calls!MapHoldsLiveCalls /\ Calls!StreamOutlivesRequests

(* RPC: a call that succeeds has the answer to its own request.            *)
OwnAnswer == [][part = "rpc" => Calls!AnswersOwn]_v

(* FileCache: no read returns the zeros of a hole, the pool counts the     *)
(* space that is used, and an open file is in the index.                   *)
NoHoleRead ==
  /\ part = "file_cache" => Cache!NoHoleRead /\ Cache!SpaceCounted /\ Cache!OpenIndexed
  /\ part = "refill_pool" => Refilled!NoHoleRead /\ Refilled!SpaceCounted /\ Refilled!OpenIndexed

(* SocketStream: no edge is consumed in vain, and a read or write is short *)
(* only at the end of the file.                                            *)
NoLostEdge == part = "stream" => EtStream!NoLostEdge /\ EtStream!ShortAtEof

(* SocketPool: the streams in the pool are open, watched and nobody's, and *)
(* the oldest is the first.                                                *)
PooledWatched == part = "sockets" => Sockets!PooledWatched /\ Sockets!OldestFirst

(* HttpClient: a response is the one to the request that was sent, and a   *)
(* connection in the pool carries nothing.                                 *)
OwnResponse == part = "client" => Client!OwnResponse /\ Client!PooledClean

(* HttpServer and ChunkedBody: a header is received where a request        *)
(* begins, and a chunked body is read to its end and not beyond.           *)
MessagesApart ==
  /\ part = "http" => Http!HeaderAtStart
  /\ part = "chunked" => Chunks!BodyDecoded

(* SocketServer, HttpServer, ExportFs and Aio: nothing runs on a server,   *)
(* on the loop of exportfs, or on the context of libaio, that is deleted.  *)
OutlivesUsers ==
  /\ part = "server" => Server!ServerOutlivesLoop
  /\ part = "http" => Http!ServerOutlivesThreads
  /\ part = "export" => Export!FiniWaits
  /\ part = "aio" => Libaio!ContextUnused

(* IOVector and AlignedFile: the bytes are those that were put or written, *)
(* and the parts of a range are the range.                                 *)
BytesKept ==
  /\ part = "iovector" => Vector!BytesKept
  /\ part = "aligned" => Aligned!PartsCover /\ Aligned!FileAsWritten
==============================================================================
