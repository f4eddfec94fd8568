CONSTANTS
  A = {a1, a2}
  B = {b1, b2}
  C = {c1}
  T = {t1, t2, t3}
  Null = Null
  Parts = {"mpmc", "channel", "batch", "spsc", "objects", "ranges", "ring", "throttle", "throttled_file", "epoll",
           "epoll_ng", "iouring", "aio", "aio_interrupts", "rpc", "file_cache", "refill_pool", "server", "stream", "sockets",
           "export", "fuse", "chunked", "client", "http", "iovector", "aligned"}
SPECIFICATION MCSpec
INVARIANTS ItemsInOrder UsedItemIndexed RangesDisjoint BytesInOrder RateKept WaiterArmed   NoHoleRead NoLostEdge PooledWatched    
 
CHECK_DEADLOCK FALSE
