CONSTANTS
  Thread = {t1, t2, t3}
  Parent = t1
  None = None
  Parts = {"mutex", "semaphore", "rwlock", "disposable", "join", "timer",
           "work", "threads", "objects", "epoll", "iouring", "aio", "rpc",
           "server", "stream", "sockets", "export", "fuse", "http"}
SPECIFICATION MCFairSpec
PROPERTIES   ShutdownsEnd
CHECK_DEADLOCK FALSE
