CONSTANTS
  Thread = {t1, t2, t3}
  Queue = {"q", "cvar"}
  None = None
  Retries = 1
  MaxDepth = 3
  MaxCount = 3
  w = t1
  Ops = 4
  Parent = t1
  N = 3
  Values = {1, 2}
  User = {u1, u2, u3, u4}
  Sleeper = {s1, s2, s3, s4, s5, s6}
  Times = {1, 2}
  Parts = {"mutex", "recursive", "semaphore", "out_of_order", "rwlock", "rwlock_shared",
           "disposable", "disposable_timed", "join", "timer", "oneshot", "heap",
           "work", "work_direct", "executor", "threads", "keys"}
SPECIFICATION MCSpec
INVARIANTS  DepthOwned  ReadersXorWriter
   FreedAfterUse SleepersInOrder
  NoSleepOverTask PooledIdle
PROPERTY NoBarging
CHECK_DEADLOCK FALSE
