\* Three batches, two at a time, records in memory.
CONSTANTS
  NFiles = 3
  FilesPerBatch = 1
  ConcurrentBatches = 2
  Parallel = TRUE
  RedisBackend = FALSE
  Unsupported <- NoUnsupported
  Checks = {}
  MaxStray = 0
  MayRaise = FALSE
  MayCrash = FALSE
  Polled = FALSE
SPECIFICATION FairSpec
INVARIANT FilesKept
PROPERTY FinishedIsFinal
CHECK_DEADLOCK FALSE
