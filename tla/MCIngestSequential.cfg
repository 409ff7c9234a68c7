\* Batches one after the other, records in Redis, everything can go wrong.
CONSTANTS
  NFiles = 3
  FilesPerBatch = 2
  ConcurrentBatches = 2
  Parallel = FALSE
  RedisBackend = TRUE
  Unsupported <- FirstUnsupported
  Checks = {"metadata", "already_stored"}
  MaxStray = 1
  MayRaise = TRUE
  MayCrash = TRUE
  Polled = TRUE
SPECIFICATION FairSpec
INVARIANT CountersAgree
 
PROPERTY LifecycleSpec
PROPERTY UploadEnds
CHECK_DEADLOCK FALSE
