\* Two files in one batch or two, both backends, shallow summaries or not, readers that wait and that do not, an error of Redis.
CONSTANTS
  Files = {1, 2}
  Batchings <- MCBatchings
  Backends = {"nvingest", "nrl"}
  MaxFaults = 1
SPECIFICATION FairSpec
INVARIANT SuccessIsBacked
INVARIANT StatusTellsOutcome
PROPERTY EveryJobReported
PROPERTY WaitersAnswered
CHECK_DEADLOCK FALSE
