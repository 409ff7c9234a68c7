\* One ingestor process, three jobs, one slot; one error and one restart.
CONSTANTS
  i1 = i1
  j1 = j1
  j2 = j2
  j3 = j3
  Instances = {i1}
  Jobs = {j1, j2, j3}
  InstanceOf <- OneProcess
  MaxParallel = 1
  LocalPermits = 2
  MaxFaults = 1
  MaxCrashes = 1
SPECIFICATION FairSpec
INVARIANT CounterCoversClaims
PROPERTY EveryJobServed
PROPERTY LimiterSpec
CHECK_DEADLOCK FALSE
