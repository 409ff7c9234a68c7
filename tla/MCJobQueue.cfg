\* Two uploads; the API process (role all) and a second worker; two failures
\* and a death.
CONSTANTS
  api = api
  worker = worker
  j1 = j1
  j2 = j2
  None = None
  Jobs <- JobPair
  Procs <- Two
  Api = api
  Workers <- Two
  MaxFaults = 2
  MaxDeaths = 1
SPECIFICATION FairSpec
INVARIANT ExecutedOnce
INVARIANT AgreesWithDir
PROPERTY StatusForward
PROPERTY QueueSpec
PROPERTY EveryJobEnds
CHECK_DEADLOCK FALSE
