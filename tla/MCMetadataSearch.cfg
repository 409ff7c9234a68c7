SPECIFICATION Spec
CONSTANTS
  c1 = c1
  c2 = c2
  Collections <- MCCollections
  Requests <- MCRequests
  Metadata <- MCMetadata
  FileName <- MCFileName
  Filters <- MCFilters
  MaxString = 4
  MaxArray = 2
  DaySeconds = 4
  Offset = 1
  NumeralDay <- MCNumeralDay
  MaxDepth = 2
  MaxClauses = 4
INVARIANT OwnValueFound
INVARIANT OppositesExclude
INVARIANT DaysPartition
INVARIANT BackendsAgree
CHECK_DEADLOCK FALSE
