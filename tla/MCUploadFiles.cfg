\* Three requests for one document, each a POST or a PATCH.
CONSTANTS
  Requests = {r1, r2, r3}
  NoFile = NoFile
SPECIFICATION FilesFairSpec
 
INVARIANT NothingOlderRead
 
PROPERTY RequestsEnd
CHECK_DEADLOCK FALSE
