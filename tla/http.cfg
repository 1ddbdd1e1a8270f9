SPECIFICATION FairSpec
CONSTANTS
  Client = {a, b}
  Length = 1
  MaxFailures = 1
CHECK_DEADLOCK FALSE
INVARIANTS
  
  KilledFromOutside
PROPERTIES
  CallsInOrder
  RequestsEnd
