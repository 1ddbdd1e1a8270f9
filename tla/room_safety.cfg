SPECIFICATION Spec
SYMMETRY Symmetry
CONSTANTS
  Client = {a, b, c, d}
  None = none
  UserLimit = 3
  Fd = {1, 2, 3, 4}
  StackContent <- Stack
  MaxLines = 2
  MaxFailures = 1
CHECK_DEADLOCK FALSE
INVARIANTS
  RoomIsConnections
  LatestReachesAll
  NothingStale
  NeverKilled
