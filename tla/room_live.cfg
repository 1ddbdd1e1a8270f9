SPECIFICATION FairSpec
CONSTANTS
  Client = {a, b}
  None = none
  UserLimit = 2
  Fd = {1, 2}
  StackContent <- Stack
  MaxLines = 3
  MaxFailures = 1
CHECK_DEADLOCK FALSE
PROPERTIES
  RoomServes
