SPECIFICATION Spec
SYMMETRY Symmetry
CONSTANTS
  Client = {a, b, c}
  None = none
  UserLimit = 3
  Fd = {1, 2, 3}
  StackContent <- Stack
  MaxLines = 2
  MaxFailures = 0
CHECK_DEADLOCK FALSE
INVARIANTS
  EveryoneIsTold
