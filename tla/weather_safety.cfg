SPECIFICATION Spec
SYMMETRY Symmetry
CONSTANTS
  Registrant = {a, b, c}
  Pusher = {p}
  None = none
  MaxUsers = 3
  MaxDays = 2
  MaxCrawls = 2
CHECK_DEADLOCK FALSE
INVARIANTS
  DatesThere
  HolesHaveOwners
  PushComplete
