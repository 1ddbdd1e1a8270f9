SPECIFICATION Spec
CONSTANTS
  Registrant = {a, b}
  Pusher = {p}
  None = none
  MaxUsers = 2
  MaxDays = 1
  MaxCrawls = 1
CHECK_DEADLOCK FALSE
INVARIANTS
  RegisteredForGood
