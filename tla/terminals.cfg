SPECIFICATION MCSpec
CONSTANTS
  PtrSize = 8
  CounterMod = 2
  MaxFrames = 2
  MaxLines = 2
  User = {u1, u2}
  Nobody = nobody
  OutRows = 3
  ListRows = 3
  HeadCols = 1
  MaxFlight = 2
  MaxTexts = 2
  MaxKeys = 2
  Operator = {o1, o2}
  Pid = {1, 2}
  MaxBody = 2
\* The programs end, and a script or a read may wait for ever.
CHECK_DEADLOCK FALSE
INVARIANTS
  SniffSafe
  UdpClientSafe
  ChatSafe
  ScriptSafe
  PageSafe
PROPERTIES
  SniffServes
  GoneIsForgotten
  ChatServes
  PageComes
