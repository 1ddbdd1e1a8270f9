SPECIFICATION Spec
CONSTANTS
  a = a
  b = b
  Client = {a, b}
  None = none
  Fd = {1, 2}
  BufLen = 2
  MaxSends <- Sends
  Rec = {r1, r2}
  Listener = listener
\* A server may end or be killed, and clients need not go on.
CHECK_DEADLOCK FALSE
INVARIANTS
  EpollSafe
  EventSafe
  EchoSafe
  LineSafe
PROPERTIES
  FirstComeServed
  EpollServes
  EventServes
  EchoServes
  LineServes
