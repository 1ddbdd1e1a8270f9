SPECIFICATION FairSpec
CONSTANTS
  Message = {blank, hi, load, quit}
  None = none
  Cap = 2
  VectorSize = {1, 2}
  Ip = {1, 2}
  Port = {p, q}
  NoPort = noport
  Quits = {quit}
  Loads = {load}
  Blank = blank
  KeyMax = 2
  MaxDatagrams = 4
CHECK_DEADLOCK FALSE
INVARIANTS
  ServerSafe
  ReplayIsLatest
  OneReceiver
PROPERTIES
  ImplementsBoundedQueue
  WedgedForever
  ThreadsGoOn
