SPECIFICATION FairSpec
CONSTANTS
  NTasks = 3
  Threads = {t1, t2, t3}
  MaxThread = 1
  CreateMayFail = FALSE
PROPERTY
  DestroyReturns
