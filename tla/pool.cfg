SPECIFICATION FairSpec
CONSTANTS
  NTasks = 4
  Threads = {t1, t2, t3, t4}
  MaxThread = 3
  CreateMayFail = TRUE
INVARIANTS
  PoolSafe
  LossesExplained
PROPERTIES
  ImplementsTaskPool
  PoolServes
