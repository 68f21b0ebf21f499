SPECIFICATION FairSpec
CONSTANTS
  Procs = {p1, p2, p3}
  None = None
  StackDepth = 3
INVARIANTS
  TypeOK
  OneSurvivor
  RoleOrRetry
PROPERTIES
  LeavesOnlyTheDead
  EveryWorkerDies
