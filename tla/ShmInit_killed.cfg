SPECIFICATION FairSpec
CONSTANTS
  Procs = {p1, p2, p3}
  None = None
  MaxKilled = 2
INVARIANTS
  TypeOK
  NotHeldUpByTheDead
  LeftLockedByKilled
PROPERTIES
  InitEnds
