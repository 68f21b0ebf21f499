SPECIFICATION Spec
CONSTANTS
  Procs = {p1, p2}
  None = None
  MaxKilled = 0
SYMMETRY ProcSymmetry
INVARIANTS
  NoOtherProcess
