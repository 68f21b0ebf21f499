SPECIFICATION Spec
CONSTANTS
  Sessions = {s1, s2}
  ClockAdvances = FALSE
  MaxNodes = 3
SYMMETRY SessionSymmetry
CHECK_DEADLOCK FALSE
INVARIANTS
  NoneSkipped
