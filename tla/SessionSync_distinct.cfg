SPECIFICATION Spec
CONSTANTS
  Sessions = {s1, s2}
  ClockAdvances = TRUE
  MaxNodes = 3
SYMMETRY SessionSymmetry
CHECK_DEADLOCK FALSE
INVARIANTS
  TypeOK
  NoBusySend
  NoneSkipped
  OneAnnouncement
PROPERTIES
  AvailableIsIdle
  ImplementsNodeSync
