SPECIFICATION Spec
CONSTANTS
  BackendTypes = {b1, b2}
  Aliases = {}
  NoAlias = NoAlias
  NoBackend = NoBackend
  NoNode = NoNode
  RefModulus = 2
  MaxConnects = 1
  MaxWrites = 1
  MaxRefs = 1
  MaxQueue = 2
  MaxThrows = 1
SYMMETRY BackendSymmetry
INVARIANTS
  TypeOK
  AvailBeforeUnavail
  NoStaleStop
  StopsAccounted
PROPERTIES
  DetachedDrains
  NothingLost
  CleanRunWaits
