SPECIFICATION FairSpec
CONSTANTS
  BackendTypes = {b1}
  Aliases = {carol}
  NoAlias = NoAlias
  NoBackend = NoBackend
  NoNode = NoNode
  RefModulus = 3
  MaxConnects = 2
  MaxWrites = 0
  MaxRefs = 3
  MaxQueue = 2
  MaxThrows = 1
INVARIANTS
  RowsUnique
PROPERTIES
  PurgeFollowsReferences
  Delivered
  DetachCompletes
