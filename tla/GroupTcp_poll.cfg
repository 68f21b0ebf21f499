SPECIFICATION TFairSpec
CONSTANTS
  BackendTypes = {tcp}
  Tcp = tcp
  Sessions = {s1, s2}
  ClockAdvances = TRUE
  Aliases = {carol}
  NoAlias = NoAlias
  NoBackend = NoBackend
  NoNode = NoNode
  RefModulus = 2
  MaxConnects = 2
  MaxWrites = 1
  MaxRefs = 0
  MaxQueue = 1
  MaxThrows = 1
INVARIANTS
  TTypeOK
  OneReaderListens
PROPERTIES
  ImplementsSessionSync
  ImplementsNodeSync
  OnlyFreshNodesTold
  QueuedSyncsRun
