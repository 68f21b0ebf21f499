SPECIFICATION LFairSpec
CONSTANTS
  BackendTypes = {loopback}
  Aliases = {carol}
  NoAlias = NoAlias
  NoBackend = NoBackend
  NoNode = NoNode
  RefModulus = 2
  MaxConnects = 2
  MaxWrites = 0
  MaxRefs = 0
  MaxQueue = 3
  MaxThrows = 0
PROPERTIES
  ConnectTriggersCallback
