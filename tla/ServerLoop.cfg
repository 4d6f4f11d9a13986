SPECIFICATION FairSpec
CONSTANTS
  Transports = {"stdio", "wasm", "tcp", "ws"}
  ExitKinds = {"none", "sync", "async", "thread"}
  MaxMessages = 2
INVARIANTS
  DecodedInOrder
PROPERTIES
  LostConnectionEnds
  ExitOnMainStops
CHECK_DEADLOCK FALSE
