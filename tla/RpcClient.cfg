SPECIFICATION Spec
CONSTANTS
  Transports = {"stdio", "tcp", "ws"}
  Calls = {"c1", "c2"}
  Tasks = {"t1"}
INVARIANTS
  HookSeesNoPendingCall
PROPERTIES
  ExitFailsCalls
  GoneServerStops
  StopEnds
CHECK_DEADLOCK FALSE
