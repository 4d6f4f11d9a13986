SPECIFICATION FairSpec
CONSTANTS
  Requests = {r1}
  Notifications = {n1, exit_n}
  Shutdown = shutdown_id
  Exit = exit_n
  HandlerKinds = {"async", "thread", "generator"}
  SubKinds = {"async", "thread"}
  ShutdownKinds = {"none"}
  ExitKinds = {"none"}
  MaxWorkers = 1
PROPERTIES
  ImplementsContract
CHECK_DEADLOCK FALSE
