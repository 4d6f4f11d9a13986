SPECIFICATION Spec
CONSTANTS
  Requests = {r1}
  Notifications = {n1, exit_n}
  Shutdown = shutdown_id
  Exit = exit_n
  HandlerKinds = {"generator"}
  SubKinds = {"async"}
  ShutdownKinds = {"none"}
  ExitKinds = {"none"}
  MaxWorkers = 1
INVARIANT
  ShutdownSucceeds
CHECK_DEADLOCK FALSE
