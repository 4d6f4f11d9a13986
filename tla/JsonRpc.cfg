SPECIFICATION Spec
CONSTANTS
  Requests = {r1}
  Notifications = {exit_n}
  Shutdown = shutdown_id
  Exit = exit_n
  HandlerKinds = {"sync", "async", "thread", "generator"}
  SubKinds = {"none", "sync", "async", "thread"}
  ShutdownKinds = {"none", "sync", "async", "thread"}
  ExitKinds = {"none", "sync", "async", "thread"}
  MaxWorkers = 2
INVARIANTS
  TypeOK
  AtMostOneReply
  AnsweredIsDeregistered
  CancelledOnlyIfAsked
  NoOrphanedGenerator
  ShutdownIsComplete
PROPERTIES
  NoStartAfterShutdown
CHECK_DEADLOCK FALSE
