SPECIFICATION FairSpec
CONSTANTS
  Calls = {plain, awaitable}
  AsyncCalls = {awaitable}
  Answers = {"result", "error", "malformed"}
  MaxAnswers = 2
INVARIANTS
  OutstandingIsRegistered
PROPERTIES
  FutureResolves
CHECK_DEADLOCK FALSE
