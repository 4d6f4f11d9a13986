SPECIFICATION FairProgress
CONSTANTS
  create = create
  create_async = create_async
  claimed = claimed
  supplied = supplied
  again = again
  t1 = t1
  t2 = t2
  Tasks = {create, create_async, claimed, supplied, again}
  Tokens = {t1, t2}
  TokenOf <- MCTokenOf
  Supplied = {claimed, supplied, again}
  Coroutines = {create_async, supplied}
INVARIANTS
  CancelSticks
PROPERTIES
  CancelStopsWork
CHECK_DEADLOCK FALSE
