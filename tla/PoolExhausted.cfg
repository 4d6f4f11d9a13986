SPECIFICATION FairSpec
CONSTANTS
  Handlers = {h1, h2, h3}
  Read = read
  MaxWorkers = 3
PROPERTY
  BlockingHandlersEnd
CHECK_DEADLOCK FALSE
