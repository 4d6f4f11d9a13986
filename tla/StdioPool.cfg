SPECIFICATION FairSpec
CONSTANTS
  Handlers = {h1, h2, h3}
  Read = read
  MaxWorkers = 4
PROPERTIES
  BlockingHandlersEnd
CHECK_DEADLOCK FALSE
