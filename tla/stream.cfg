SPECIFICATION StreamSpec
CONSTANTS
  QueueDepth = 2
  MaxChunks = 4
  Limit = 3
INVARIANTS WholeOrRefused
PROPERTIES WorkerStops
CHECK_DEADLOCK FALSE
