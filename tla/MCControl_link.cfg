SPECIFICATION Spec
CONSTANTS
  PingLoop = PingLoop
  Handler1 = Handler1
  Handler2 = Handler2
  Writers <- MCWriters
  Pinger = PingLoop
  Batches <- MCBatches
  PingBatch <- MCPing
  Capacity = 2
  Limit = 7
  MaxSends = 3
  None = None
INVARIANTS TypeOK Ordered Whole
PROPERTIES SendReturns
CHECK_DEADLOCK FALSE
