CONSTANTS
  w1 = w1
  Workers = {w1}
  Capacity = 2
  Order <- Upstream
  MaxSessions = 2
  MaxFrames = 3
  ClientFrames <- Interrupted
SPECIFICATION Spec
INVARIANTS
  SingleWorkerInOrder
CHECK_DEADLOCK FALSE
