CONSTANTS
  w1 = w1
  w2 = w2
  Workers = {w1, w2}
  Capacity = 1
  Order <- Upstream
  MaxSessions = 1
  MaxFrames = 2
  ClientFrames <- Monologue
SPECIFICATION FairSpec
PROPERTIES
  DeliveredIsStored
CHECK_DEADLOCK FALSE
