CONSTANTS
  w1 = w1
  w2 = w2
  Workers = {w1, w2}
  Capacity = 1
  Order <- Downstream
  MaxSessions = 2
  MaxFrames = 2
  ClientFrames <- Monologue
SPECIFICATION Spec
PROPERTIES
  FailedPersistIsSurvived
CHECK_DEADLOCK FALSE
