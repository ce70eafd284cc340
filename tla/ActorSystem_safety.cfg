CONSTANTS
  w1 = w1
  w2 = w2
  Workers = {w1, w2}
  Capacity = 1
  Order <- Downstream
  MaxSessions = 2
  MaxFrames = 2
  ClientFrames <- Conversation
SYMMETRY WorkerSymmetry
SPECIFICATION Spec
INVARIANTS
  StoredExactlyOnceOrRefused
  ShownAtMostOnce
  ToldAfterHandedToStorage
  PostedToTheRightSession
  EchoedUnlessBroken
PROPERTIES
  UnboundForGood
CHECK_DEADLOCK FALSE
