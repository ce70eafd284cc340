CONSTANTS
  w1 = w1
  w2 = w2
  Workers = {w1, w2}
  Capacity = 1
  Order <- Upstream
  MaxSessions = 1
  MaxFrames = 2
  ClientFrames <- OneClient
SPECIFICATION FairSpec
INVARIANTS
  AtHome
PROPERTIES
  ImplementsLife
  StillAfterStop
  EventuallySettled
  StopReturns
CHECK_DEADLOCK FALSE
