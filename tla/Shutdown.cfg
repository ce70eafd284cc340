CONSTANTS
  n1 = n1
  w1 = w1
  w2 = w2
  NetThreads = {n1}
  Workers = {w1, w2}
  Main = Main
  Free = Free
  MaxSignals = 3
SPECIFICATION FairSpec
INVARIANTS
  NoLostWakeup
  TestIsNotStale
  ReturnsAlone
PROPERTIES
  SignalEndsProcess
CHECK_DEADLOCK FALSE
