CONSTANTS
  w1 = w1
  w2 = w2
  n1 = n1
  Workers = {w1, w2}
  NetThreads = {n1}
  PoolSize = 2
  WordSize = 4
  MaxAcquires = 7
SPECIFICATION Spec
INVARIANTS
  SharedOnlyAfterFullRound
  ThrowsOnlyAfterFullRound
CHECK_DEADLOCK FALSE
