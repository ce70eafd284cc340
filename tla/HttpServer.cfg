CONSTANTS
  w1 = w1
  n1 = n1
  n2 = n2
  c1 = c1
  c2 = c2
  Workers = {w1}
  NetThreads = {n1, n2}
  Clients = {c1, c2}
  Nobody = Nobody
  PoolSize = 2
  WordSize = 4
  MaxAcquires = 3
  Requests = {"login", "bearer", "bare", "history", "post_message", "bad_history"}
  Words <- MCWords
  UserIds <- MCUserIds
SPECIFICATION HttpFairSpec
INVARIANTS
  AnswersItsRequest
  TokenNamesUser
  RefreshIsGranted
  OneThreadPerSession
PROPERTIES
  HistoryIsAnswered
CHECK_DEADLOCK FALSE
