CONSTANTS
  w1 = w1
  n1 = n1
  n2 = n2
  c1 = c1
  c2 = c2
  Workers = {w1}
  NetThreads = {n1, n2}
  Clients = {c1, c2}
  Nobody = Nobody
  PoolSize = 2
  WordSize = 4
  MaxAcquires = 3
  Requests = {"register", "login", "bearer", "bare", "no_token", "user", "history",
              "post_message", "unknown", "bad_login", "bad_user", "bad_history"}
  Words <- MCWords
  UserIds <- MCUserIds
SPECIFICATION HttpSpec
INVARIANTS
  NetworkThreadsDoNotStore
CHECK_DEADLOCK FALSE
