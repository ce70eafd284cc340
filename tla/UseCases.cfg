CONSTANTS
  n1 = n1
  n2 = n2
  h1 = h1
  h2 = h2
  c1 = c1
  c2 = c2
  None = None
  Names = {n1, n2}
  Hashes = {h1, h2}
  Chats = {c1, c2}
  Limits = {1, 2}
  MaxCalls = 3
  Mixes = {{"register", "login"}, {"create_chat", "send_message", "history"}}
SPECIFICATION Spec
INVARIANTS
  DuplicatesOverlapped
  AnswersAreTrue
  RegisteredCanLogin
  SentIsListed
  ListedInOrder
CHECK_DEADLOCK FALSE
