CONSTANTS
  s1 = s1
  s2 = s2
  s3 = s3
  u1 = u1
  u2 = u2
  Sessions = {s1, s2, s3}
  Users = {u1, u2}
  NoSession = NoSession
  NoUser = NoUser
  MaxFrames = 4
SYMMETRY Symmetry
SPECIFICATION Spec
INVARIANTS
  ShownIsStored
  ShownToItsUser
  ClosedIsForgotten
  FoundUnlessAnotherClosed
PROPERTIES
  FreedForGood
CHECK_DEADLOCK FALSE
