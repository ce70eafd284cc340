CONSTANTS
  Payload = {1, 2}
  MaxSends = 3
SPECIFICATION FairSpec
INVARIANTS
  OneWriteOfTheFront
  FailedWriteBlocksQueue
  Conserved
  BoundIsAlive
PROPERTIES
  ImplementsChannel
  PostedIsWritten
  DeadPeerIsFreed
CHECK_DEADLOCK FALSE
