SPECIFICATION FairSpec
CONSTANTS
  None = None
  Browsers <- SomeBrowsers
  MayThrow = {"websocket"}
  ServerCodes = {2010, 3000}
  ClientCodes = {1000}
  MaxBatch = 2
  MaxMessages = 3
INVARIANTS
  TypeOK
  FallbackComplete
PROPERTIES
  ImplementsSocket
  ConnectingEnds
  ClosedComesToRest
CHECK_DEADLOCK FALSE
