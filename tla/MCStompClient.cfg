SPECIFICATION Spec
CONSTANTS
  None = None
  Page <- PageOne
  Destinations = {"prices", "orders"}
  Characters <- SomeCharacters
  Bodies <- SomeBodies
  Versions = {"1.0", "1.1"}
  HeartBeats <- SomeBeats
  OwnHeartBeat <- Own
  OnReceive = None
  MaxWire = 0
  MaxIds = 2
  MaxData = 3
  MaxSilence = 0
INVARIANTS
  TypeOK
  FramesIntact
  LossTold
CHECK_DEADLOCK FALSE
