SPECIFICATION FairSpec
CONSTANTS
  None = None
  Page <- PageOne
  Destinations = {"prices"}
  Characters = {}
  Bodies = {}
  Versions = {"1.1"}
  HeartBeats <- Beating
  OwnHeartBeat <- Own
  OnReceive = None
  MaxWire = 0
  MaxIds = 1
  MaxData = 2
  MaxSilence = 3
PROPERTIES
  SilenceIsNoticed
CHECK_DEADLOCK FALSE
