SPECIFICATION Spec
CONSTANTS
  None = None
  Page <- PageOne
  Destinations = {"prices", "orders"}
  Characters = {}
  Bodies <- OneBody
  Versions = {"1.1"}
  HeartBeats <- Beating
  OwnHeartBeat <- Own
  OnReceive = "any"
  MaxWire = 1
  MaxIds = 2
  MaxData = 2
  MaxSilence = 0
INVARIANTS
  RoutedRight
CHECK_DEADLOCK FALSE
