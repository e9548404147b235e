SPECIFICATION FairSpec
CONSTANTS
  None = None
  Kinds = {"xhr", "jsonp", "iframe-xhr", "eventsource", "htmlfile"}
  MaxFrames = 3
  MaxMessages = 3
INVARIANTS
  TypeOK
  StreamIntact
  SendsInOrder
PROPERTIES
  BufferDrains
CHECK_DEADLOCK FALSE
