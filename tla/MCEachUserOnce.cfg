SPECIFICATION FairSpec
CONSTANTS
  t1 = t1
  t2 = t2
  t3 = t3
  u1 = u1
  u2 = u2
  None = None
  Tasks = {t1, t2}
  Users = {u1, u2}
  Owner <- OwnerEach
  Principals = {t1}
  Instruments = {a}
  Prices = {1, 2}
  Lots = {1}
  InitialAmount = 1
  Serial = FALSE
  PricesFirst = FALSE
  MayFail = {"find", "commit", "load", "poll", "read", "ask", "store", "apply"}
  OrderInsertable = TRUE
  MaxMoves = 2
  MaxListeners = 2
INVARIANTS
  TypeOK
  PositionMatchesOrders
  ShownIsStored
PROPERTIES
  TradingComesToRest
  ReferenceFollowsTrades
CHECK_DEADLOCK FALSE
