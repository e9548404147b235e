SPECIFICATION FairSpec
CONSTANTS
  t1 = t1
  t2 = t2
  t3 = t3
  u1 = u1
  u2 = u2
  None = None
  Tasks = {t1}
  Users = {u1}
  Owner <- OwnerLone
  Principals = {t1}
  Instruments = {a, b}
  Prices = {1, 2, 3}
  Lots = {1}
  InitialAmount = 1
  Serial = FALSE
  PricesFirst = FALSE
  MayFail = {"ask", "apply"}
  OrderInsertable = TRUE
  MaxMoves = 2
  MaxListeners = 1
PROPERTIES
  ReferenceFollowsTrades
  FallIsBought
  RiseIsSold
  MissingReferenceStops
CHECK_DEADLOCK FALSE
