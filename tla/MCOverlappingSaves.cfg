SPECIFICATION FairSpec
CONSTANTS
  t1 = t1
  t2 = t2
  t3 = t3
  u1 = u1
  u2 = u2
  None = None
  Tasks = {t1, t2, t3}
  Users = {u1}
  Owner <- OwnerThree
  Principals = {t1}
  Instruments = {a}
  Prices = {1, 2}
  Lots = {1}
  InitialAmount = 2
  Serial = FALSE
  PricesFirst = FALSE
  MayFail = {}
  OrderInsertable = FALSE
  MaxMoves = 1
  MaxListeners = 1
INVARIANTS
  RefusedOrderLeavesPosition
PROPERTIES
  DuplicateStopsListeners
CHECK_DEADLOCK FALSE
