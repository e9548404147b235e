SPECIFICATION Spec
CONSTANTS
  t1 = t1
  t2 = t2
  t3 = t3
  u1 = u1
  u2 = u2
  None = None
  Tasks = {t1, t2}
  Users = {u1}
  Owner <- OwnerSame
  Principals = {}
  Instruments = {a}
  Prices = {1, 2}
  Lots = {1, 2}
  InitialAmount = 2
  Serial = TRUE
  PricesFirst = TRUE
  MayFail = {}
  OrderInsertable = TRUE
  MaxMoves = 2
  MaxListeners = 2
SYMMETRY SameUserSymmetry
INVARIANTS
  ListenersSurvive
  NoShortPosition
