SPECIFICATION Spec
CONSTANTS
  None = None
  Tools = {x, y}
  K = 2
  Guests = {g}
  L = 2
  MayFail = {"find", "draw", "commit"}
  MaxId = 4
SYMMETRY Symmetry
INVARIANTS
  TypeOK
  AnswersAgree
  SavesReachNoLaterUser
  
CHECK_DEADLOCK FALSE
