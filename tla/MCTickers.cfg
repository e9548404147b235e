SPECIFICATION Spec
CONSTANTS
  a = a
  b = b
  None = None
  Instruments = {a, b}
  Base <- BaseTwo
  MaxDiff = 2
  Period <- PeriodTwo
  Requests = {r}
  MaxChanges = 2
INVARIANTS
  TypeOK
  BackToBase
  AnswerFresh
  ChangeAnnounced
CHECK_DEADLOCK FALSE
