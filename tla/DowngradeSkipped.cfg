SPECIFICATION Spec
CONSTANTS
  i1 = i1
  i2 = i2
  w1 = w1
  r1 = r1
  Item = {i1, i2}
  Worker = {w1}
  Request = {r1}
  Token <- Tokens
  None = None
  FreeLimit = 2
  Trials <- OpensOnTrial
  CarriedTotals <- NothingCarried
  Events = {}
SYMMETRY Symmetry
PROPERTY LimitStaysUnlocked
CHECK_DEADLOCK FALSE
