SPECIFICATION Spec
CONSTANTS
  i1 = i1
  w1 = w1
  w2 = w2
  Item = {i1}
  Worker = {w1, w2}
  Request = {}
  Token <- Tokens
  None = None
  FreeLimit = 1
  Trials <- FreeOrTrial
  CarriedTotals <- NothingCarried
  Events = {"delete", "crash"}
SYMMETRY Symmetry
INVARIANT AtMostOneOwner
PROPERTY LiveAttemptKept
CHECK_DEADLOCK FALSE
