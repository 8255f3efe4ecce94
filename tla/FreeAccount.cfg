SPECIFICATION FairSpec
CONSTANTS
  i1 = i1
  i2 = i2
  w1 = w1
  w2 = w2
  Item = {i1, i2}
  Worker = {w1, w2}
  Request = {}
  Token <- Tokens
  None = None
  FreeLimit = 2
  Trials <- OpensFree
  CarriedTotals <- OneCarried
  Events = {"delete", "crash"}
INVARIANT FreeCap
INVARIANT ChargedExactlyOnce
INVARIANT NoFreeRide
PROPERTY ReservationLedger
PROPERTY SlotPoolRefined
PROPERTY NothingHangs
