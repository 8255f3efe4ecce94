SPECIFICATION CutoverSpec
CONSTANTS
  i1 = i1
  i2 = i2
  w1 = w1
  q1 = q1
  r1 = r1
  r2 = r2
  Item = {i1, i2}
  Worker = {w1}
  Request = {q1}
  Runner = {r1, r2}
  Token <- Tokens
  None = None
  FreeLimit = 2
  Trials <- OpensOnTrial
  CarriedTotals <- NoneOrOne
  Events = {"delete", "crash", "purchase"}
  Scenarios <- Releases
SYMMETRY Symmetry
INVARIANT NeverUndercharged
INVARIANT ChargedExactlyOnce
INVARIANT CappedReconciliation
INVARIANT FencedUntilAccounted
INVARIANT FencedIsQueued
PROPERTY DowngradeSettles
INVARIANT CutoverTypeOK
