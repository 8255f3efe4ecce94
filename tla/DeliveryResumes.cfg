SPECIFICATION FairSpec
CONSTANTS
  p1 = p1
  i1 = i1
  i2 = i2
  Process = {p1}
  Item = {i1, i2}
  Selections = {{i1, i2}, {}}
  Cap = 2
  Due = 1
  Window = 2
  DayEnd = 5
  MaxTime = 4
  MaxAttempts = 3
  MaxCrashes = 2
PROPERTY Resolves
PROPERTY LedgerForward
