SPECIFICATION Spec
CONSTANTS
  p1 = p1
  p2 = p2
  i1 = i1
  i2 = i2
  Process = {p1, p2}
  Item = {i1, i2}
  Selections = {{i1}, {}}
  Cap = 1
  Due = 1
  Window = 0
  DayEnd = 3
  MaxTime = 2
  MaxAttempts = 3
  MaxCrashes = 1
SYMMETRY Symmetry
INVARIANT AnnouncesWritten
INVARIANT CompletedIsDelivered
