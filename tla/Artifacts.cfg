SPECIFICATION Spec
CONSTANTS
  a1 = a1
  a2 = a2
  r1 = r1
  Attempt = {a1, a2}
  Runner = {r1}
  Chunks = 2
  Scenarios <- OneKindOfEvent
  None = None
SYMMETRY AttemptSymmetry
INVARIANT LedgerTells
INVARIANT FinishedKept
INVARIANT DeletedLeavesNothing
INVARIANT OneCaller
PROPERTY ResolvedStays
CHECK_DEADLOCK FALSE
