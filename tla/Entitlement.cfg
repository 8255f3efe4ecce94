SPECIFICATION Spec
CONSTANTS
  s1 = s1
  MaxTime = 3
  MaxEvents = 3
  TrialEnd = 3
  ManualComps = {FALSE, TRUE}
  StoreNamed = {TRUE, FALSE}
  Sync = {s1}
INVARIANT DerivedSummary
INVARIANT NewestAppliedWins
INVARIANT TrialNeverResumes
PROPERTY ExpiryLeavesOther
CHECK_DEADLOCK FALSE
