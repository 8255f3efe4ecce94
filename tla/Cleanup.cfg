SPECIFICATION FairSpec
CONSTANTS
  a1 = a1
  a2 = a2
  r1 = r1
  Attempt = {a1}
  Runner = {r1}
  Chunks = 1
  Scenarios <- CrashesOrStalls
  None = None
PROPERTY EventuallyClean
CHECK_DEADLOCK FALSE
