SPECIFICATION FairSpec
CONSTANTS
  s1 = s1
  r1 = r1
  q1 = q1
  Source = {s1}
  Runner = {r1}
  Request = {q1}
  MaxRequests = 2
  Scenarios <- EventsTogether
  None = None
INVARIANT GraceKept
INVARIANT CountedIsErased
INVARIANT UploadsCarryOver
PROPERTY ErasedInOrder
PROPERTY ErasureEnds
CHECK_DEADLOCK FALSE
