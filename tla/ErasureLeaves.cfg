SPECIFICATION Spec
CONSTANTS
  s1 = s1
  r1 = r1
  q1 = q1
  Source = {s1}
  Runner = {r1}
  Request = {q1}
  MaxRequests = 1
  Scenarios <- EventsTogether
  None = None
INVARIANT ErasedIsGone
CHECK_DEADLOCK FALSE
