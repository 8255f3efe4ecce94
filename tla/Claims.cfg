SPECIFICATION Spec
CONSTANTS
  w1 = w1
  w2 = w2
  w3 = w3
  s1 = s1
  s2 = s2
  b1 = b1
  b2 = b2
  t1 = t1
  None = None
  Gone = Gone
  Worker = {w1, w2, w3}
  Story = {s1, s2}
  Wisdom = {b1, b2}
  Turn = {t1}
  Dimension = {"depth", "confidence"}
  Portions = 2
  Cap = 1
  Workloads <- OneKindAtATime
  Timeliness <- InTimeOrNot
SYMMETRY Symmetry
INVARIANT AnswersAgree
INVARIANT QuestionsFit
INVARIANT OneGenerator
INVARIANT CapOvershoot
PROPERTY SlotsRefined
PROPERTY ProgressInTime
CHECK_DEADLOCK FALSE
