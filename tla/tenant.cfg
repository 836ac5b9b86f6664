SPECIFICATION Spec
CONSTANTS
  t1 = t1
  t2 = t2
  t3 = t3
  s1 = s1
  s2 = s2
  Tasks = {t1, t2, t3}
  Setters = {s1, s2}
  Setups <- SomeSetups
  Magnitude = 2
  None = None
SYMMETRY Sharers
INVARIANTS
  MapsCountTasks
  NeverUndercounted
  PriorityRespected
  OutlierHasNq
CHECK_DEADLOCK FALSE
