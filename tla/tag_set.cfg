SPECIFICATION SetSpec
CONSTANTS
  Geometries <- MultiCqGeometries
  MaxNqidBound = 9
  NrCpus = 3
  None = None
  q1 = q1
  q2 = q2
  Qs <- Both
  MapIds = {0, 1, 2, 3, 4, 5, 6, 7, 8, 9}
  HctxIds = {1, 2, 3, 4, 5, 6}
  CpuNode <- MCCpuNode
  Setups <- AllSetups
INVARIANTS
  LayoutCovers
  TablesServe
  NothingFreedIsUsed
  UsersCounted
  NothingLeft
CHECK_DEADLOCK FALSE
