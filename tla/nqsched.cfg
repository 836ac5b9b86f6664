SPECIFICATION FairSpec
CONSTANTS
  Callers = {c1, c2}
  Groups = {0}
  MaxNqid = 5
  NrCqs = 2
  Nqs <- MCNqs
  Arrays <- MCArrays
  NcqArray <- MCNcqArray
  NsqArray <- MCNsqArray
  InitHeap <- MCInitHeap
  Kinds = {"init", "update"}
  Mru = 4
  MruFloor = 0
  Stats = {0, 1}
  AlphaNumer = 4
  AlphaDenom = 5
  None = None
INVARIANTS
  HeapIntact
  IInv
PROPERTIES
  ImplementsMru
  SpentIsRefilled
CHECK_DEADLOCK FALSE
