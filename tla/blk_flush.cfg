SPECIFICATION Spec
CONSTANTS
  r1 = r1
  r2 = r2
  r3 = r3
  fa = fa
  fb = fb
  w1 = w1
  w2 = w2
  Rqs <- ThreeRqs
  Fqs <- TwoFqs
  FqOf <- MostlyOneFq
  Walkers <- TwoWalkers
  Setups <- SomeSetups
  None = None
INVARIANTS
  ListsKeepApart
  WalkedFlushStays
  EndedIsDurable
PROPERTIES
  EveryFlushEnds
CHECK_DEADLOCK FALSE
