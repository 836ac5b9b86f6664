SPECIFICATION Spec
CONSTANTS
  t1 = t1
  t2 = t2
  t3 = t3
  f1 = f1
  f2 = f2
  Hctxs <- ThreeHctxs
  TagsOf <- ThreeTags
  Depth = 2
  Tasks <- ThreeTasks
  Worker = worker
  Freezers <- TwoFreezers
  Setups <- SomeSetups
  None = None
INVARIANTS
  RefsBalance
  HeldKeepsTag
  DrainsLeaveNone
PROPERTIES
  TimedOutWasSubmitted
  EveryTaskProceeds
  EveryWaitEnds
CHECK_DEADLOCK FALSE
