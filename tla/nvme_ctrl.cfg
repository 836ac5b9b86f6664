SPECIFICATION Spec
CONSTANTS
  r1 = r1
  Reqs <- OneReq
  Setups <- SomeSetups
  None = None
INVARIANTS
  NothingBroken
  QueuesAgree
  FreezesBalance
  HostMemOwned
PROPERTIES
  ResetEnds
  EveryRequestEnds
CHECK_DEADLOCK FALSE
