SPECIFICATION Spec
CONSTANTS
  ncq = ncq
  nsq = nsq
  Sqs <- TwoSqs
  HasCq <- NcqOnly
  Depth = 3
  Setups <- SomeSetups
  None = None
INVARIANTS
  PhaseTellsNew
  NoLostBell
  MissedInterruptFound
PROPERTIES
  ImplementsCommands
  EveryCommandCompletes
CHECK_DEADLOCK FALSE
