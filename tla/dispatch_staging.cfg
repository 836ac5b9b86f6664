SPECIFICATION FairSpec
CONSTANTS
  r1 = r1
  r2 = r2
  r3 = r3
  t1 = t1
  t2 = t2
  q1 = q1
  q2 = q2
  Cpus <- MCCpus
  Requests = {r1, r2, r3}
  Threads = {t1, t2}
  Quiescers = {q1, q2}
  Setups <- SomeSetups
  None = None
PROPERTY EveryRequestCompletes
CHECK_DEADLOCK FALSE
