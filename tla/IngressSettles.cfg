SPECIFICATION FairSpec
CONSTANTS
  Servers = {s1}
  Participants = {p1, p2}
  Answering = {p1}
  HostCommands = {h1, h2}
  AutoLocks = {d1}
  Never = Never
  Nobody = Nobody
  BatchWindow = 1
  MaxBatchWait = 3
  MaxBatchSize = 2
  LockDelay = 2
  FirstDeadline = 1
  MaxTime = 3
  MaxAhead = 0
  MaxFaults = 1
  MaxLoads = 0
  MaxMishaps = 1
PROPERTIES
  IngressSettles
  
CHECK_DEADLOCK FALSE
