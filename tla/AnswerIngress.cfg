SPECIFICATION Spec
CONSTANTS
  Servers = {s1}
  Participants = {p1, p2}
  Answering = {p1, p2}
  HostCommands = {h1, h2}
  AutoLocks = {d1}
  Never = Never
  Nobody = Nobody
  BatchWindow = 1
  MaxBatchWait = 3
  MaxBatchSize = 2
  LockDelay = 2
  FirstDeadline = 1
  MaxTime = 3
  MaxAhead = 0
  MaxFaults = 1
  MaxLoads = 1
  MaxMishaps = 1
INVARIANTS
  IngressInv
  
CHECK_DEADLOCK FALSE
SYMMETRY Symmetry
