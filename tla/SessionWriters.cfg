SPECIFICATION Spec
CONSTANTS
  h1 = h1  a1 = a1  d1 = d1  j1 = j1
  s1 = s1  s2 = s2
  Servers = {s1, s2}
  HostCommands = {h1}
  Answers = {a1}
  Presence = {d1}
  Joins = {j1}
  Expected <- OneCommand
  NoState = NoState
  NoServer = NoServer
  NoOp = NoOp
  Resent = {h1}
  MaxSends = 2
  MaxReads = 1
  MaxFaults = 2
  MaxMishaps = 2
SYMMETRY Interchangeable
CHECK_DEADLOCK FALSE
INVARIANTS WritersInv FaultlessWorkIsCurrent SnapshotsNeverGoBack RetryIsCanonical
PROPERTIES ImplementsLinearSession
