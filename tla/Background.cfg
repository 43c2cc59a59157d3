SPECIFICATION MCSpec
CONSTANTS
  Workers = {w1, w2}
  NoReport = NoReport
  MaxAttempts = 5
  MaxRequests = 2
  MaxCrashes = 2
  Authors = {w1, w2}
  Generations = 3
  MaxQuizzes = 2
  MaxLost = 2
  Reporters = {w1, w2}
  ReportAttempts = 5
  MaxStalls = 3
  p1 = p1
  p2 = p2
  s1 = s1
  Servers = {p1, p2}
  Sockets = {s1}
  Home <- MCHome
  MaxChanges = 2
  MaxMishaps = 1
  Processes = {p1, p2}
  Serving = {p1}
  MaxEvents = 2
  MaxFaults = 1
INVARIANTS
  JobsInv
  ActivitiesInv
PROPERTIES
  ReportIsLeased
  OtherJobsAreLeased
  BackgroundSettles
CHECK_DEADLOCK FALSE
