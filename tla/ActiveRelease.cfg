SPECIFICATION DeploySpec
CONSTANTS
  Deployments = {d1, d2}
  Checkouts = {c1, c2}
  NumBuilds = 2
  FromClobbered = FALSE
  MaxMishaps = 0
  MaxServices = 0
CHECK_DEADLOCK FALSE
INVARIANTS ActiveReleaseIsKept
