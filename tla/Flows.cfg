SPECIFICATION MCSpec
CONSTANTS
  Participants = {}
  Keys = {}
  Quiz <- FlowQuiz
  LinkedRecheck <- FlowLinks
  ResultVisibility = "leaderboard"
  TimeMode = "flex"
  ScoringMode = "speed"
  MaxVersion = 15
  MaxNow = 0
  MaxInterventions = 2
  Guests = {g1, g2, g3, g4}
  AudienceLimit = 2
  MaxJoinBatch = 2
  MaxElsewhere = 2
  MaxJoinFaults = 1
  Commits = {w1, w2, w3, w4}
  MaxSlots = 2
  Tabs = {t1, t2}
  Unheard = unheard
  Questions = 2
  Cards = 1
  Limit = 1
  MaxTime = 2
  MaxCommands = 2
  MaxTroubles = 1
  Deployments = {d1, d2}
  Checkouts = {c1, c2}
  NumBuilds = 3
  FromClobbered = TRUE
  MaxMishaps = 1
  MaxServices = 1
SYMMETRY Interchangeable
CHECK_DEADLOCK FALSE
INVARIANTS RoundsInv FlowInv OfferedCommandsApply IntakeInv PracticeInv 
PROPERTIES FollowsLifecycle PrimaryLeadsOn
