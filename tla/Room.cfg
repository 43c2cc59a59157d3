SPECIFICATION Spec
CONSTANTS
  Participants = {1, 2}
  Keys = {k1, k2, k3}
  Quiz <- TwoQuestions
  ResultVisibility = "leaderboard"
  TimeMode = "timed"
  ScoringMode = "speed"
  MaxVersion = 8
  MaxNow = 3
  MaxInterventions = 1
SYMMETRY Interchangeable
CHECK_DEADLOCK FALSE
INVARIANTS EngineInv TimingInv AcceptedWhileOpen StandingsInv 
 
