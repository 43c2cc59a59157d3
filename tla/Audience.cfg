SPECIFICATION MCSpec
CONSTANTS
  MaxRequests = 3
  Speakers = {s1}
  Nobody = Nobody
  Quota = 2
  MaxRetries = 1
  MaxSeq = 3
  MaxTrouble = 1
  Parts = {x, y}
  Attempts = 2
  MaxEdits = 2
  MaxTurns = 3

  
  
PROPERTY
  EnvelopesNeverGoBack
CHECK_DEADLOCK FALSE
