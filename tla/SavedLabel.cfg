SPECIFICATION EditorSpec
CONSTANTS
  Parts = {x}
  Attempts = 2
  MaxEdits = 2
  MaxTurns = 0
INVARIANT SavedIsSaved
CHECK_DEADLOCK FALSE
