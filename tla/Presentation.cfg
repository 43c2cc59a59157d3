SPECIFICATION MCSpec
CONSTANTS
    None = None
    host = host
    companion = companion
    Scenes = {"faults", "rivals", "two_keys", "deadline", "link", "order", "readings"}
    Decks <- MCDecks
    Insertion <- MCInsertion
    Participants = {me, other}
    ParticipantLimit = 2
    TimeLimit = 1
    LiveExpiresAt = 3
    MaxTime = 3
    Windows = {host, companion}
    Offers <- MCOffers
    MaxTries = 2
    MaxFaults = 1
    MaxPassChanges = 2
    Me = me
    k1 = k1
    k2 = k2
    Keys = {k1, k2}
    ReadAttempts = 2
    MaxMail = 1
INVARIANTS PresentationInv AnswersAreTimely SavesAreTrue SnapshotsAreExact
PROPERTIES ViewNeverGoesBack
\* every actor may have finished
CHECK_DEADLOCK FALSE
