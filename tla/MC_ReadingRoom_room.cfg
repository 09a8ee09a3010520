SPECIFICATION FairSpec
CONSTANTS
    Chapters = {c1, c2}
    NoChapter = NoChapter
    Hooks <- OneAtATime
    MaxPlace = 1
    MaxVisits = 2
    MaxMoves = 4
    MaxBeats = 1
    MaxFaults = 1
CHECK_DEADLOCK FALSE
INVARIANTS
    SavedWhereLeft
    OpenWhileRead
PROPERTIES
    EndedStaysEnded
    ReachesTheApi
