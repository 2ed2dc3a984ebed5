SPECIFICATION RunSpec
CONSTANTS
    Elements <- MCElements
    Place <- MCPlace
    Values <- MCValues
    Versions <- MCVersions
    Mutable <- MCMutable
    Bases <- MCBases
    MaxEdits = 3
    MaxRounds = 1
    MaxFaults = 1
INVARIANTS
    PublishedIsSafe
    DropIsExact
    CommentIsTrue
    PagesAreFair
CHECK_DEADLOCK FALSE
