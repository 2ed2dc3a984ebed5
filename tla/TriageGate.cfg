SPECIFICATION Spec
CONSTANTS
    Payloads <- MCPayloads
    MaxRounds = 2
    MaxEdits = 1
    MaxFaults = 1
INVARIANT NoteAgrees
PROPERTIES GrantIsEarned BoardIsKept CallReachesBoard
CHECK_DEADLOCK FALSE
