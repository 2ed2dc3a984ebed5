SPECIFICATION Spec
CONSTANTS
    Changes <- MCChanges
    MaxEdits = 4
    Faults = {"git", "github", "crash"}
    MaxFaults = 2
INVARIANTS StartsFromOrigin NothingLost
PROPERTY PullRequestKept
