SPECIFICATION FairSpec
CONSTANTS
    Tickets = {t1}
    MaxRetriage = 2
    MaxCount = 3
    MaxTime = 2
    MaxActs = 3
    MaxFaults = 2
    Faults = {"search", "look", "check", "label", "lost", "note", "groom", "posted", "crash"}
INVARIANTS
    SpendBounded
    AskedOnce
PROPERTIES
    AnswersAreRead
    ClosedIsLetGo
CHECK_DEADLOCK FALSE
