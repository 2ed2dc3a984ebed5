SPECIFICATION AuditSpec
CONSTANTS
    Callers = {c1, c2}
    Kinds <- MCKinds
    MaxMajor = 1
    MaxTimeline = 1
    MaxEvents = 4
    MaxDeletes = 1
    AuditFaults <- MCFaults
    MaxAuditFaults = 1
INVARIANTS EntriesKept DrawnIsSaved OnePerTicket
CHECK_DEADLOCK TRUE
