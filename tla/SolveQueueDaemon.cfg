SPECIFICATION Spec
CONSTANTS
  t1 = t1
  t2 = t2
  d = d
  c = c
  Tickets <- TwoTickets
  Allowed <- TwoTickets
  Runners <- Daemon
  Daemons <- Daemon
  Authority = "manual"
  MaxConcurrent = 1
  MaxAttempts = 2
  Powers = {"mention", "hand", "pr", "stop"}
  MaxEdits = 2
  Faults = {"read", "write_lost", "write_landed"}
  MaxFaults = 1
INVARIANTS OpenPrExcluded OneGoAheadOnePr NoOrphanInProgress
PROPERTIES LifecycleImplemented
CHECK_DEADLOCK FALSE
