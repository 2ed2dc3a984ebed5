SPECIFICATION FairSpec
CONSTANTS
  t1 = t1
  t2 = t2
  d = d
  c = c
  Tickets <- TwoTickets
  Allowed <- TwoTickets
  Runners <- Daemon
  Daemons <- Daemon
  Authority = "auto"
  MaxConcurrent = 2
  MaxAttempts = 1
  Powers = {"pr", "mention"}
  MaxEdits = 2
  Faults = {}
  MaxFaults = 0
PROPERTIES ClaimsEnd OfferedIsTried
CHECK_DEADLOCK FALSE
