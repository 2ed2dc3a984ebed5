SPECIFICATION FairSpec
CONSTANTS
  d = d
  Tickets = {1, 2, 3}
  Pollers <- Daemon
  Daemons <- Daemon
  Overlap = 1
  FirstRun = 1
  SeenCap = 3
  PageCap = 3
  Lag = 1
  FirstCursor = 0
  MaxTime = 3
  Faults = {"triage", "sink", "save", "crash", "stop", "search"}
  MaxFails = 1
INVARIANT NoneSkipped
PROPERTIES PaidOnce EveryTicketTriaged
