SPECIFICATION Spec
CONSTANTS
  t1 = t1
  t2 = t2
  d = d
  c = c
  Tickets <- OneTicket
  Allowed <- OneTicket
  Runners <- DaemonAndCommand
  Daemons <- Daemon
  Authority = "manual"
  MaxConcurrent = 1
  MaxAttempts = 1
  Powers = {"mention", "hand", "watching"}
  MaxEdits = 2
  Faults = {"write_landed", "status", "create_lost", "crash"}
  MaxFaults = 1
PROPERTY GoAheadKept
CHECK_DEADLOCK FALSE
