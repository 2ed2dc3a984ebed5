SPECIFICATION FairSpec
CONSTANTS
  IdleMs = 7
  MaxRunMs = 8
  Interval = 2
  MinInterval = 1
  SleepDrift = 2
  KillGrace = 2
  NapLengths <- Naps
  MaxNaps = 2
INVARIANTS ReportIsTrue SleepIsNotSilence RunIsCut
PROPERTIES Settles
CHECK_DEADLOCK FALSE
