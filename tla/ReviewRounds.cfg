SPECIFICATION FairSpec
CONSTANTS
  person = person
  reviewer = reviewer
  t1 = t1
  Comments <- BothComments
  Threads <- OneThread
  Human <- PersonOnly
  MaxRounds = 1
  MaxTotalRounds = 2
  MaxFailedStarts = 2
  Faults = {"read", "write", "post", "git", "attach", "defer", "crash", "mangle", "same_second"}
  MaxFaults = 2
  MaxRemarks = 1
INVARIANTS RoundsBounded ReadOnce OneMarker ReadyMeansLanded
PROPERTY InboxSettles
CHECK_DEADLOCK FALSE
