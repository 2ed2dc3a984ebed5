SPECIFICATION FairSpec
CONSTANTS
  d1 = d1
  d2 = d2
  asker = asker
  other = other
  l1 = l1
  Drafts <- TwoDrafts
  Users <- People
  Allowed <- People
  Listeners <- Listener
  Live <- Listener
  MaxPresses = 3
  Faults = {"read", "write", "send_lost", "send_refused", "discard", "crash"}
  MaxFaults = 2
INVARIANT PressableIsUnfiled
PROPERTIES FiledOnce ChainDrains
