SPECIFICATION FairSpec
CONSTANTS
  None = None
  Automation = {a1}
  Conditional = {a1}
  Worker = {w1, w2}
  Period = 1
  Lease = 2
  Timeout = 3
  Threshold = 2
  MaxTime = 5
  MaxCopies = 1
  MaxEdits = 1
  MaxErrors = 2
  MaxFaults = 1
CHECK_DEADLOCK FALSE
INVARIANTS TypeOK SlotOnce
PROPERTIES DueRuns
