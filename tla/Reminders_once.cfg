SPECIFICATION FairSpec
CONSTANTS
  None = None
  Reminder = {r1}
  Recurring = {r1}
  Mobile = {r1}
  Worker = {w1, w2}
  MaxTime = 2
  MaxCopies = 2
  MaxEdits = 1
  MaxFaults = 1
CHECK_DEADLOCK FALSE
INVARIANTS TypeOK OncePerOccurrence EarlyOnlyIfMoved
PROPERTIES DueWakes
