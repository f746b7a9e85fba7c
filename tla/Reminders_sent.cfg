SPECIFICATION Spec
CONSTANTS
  None = None
  Reminder = {r1}
  Recurring = {r1}
  Mobile = {r1}
  Worker = {w1, w2}
  MaxTime = 2
  MaxCopies = 2
  MaxEdits = 0
  MaxFaults = 0
CHECK_DEADLOCK FALSE
INVARIANT MarkedBeforePush
