SPECIFICATION Spec
CONSTANTS
    None = None
    Client = {c1}
    Run = {r1}
    Ops = {"approve"}
    Plans <- ChainAndRisky
    Replans <- NoPlan
    MaxSteps = 3
    ParallelMax = 2
    MaxReplans = 1
    MaxSeq = 4
    MaxOps = 3
    MaxCalls = 3
    MaxFaults = 0
    Repeatable = {"approved"}
    MaxRepeats = 1
INVARIANTS
    ApprovedOnly
CHECK_DEADLOCK FALSE
