SPECIFICATION FairSpec
CONSTANTS
    None = None
    Client = {c1}
    Run = {r1, r2}
    Ops = {"approve", "reject", "cancel", "steer"}
    Plans <- RiskyPlans
    Replans <- OneSafe
    MaxSteps = 3
    ParallelMax = 2
    MaxReplans = 1
    MaxSeq = 4
    MaxOps = 3
    MaxCalls = 3
    MaxFaults = 0
    Repeatable = {"approved"}
    MaxRepeats = 1
INVARIANTS
    ApprovedOnce
PROPERTIES
    MissionSettles
CHECK_DEADLOCK FALSE
