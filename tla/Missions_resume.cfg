SPECIFICATION FairSpec
CONSTANTS
    None = None
    Client = {c1}
    Run = {r1}
    Ops = {"pause", "resume"}
    Plans <- OneSafe
    Replans <- NoPlan
    MaxSteps = 1
    ParallelMax = 2
    MaxReplans = 1
    MaxSeq = 1
    MaxOps = 2
    MaxCalls = 0
    MaxFaults = 0
    Repeatable = {}
    MaxRepeats = 0
PROPERTIES
    MissionSettles
CHECK_DEADLOCK FALSE
