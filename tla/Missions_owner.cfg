SPECIFICATION Spec
CONSTANTS
    None = None
    Client = {c1, c2}
    Run = {r1}
    Ops = {"approve", "reject", "cancel", "pause", "resume", "steer"}
    Plans <- ThreeSteps
    Replans <- TwoSteps
    MaxSteps = 3
    ParallelMax = 2
    MaxReplans = 1
    MaxSeq = 5
    MaxOps = 3
    MaxCalls = 2
    MaxFaults = 1
    Repeatable = {}
    MaxRepeats = 0
SYMMETRY Clients
INVARIANTS
    TypeOK
    DependencyOrder
    RiskyAlone
    AskedLast
    DoneMeansFinished
    ReplansBounded
PROPERTIES
    LateWritesGuarded
    CancelledBeforePlan
    FinishedStepsStay
CHECK_DEADLOCK FALSE
