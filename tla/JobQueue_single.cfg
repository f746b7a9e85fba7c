SPECIFICATION HFairSpec
CONSTANTS
    NoJob = NoJob
    Job = {j1, j2}
    NoHandler = {j2}
    MissionJob = {j1}
    Worker = {w1}
    MaxAttempts = 1
    OutboxMax = 2
    OutboxBatch = 1
    BatchSize = 1
    Window = 1
    MaxFaults = 2
INVARIANTS
    TypeOK
    HeldIsRunning
    RunsBounded
    RepeatsNeedFaults
    VerdictEarned
PROPERTIES
    TerminalIsFinal
    ImplementsLife
    JobsResolve
    FailureReported
