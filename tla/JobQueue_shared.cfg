SPECIFICATION Spec
CONSTANTS
    NoJob = NoJob
    Job = {j1, j2}
    NoHandler = {j2}
    MissionJob = {}
    Worker = {w1, w2}
    MaxAttempts = 1
    OutboxMax = 2
    OutboxBatch = 1
    BatchSize = 1
    Window = 1
    MaxFaults = 1
INVARIANTS
    SentHasJob
    LockedByOne
    AttemptsBounded
PROPERTIES
    OutboxSettledOnce
SYMMETRY Symmetry
