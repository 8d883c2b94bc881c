\* All inputs up to a bound of the functions without state.
CONSTANTS
    None = None
    MaxWorkersConfigured = 4
    MaxTasks = 20
    MaxTextLength = 6
    MaxChunk = 4
    TicksPerMs = 2
    MaxTicks = 6
    Invalid = Invalid
    Cells = {1, 2}
    MaxConditions = 3
SPECIFICATION Spec
INVARIANTS
    AdaptWithinLimits
    ChunksFit
    TextKept
    SameJobsFound
    AreaAsAskedFor
    SpecsReachCluster
    EnvironmentReachesCluster
    ConditionsRead
CHECK_DEADLOCK FALSE
