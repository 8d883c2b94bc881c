\* Two jobs, one or two at a time, under all settings; two calls fail.
CONSTANTS
    j1 = j1
    j2 = j2
    None = None
    Server = Server
    Jobs = {j1, j2}
    MaxParallel = 2
    Restarts = 1
    MaxFaults = 2
SPECIFICATION Spec
INVARIANTS
    TypeOK
    ClusterOutlivesClients
    RegistryOutlivesThreads
    NothingLeftOpen
    ClustersWithinLimit
    RefusedByFailuresOnly
PROPERTIES
    EverythingEnds
\* The jobs are over, and the server may be down or need not stop.
CHECK_DEADLOCK FALSE
