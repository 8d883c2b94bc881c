\* Two jobs on one thread; no progress, which might go on for ever.
CONSTANTS
    j1 = j1
    j2 = j2
    None = None
    Jobs = {j1, j2}
    MaxFaults = 0
    Reported = {"parsing", "initializing", "running", "post_processing", "done", "retrying", "failed"}
    Retries = 1
    Cancelling = TRUE
    MaxParallel = 1
    SharedEntries = FALSE
SPECIFICATION FairSpec
INVARIANTS
    TypeOK
    NoJobForgotten
PROPERTIES
    EveryJobSettles
    ExecutedOnce
\* The server may be shut down, and nobody has to post a job.
CHECK_DEADLOCK FALSE
