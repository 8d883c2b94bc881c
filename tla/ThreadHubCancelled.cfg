\* Two jobs on one thread; up to two database calls time out.
CONSTANTS
    j1 = j1
    j2 = j2
    None = None
    Jobs = {j1, j2}
    MaxFaults = 2
    Reported = {"parsing", "initializing", "running", "progress", "post_processing", "done", "retrying", "failed"}
    Retries = 1
    Cancelling = TRUE
    MaxParallel = 1
    SharedEntries = FALSE
SPECIFICATION FairSpec
INVARIANTS
    ResultOnlyAfterDone
    ForgottenByFailuresOnly
PROPERTIES
    CancelHolds
    FinishedForGood
    CancelStopsRun
    ExecutedAtMostOnce
\* The server may be shut down, and nobody has to post a job.
CHECK_DEADLOCK FALSE
