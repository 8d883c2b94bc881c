\* The entry post_job() holds is the one the registry keeps.
CONSTANTS
    j1 = j1
    None = None
    Jobs = {j1}
    MaxFaults = 0
    Reported = {"parsing", "initializing", "running", "done", "failed"}
    Retries = 0
    Cancelling = FALSE
    MaxParallel = 1
    SharedEntries = TRUE
SPECIFICATION Spec
INVARIANTS
    FinishedJobIsSettled
\* The server may be shut down, and nobody has to post a job.
CHECK_DEADLOCK FALSE
