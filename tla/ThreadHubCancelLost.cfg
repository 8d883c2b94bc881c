\* A cancellation against the reports of a running job.
CONSTANTS
    j1 = j1
    None = None
    Jobs = {j1}
    MaxFaults = 0
    Reported = {"parsing", "initializing", "running", "progress", "done"}
    Retries = 0
    Cancelling = TRUE
    MaxParallel = 1
    SharedEntries = FALSE
SPECIFICATION Spec
PROPERTIES
    CancelledStays
\* The server may be shut down, and nobody has to post a job.
CHECK_DEADLOCK FALSE
