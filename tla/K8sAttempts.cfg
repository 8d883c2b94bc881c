\* The API creates the Kubernetes job itself, "watch" and "clean" overlap; one call fails or one process
\* crashes, and a pod may be killed.
CONSTANTS
    j1 = j1
    None = None
    Jobs = {j1}
    MaxFaults = 1
    Reported = {"parsing", "running", "done"}
    Retries = 0
    Cancelling = FALSE
    RetryTimes = 1
    MaxKills = 1
    MaxLaunches = 0
    WorkerFails = TRUE
    FailedConditions = {"Failed"}
    CompleteConditions = {"Complete"}
    Managers = {"watch", "clean"}
    MaxParallel = 1
    MaxCrashes = 1
    Expiring = FALSE
    Handler = "k8s-job-worker"
    Backlog = {}
SPECIFICATION Spec
INVARIANTS
    TypeOK
    AttemptsWithinLimit
    UnnoticedByFailuresOnly
CONSTRAINT
    OneThingGoesWrong
