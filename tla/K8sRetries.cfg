\* One job with two retries, posted and perhaps cancelled; pods are killed and fail.
CONSTANTS
    j1 = j1
    None = None
    Jobs = {j1}
    MaxFaults = 0
    Reported = {"parsing", "running", "post_processing", "done", "failed"}
    Retries = 0
    Cancelling = TRUE
    RetryTimes = 2
    MaxKills = 3
    MaxLaunches = 4
    WorkerFails = TRUE
    FailedConditions = {"Failed"}
    CompleteConditions = {"Complete"}
    Managers = {"watch"}
    MaxParallel = 1
    MaxCrashes = 0
    Expiring = TRUE
    Handler = "k8s-managed-worker"
    Backlog = {}
SPECIFICATION FairSpec
INVARIANTS
    LaunchesWithinBudget
    StalledJobsAreRetried
PROPERTIES
    EveryJobSettles
