\* One job that takes its time, as the manager sees it.
CONSTANTS
    j1 = j1
    None = None
    Jobs = {j1}
    MaxFaults = 0
    Reported = {"parsing", "running", "done", "failed"}
    Retries = 0
    Cancelling = FALSE
    RetryTimes = 1
    MaxKills = 0
    MaxLaunches = 0
    WorkerFails = FALSE
    FailedConditions = {"Failed"}
    CompleteConditions = {"Complete"}
    Managers = {"watch"}
    MaxParallel = 1
    MaxCrashes = 0
    Expiring = FALSE
    Handler = "k8s-managed-worker"
    Backlog = {j1}
SPECIFICATION Spec
PROPERTIES
    OnlyRunningJobsAreRetried
