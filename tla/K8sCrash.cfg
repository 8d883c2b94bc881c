\* The manager crashes once, and a pod is killed.
CONSTANTS
    j1 = j1
    None = None
    Jobs = {j1}
    MaxFaults = 0
    Reported = {"parsing", "running", "done", "failed"}
    Retries = 0
    Cancelling = FALSE
    RetryTimes = 1
    MaxKills = 1
    MaxLaunches = 0
    WorkerFails = FALSE
    FailedConditions = {"Failed"}
    CompleteConditions = {"Complete"}
    Managers = {"watch"}
    MaxParallel = 1
    MaxCrashes = 1
    Expiring = FALSE
    Handler = "k8s-managed-worker"
    Backlog = {j1}
SPECIFICATION FairSpec
PROPERTIES
    EveryJobSettles
