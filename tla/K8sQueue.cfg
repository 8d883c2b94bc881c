\* Two queued jobs, room for one; a pod is killed.
CONSTANTS
    j1 = j1
    j2 = j2
    None = None
    Jobs = {j1, j2}
    MaxFaults = 0
    Reported = {"parsing", "running", "done"}
    Retries = 0
    Cancelling = FALSE
    RetryTimes = 1
    MaxKills = 1
    MaxLaunches = 0
    WorkerFails = FALSE
    FailedConditions = {"FailureTarget", "Failed"}
    CompleteConditions = {"SuccessCriteriaMet", "Complete"}
    Managers = {"watch"}
    MaxParallel = 1
    MaxCrashes = 0
    Expiring = FALSE
    Handler = "k8s-managed-worker"
    Backlog = {j1, j2}
SPECIFICATION FairSpec
INVARIANTS
    MaxParallelRespected
PROPERTIES
    QueueIsWorkedOff
