----------------------------- MODULE Kubernetes -----------------------------
(***************************************************************************)
(* The cluster and the worker pods.  Each job is run by at most one         *)
(* Kubernetes Job object, named after it; its pods execute "mhub-worker     *)
(* run-job".  The cluster itself is external and modelled as the code       *)
(* relies on it: names are unique while an object exists, failed pods are   *)
(* started over up to backoff_limit times, and finished objects are removed *)
(* some time after.                                                         *)
(***************************************************************************)
EXTENDS JobRun

CONSTANTS
    RetryTimes,   \* MHUB_K8S_RETRY_JOB_X_TIMES
    MaxKills,     \* bound: how many pods the cluster may kill
    MaxLaunches,  \* bound of the history "launches"; 0: no history is kept
    WorkerFails,  \* whether a worker may fail before it reaches the job
    FailedConditions,     \* the conditions the cluster gives a failed job
    CompleteConditions    \* ... and one that is complete

ASSUME RetryTimesAssumption == RetryTimes \in Nat
ASSUME MaxKillsAssumption == MaxKills \in Nat
ASSUME MaxLaunchesAssumption == MaxLaunches \in Nat
ASSUME ConditionsAssumption ==
    "Failed" \in FailedConditions /\ "Complete" \in CompleteConditions
ASSUME WorkerFailsAssumption == WorkerFails \in BOOLEAN

VARIABLES
    kjob,    \* per job: the Kubernetes Job object of that name
    kills    \* pods that may still be killed

(***************************************************************************)
(* state: none (never created, or removed), active, complete or failed;     *)
(* failures: failed pods of this object; launches: objects created so far,  *)
(* history for the properties, counted up to MaxLaunches.                   *)
(***************************************************************************)
KJob == [state : {"none", "active", "complete", "failed"},
         failures : 0..(RetryTimes + 1), launches : 0..MaxLaunches]

NoKJob == [state |-> "none", failures |-> 0, launches |-> 0]

KubernetesInit ==
    /\ kjob = [j \in Jobs |-> NoKJob]
    /\ kills = MaxKills

LaunchCount(n) == IF n < MaxLaunches THEN n + 1 ELSE n

(***************************************************************************)
(* create_k8s_job(), when no object of that name exists; when one does the  *)
(* cluster answers AlreadyExists.                                           *)
(***************************************************************************)
Create(j) ==
    /\ kjob[j].state = "none"
    /\ kjob' = [kjob EXCEPT ![j] = [state |-> "active", failures |-> 0,
                                    launches |-> LaunchCount(@.launches)]]

AlreadyExists(j) == kjob[j].state # "none"

(***************************************************************************)
(* KubernetesJobStatus accepts conditions of two types only, while newer    *)
(* clusters announce either end of a job by a condition of its own          *)
(* ("FailureTarget", "SuccessCriteriaMet").                                 *)
(***************************************************************************)
ConditionsOf(state) ==
    CASE state = "failed" -> FailedConditions
      [] state = "complete" -> CompleteConditions
      [] OTHER -> {}

StatusReadable(j) == ConditionsOf(kjob[j].state) \subseteq {"Complete", "Failed"}

\* Mutant: a Kubernetes job that is gone has not failed.
IsFailedOnly(j, submitted_to_k8s) == kjob[j].state = "failed"

\* k8s_is_failed_or_gone(), given what the caller knows of the submission.
IsFailedOrGone(j, submitted_to_k8s) ==
    \/ kjob[j].state = "failed"
    \/ kjob[j].state = "none" /\ submitted_to_k8s

-----------------------------------------------------------------------------
PodWaiting(j) == kjob[j].state = "active" /\ run[j].pc = "idle"

\* Mutant: one pod more than backoff_limit allows.
PodFailureOneMore(j) ==
    kjob' = [kjob EXCEPT ![j].failures = @ + 1,
                         ![j].state = IF kjob[j].failures <= RetryTimes
                                      THEN "active" ELSE "failed"]

\* backoff_limit: a failed pod is replaced until the limit is exceeded.
PodFailure(j) ==
    kjob' = [kjob EXCEPT ![j].failures = @ + 1,
                         ![j].state = IF kjob[j].failures < RetryTimes
                                      THEN "active" ELSE "failed"]

PodDone(j) ==
    /\ kjob' = [kjob EXCEPT ![j].state = "complete"]
    /\ run' = [run EXCEPT ![j] = Resting("idle")]

(***************************************************************************)
(* run_job() reads the entry.  Pending and retrying jobs are executed; for  *)
(* any other status the worker exits at once, and successfully.             *)
(***************************************************************************)
PodStart(j) ==
    /\ PodWaiting(j)
    /\ db[j].status \in {"pending", "retrying"}
    /\ StartRun(j)
    /\ UNCHANGED <<db, faults, kjob, kills>>

PodDeclines(j) ==
    /\ PodWaiting(j)
    /\ db[j].status \notin {"pending", "retrying"}
    /\ PodDone(j)
    /\ UNCHANGED <<db, faults, kills>>

\* The entry cannot be read: the worker fails and nothing is reported.
PodReadFails(j) ==
    /\ PodWaiting(j)
    /\ Fault
    /\ PodFailure(j)
    /\ UNCHANGED <<db, run, kills>>

\* After the entry is read, setting up (a LocalCluster) raises; run_job()
\* reports that as it reports what job_wrapper() raises.
PodSetupFails(j) ==
    /\ WorkerFails
    /\ PodWaiting(j)
    /\ db[j].status \in {"pending", "retrying"}
    /\ run' = [run EXCEPT ![j] = Resting("raised")]
    /\ UNCHANGED <<db, faults, kjob, kills>>

PodFinished(j) ==
    /\ run[j].pc = "finished"
    /\ PodDone(j)
    /\ UNCHANGED <<db, faults, kills>>

\* run_job() catches what job_wrapper() raised, reports it and exits with it.
PodRaised(j) ==
    /\ run[j].pc = "raised"
    /\ SetStatus(j, "failed")
    /\ run' = [run EXCEPT ![j] = Resting("idle")]
    /\ PodFailure(j)
    /\ UNCHANGED <<faults, kills>>

\* ... or fails to report it.
PodRaisedUnreported(j) ==
    /\ run[j].pc = "raised"
    /\ Fault
    /\ run' = [run EXCEPT ![j] = Resting("idle")]
    /\ PodFailure(j)
    /\ UNCHANGED <<db, kills>>

\* The pod is evicted, out of memory, or past active_deadline_seconds.
PodKilled(j) ==
    /\ kills > 0
    /\ kjob[j].state = "active"
    /\ kills' = kills - 1
    /\ run' = [run EXCEPT ![j] = Resting("idle")]
    /\ PodFailure(j)
    /\ UNCHANGED <<db, faults>>

\* ttl_seconds_after_finished.
Removed(j) ==
    /\ kjob[j].state \in {"complete", "failed"}
    /\ kjob' = [kjob EXCEPT ![j].state = "none", ![j].failures = 0]
    /\ UNCHANGED <<db, faults, run, kills>>

PodStep(j) ==
    \/ PodStart(j) \/ PodDeclines(j) \/ PodReadFails(j) \/ PodSetupFails(j)
    \/ PodFinished(j) \/ PodRaised(j) \/ PodRaisedUnreported(j)

ClusterStep(j) ==
    \/ PodStep(j) \/ PodKilled(j) \/ Removed(j)
    \/ JobRunStep(j) /\ UNCHANGED <<kjob, kills>>

KubernetesTypeOK ==
    /\ kjob \in [Jobs -> KJob]
    /\ kills \in 0..MaxKills

=============================================================================
