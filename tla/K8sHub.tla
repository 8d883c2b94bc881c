------------------------------- MODULE K8sHub -------------------------------
(***************************************************************************)
(* mapchete Hub on Kubernetes: the API server, the manager processes, the   *)
(* cluster and its worker pods, sharing the MongoDB registry.  With the     *)
(* "k8s-managed-worker" handler the API leaves a job to the manager; with   *)
(* "k8s-job-worker" it creates the Kubernetes job itself.                   *)
(***************************************************************************)
EXTENDS Manager, Api

CONSTANTS
    Handler,   \* MHUB_JOB_HANDLER
    Backlog    \* jobs that are queued when the instance begins

ASSUME HandlerAssumption == Handler \in {"k8s-managed-worker", "k8s-job-worker"}
ASSUME BacklogAssumption == Backlog \subseteq Jobs

vars == <<db, faults, run, kjob, kills, mgr, crashes, api>>

Init ==
    /\ db = [j \in Jobs |-> IF j \in Backlog THEN NewEntry ELSE AbsentEntry]
    /\ faults = MaxFaults
    /\ JobRunInit
    /\ KubernetesInit
    /\ ManagerInit
    /\ ApiInit

-----------------------------------------------------------------------------
Handling(stage, j) == api = [pc |-> stage, job |-> j]

\* MHubWorkerJobHandler.submit() reports the job as pending.
NotifyPending(j) ==
    /\ Handler = "k8s-managed-worker"
    /\ Handling("submit", j)
    /\ SetStatus(j, "pending")
    /\ api' = NoRequest
    /\ UNCHANGED <<faults, run, kjob, kills, mgr, crashes>>

\* KubernetesWorkerJobHandler.submit(), called by post_job().
ApiCreate(j) ==
    /\ Handler = "k8s-job-worker"
    /\ Handling("submit", j)
    /\ Create(j)
    /\ api' = [api EXCEPT !.pc = "record"]
    /\ UNCHANGED <<db, faults, run, kills, mgr, crashes>>

\* A manager has created it first.
ApiCreateExists(j) ==
    /\ Handler = "k8s-job-worker"
    /\ Handling("submit", j)
    /\ AlreadyExists(j)
    /\ api' = NoRequest
    /\ UNCHANGED <<db, faults, run, kjob, kills, mgr, crashes>>

\* The entry post_job() holds is the one new() returned.
ApiRecord(j) ==
    /\ Handling("record", j)
    /\ Set(j, SubmittedAttributes(NewEntry.k8s_attempts))
    /\ api' = NoRequest
    /\ UNCHANGED <<faults, run, kjob, kills, mgr, crashes>>

\* A call fails while the job is submitted: the Kubernetes handler reports
\* the failure, unless its observers could not be made; the other handler lets
\* the exception pass.
ApiSubmitFails(j) ==
    /\ Handling("submit", j) \/ Handling("record", j)
    /\ Fault
    /\ \/ Handler = "k8s-job-worker" /\ SetStatus(j, "failed")
       \/ api.pc = "submit" /\ UNCHANGED db
    /\ api' = NoRequest
    /\ UNCHANGED <<run, kjob, kills, mgr, crashes>>

\* The server process dies in the middle of a request, and is restarted.
ApiCrash ==
    /\ api.pc # "idle"
    /\ crashes > 0
    /\ crashes' = crashes - 1
    /\ api' = NoRequest
    /\ UNCHANGED <<db, faults, run, kjob, kills, mgr>>

-----------------------------------------------------------------------------
PodsStep(j) == ClusterStep(j) /\ UNCHANGED <<mgr, crashes, api>>
RequestStep(j) == ApiStep(j) /\ UNCHANGED <<run, kjob, kills, mgr, crashes>>
SubmitStep(j) ==
    NotifyPending(j) \/ ApiCreate(j) \/ ApiCreateExists(j) \/ ApiRecord(j) \/ ApiSubmitFails(j)

ManagerStep(m) == (ManagerWorks(m) \/ ManagerFails(m)) /\ UNCHANGED api
AgeStep(j) == TimePasses(j) /\ UNCHANGED api
ExpiryStep(j) == Expires(j) /\ UNCHANGED api

Next ==
    \/ \E m \in Managers : ManagerStep(m)
    \/ \E j \in Jobs :
        PodsStep(j) \/ RequestStep(j) \/ SubmitStep(j) \/ AgeStep(j) \/ ExpiryStep(j)
    \/ ApiCrash

Spec == Init /\ [][Next]_vars

(***************************************************************************)
(* "watch" loops, and its process is started again when it ends; the        *)
(* cluster starts pods and removes finished jobs; pods make progress and    *)
(* execute() comes back; an entry nobody updates grows old.  Nobody has to  *)
(* post, to cancel or to start "clean".                                     *)
(***************************************************************************)
Fairness ==
    /\ WF_vars("watch" \in Managers /\ ManagerWorks("watch") /\ UNCHANGED api)
    /\ \A j \in Jobs :
        /\ WF_vars(PodStep(j) /\ UNCHANGED <<mgr, crashes, api>>)
        /\ WF_vars(Updating(j) /\ UNCHANGED <<kjob, kills, mgr, crashes, api>>)
        /\ WF_vars(Removed(j) /\ UNCHANGED <<mgr, crashes, api>>)
        /\ WF_vars(SubmitStep(j))
        /\ WF_vars(CancelWrite(j) /\ UNCHANGED <<run, kjob, kills, mgr, crashes>>)
        /\ WF_vars(AgeStep(j))

FairSpec == Spec /\ Fairness

-----------------------------------------------------------------------------
\* Every variable has its type.
TypeOK ==
    /\ StatusHandlerTypeOK
    /\ JobRunTypeOK
    /\ KubernetesTypeOK
    /\ ManagerTypeOK
    /\ ApiTypeOK

(***************************************************************************)
(* k8s_attempts never exceeds one try and RetryTimes retries, although it   *)
(* is computed from entries read a round ago, by managers that may crash,   *)
(* overlap or lose calls.                                                   *)
(***************************************************************************)
AttemptsWithinLimit ==
    \A j \in Jobs : db[j].k8s_attempts <= RetryTimes + 1

(***************************************************************************)
(* With one manager that does not crash, the cluster is asked to run a job  *)
(* at most RetryTimes + 1 times: what the registry counts is what happened. *)
(***************************************************************************)
LaunchesWithinBudget ==
    \A j \in Jobs : kjob[j].launches <= RetryTimes + 1

(***************************************************************************)
(* A job the registry shows as active, but which no Kubernetes job runs any *)
(* more, is marked as submitted, so that the manager will take its job for  *)
(* gone and retry it; or it is being submitted.                             *)
(***************************************************************************)
Submitting(j) ==
    \/ \E m \in Managers : mgr[m].cur = j /\ mgr[m].pc \in {"create", "record", "report"}
    \/ Handling("record", j)

Unnoticed ==
    {j \in Jobs : /\ HasActiveStatus(db[j]) /\ kjob[j].state = "none"
                  /\ ~(db[j].submitted_to_k8s \/ Submitting(j))}

StalledJobsAreRetried == Unnoticed = {}

(***************************************************************************)
(* A manager or server that dies, or a call that fails, between creating a  *)
(* Kubernetes job and recording it hides that one job from the manager, and *)
(* nobody hides another: each such job has a crash or a failed call of its  *)
(* own to show for it.                                                      *)
(***************************************************************************)
UnnoticedByFailuresOnly ==
    Cardinality(Unnoticed) + faults + crashes <= MaxFaults + MaxCrashes

(***************************************************************************)
(* At most MaxParallel jobs are active at a time, although the manager      *)
(* counts them in a reading that is a round old.                            *)
(***************************************************************************)
MaxParallelRespected ==
    Cardinality({j \in Jobs : HasActiveStatus(db[j])}) <= MaxParallel

(***************************************************************************)
(* Every job that was accepted ends up done, failed or cancelled, although  *)
(* pods may be killed, dashboards be unreachable and entries go stale; only *)
(* a job whose entry gets older than --since may be forgotten.              *)
(***************************************************************************)
EveryJobSettles ==
    \A j \in Jobs : Exists(j) ~> db[j].status \in Terminal \/ db[j].age = "expired"

(***************************************************************************)
(* The hub as its clients may think of it: a queued job waits, an active    *)
(* one is worked on, one with a final status is over.  The manager may      *)
(* start jobs over; the API reports a job as pending when the manager may   *)
(* have taken it up already.                                                *)
(***************************************************************************)
LifeOf(j) ==
    CASE ~Exists(j) -> "none"
      [] IsQueued(db[j]) -> "waiting"
      [] HasActiveStatus(db[j]) -> "working"
      [] OTHER -> "over"

Life == [j \in Jobs |-> LifeOf(j)]

Unanswered == {j \in Jobs : Handling("submit", j)}

Lifecycle == INSTANCE JobLifecycle
    WITH life <- Life, unanswered <- Unanswered, Limit <- MaxParallel, Reopening <- TRUE

(***************************************************************************)
(* Every queued job is worked on while fewer than MaxParallel are, and      *)
(* comes to its end; none goes back to the queue, but for a job whose post  *)
(* is answered after the manager has taken it up.                           *)
(***************************************************************************)
QueueIsWorkedOff == Lifecycle!LiveSpec

(***************************************************************************)
(* retry_stalled_jobs() "only affects currently running jobs": a manager    *)
(* reports "retrying" only for a job that is still active.                  *)
(***************************************************************************)
OnlyRunningJobsAreRetried ==
    [][\A j \in Jobs :
          db'[j].status = "retrying" /\ db[j].status # "retrying" => HasActiveStatus(db[j])]_vars

=============================================================================
