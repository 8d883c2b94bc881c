------------------------------ MODULE Manager ------------------------------
(***************************************************************************)
(* mhub-manager (mapchete_hub/cli/manager.py) and the entries it works on   *)
(* (K8SJobEntry in job_handler/k8s_worker.py).  "watch" loops: it reads all *)
(* entries at once, retries the stalled ones and submits the queued ones,   *)
(* all judged by that reading.  "clean" does the first half once, whenever  *)
(* somebody starts it.  Every call to the registry or the cluster is a step *)
(* of its own.                                                              *)
(***************************************************************************)
EXTENDS Kubernetes

CONSTANTS
    Managers,      \* the manager processes of this instance
    MaxParallel,   \* MHUB_MAX_PARALLEL_JOBS
    MaxCrashes,    \* bound: how often a process may crash
    Expiring       \* whether entries get older than --since in this instance

ASSUME ManagersAssumption == Managers \subseteq {"watch", "clean"}
ASSUME MaxParallelAssumption == MaxParallel \in Nat \ {0}
ASSUME JobsAssumption == IsFiniteSet(Jobs)
ASSUME MaxCrashesAssumption == MaxCrashes \in Nat
ASSUME ExpiringAssumption == Expiring \in BOOLEAN

VARIABLES
    mgr,       \* per manager process: where it is in its round
    crashes    \* crashes that may still happen

HasActiveStatus(entry) ==
    \/ entry.status \in {"initializing", "parsing", "running", "post_processing", "retrying"}
    \/ entry.status = "pending" /\ entry.submitted_to_k8s

IsQueued(entry) == entry.status = "pending" /\ ~entry.submitted_to_k8s

(***************************************************************************)
(* What a round keeps of the entries it has read: whether they are active   *)
(* or queued, and what the handling of these looks at.                      *)
(***************************************************************************)
Reading == [kind : {"active", "queued", "other"}, submitted_to_k8s : BOOLEAN,
            k8s_attempts : Nat, dashboard : BOOLEAN, inactive : BOOLEAN]

NotRead == [kind |-> "other", submitted_to_k8s |-> FALSE, k8s_attempts |-> 0,
            dashboard |-> FALSE, inactive |-> FALSE]

Open(entry) == HasActiveStatus(entry) \/ IsQueued(entry)

\* The manager asks for the entries updated within --since.
Read(entry) ==
    IF Open(entry) /\ entry.age # "expired"
    THEN [kind |-> IF HasActiveStatus(entry) THEN "active" ELSE "queued",
          submitted_to_k8s |-> entry.submitted_to_k8s,
          k8s_attempts |-> entry.k8s_attempts,
          dashboard |-> entry.dask_dashboard_link # None,
          inactive |-> entry.age = "inactive"]
    ELSE NotRead

RunningJobs(snap) == {j \in Jobs : snap[j].kind = "active"}
QueuedJobs(snap) == {j \in Jobs : snap[j].kind = "queued"}

(***************************************************************************)
(* pc: sleep between rounds; loop at the head of the for loop of the phase; *)
(* stalled, retry, retrying, create, record, report: stages of the handling *)
(* of one job, cur.  snap: the entries as read when the round began; todo:  *)
(* those the loop has yet to come to; count: currently_running_count.       *)
(***************************************************************************)
Round == [pc : {"sleep", "loop", "stalled", "retry", "retrying",
                "create", "record", "report"},
          phase : {"retry", "submit"},
          snap : [Jobs -> Reading], todo : SUBSET Jobs, cur : Jobs \cup {None}, count : Nat]

Sleeping == [pc |-> "sleep", phase |-> "retry", snap |-> [j \in Jobs |-> NotRead],
             todo |-> {}, cur |-> None, count |-> 0]

ManagerInit ==
    /\ mgr = [m \in Managers |-> Sleeping]
    /\ crashes = MaxCrashes

\* Mutant: allows one attempt too many.
RemainingRetriesOffByOne(reading) == (RetryTimes + 2) - reading.k8s_attempts

RemainingRetries(reading) == (RetryTimes + 1) - reading.k8s_attempts

\* The manager goes on with the next job, having changed its own record to r.
Continue(r) == [r EXCEPT !.pc = "loop", !.todo = @ \ {r.cur}, !.cur = None]

MgrTo(m, r) == mgr' = [mgr EXCEPT ![m] = r]
StaysHere == UNCHANGED <<run, kills, crashes>>

-----------------------------------------------------------------------------
Fetch(m) ==
    /\ mgr[m].pc = "sleep"
    /\ LET snap == [j \in Jobs |-> Read(db[j])] IN
       MgrTo(m, [Sleeping EXCEPT !.pc = "loop", !.snap = snap, !.todo = RunningJobs(snap)])
    /\ UNCHANGED <<db, faults, kjob>> /\ StaysHere

(***************************************************************************)
(* is_stalled(): an entry that has not been updated for long is stalled;    *)
(* otherwise its dashboard, if it has one, is asked.                        *)
(***************************************************************************)
Turn(m, j) == mgr[m].pc = "loop" /\ mgr[m].phase = "retry" /\ j \in mgr[m].todo

NotStalled(m, j) ==
    /\ Turn(m, j)
    /\ ~mgr[m].snap[j].inactive
    /\ MgrTo(m, [mgr[m] EXCEPT !.todo = @ \ {j}])
    /\ UNCHANGED <<db, faults, kjob>> /\ StaysHere

Stalled(m, j) ==
    /\ Turn(m, j)
    /\ mgr[m].snap[j].inactive \/ mgr[m].snap[j].dashboard
    /\ MgrTo(m, [mgr[m] EXCEPT !.pc = "stalled", !.cur = j])
    /\ UNCHANGED <<db, faults, kjob>> /\ StaysHere

\* The dashboard does not answer at all: the exception ends the process,
\* and with it the round; whoever runs the manager starts it again.
DashboardError(m, j) ==
    /\ Turn(m, j)
    /\ ~mgr[m].snap[j].inactive /\ mgr[m].snap[j].dashboard
    /\ MgrTo(m, Sleeping)
    /\ UNCHANGED <<db, faults, kjob>> /\ StaysHere

AskCluster(m) ==
    /\ mgr[m].pc = "stalled"
    /\ StatusReadable(mgr[m].cur)
    /\ MgrTo(m, IF IsFailedOrGone(mgr[m].cur, mgr[m].snap[mgr[m].cur].submitted_to_k8s)
                THEN [mgr[m] EXCEPT !.pc = "retry"]
                ELSE Continue(mgr[m]))
    /\ UNCHANGED <<db, faults, kjob>> /\ StaysHere

\* The status is refused: the exception ends the process.
AskRaises(m) ==
    /\ mgr[m].pc = "stalled"
    /\ ~StatusReadable(mgr[m].cur)
    /\ MgrTo(m, Sleeping)
    /\ UNCHANGED <<db, faults, kjob>> /\ StaysHere

-----------------------------------------------------------------------------
(***************************************************************************)
(* k8s_retry(): no retries left, or "retrying" is reported (the DBUpdater   *)
(* looks for a cancellation first, in a call of its own) and the job is     *)
(* submitted again.                                                         *)
(***************************************************************************)
\* Mutant: the entry is left alone when no retries are left.
RetryExhaustedSilently(m) ==
    /\ mgr[m].pc = "retry"
    /\ RemainingRetries(mgr[m].snap[mgr[m].cur]) <= 0
    /\ MgrTo(m, Continue(mgr[m]))
    /\ UNCHANGED <<db, faults, kjob>> /\ StaysHere

RetryExhausted(m) ==
    LET j == mgr[m].cur IN
    /\ mgr[m].pc = "retry"
    /\ RemainingRetries(mgr[m].snap[j]) <= 0
    /\ SetStatus(j, "failed")
    /\ MgrTo(m, Continue([mgr[m] EXCEPT !.snap[j] = NotRead]))
    /\ UNCHANGED <<faults, kjob>> /\ StaysHere

RetryCheck(m) ==
    LET j == mgr[m].cur IN
    /\ mgr[m].pc = "retry"
    /\ RemainingRetries(mgr[m].snap[j]) > 0
    /\ MgrTo(m, IF db[j].status = "cancelled"
                THEN Continue(mgr[m])
                ELSE [mgr[m] EXCEPT !.pc = "retrying"])
    /\ UNCHANGED <<db, faults, kjob>> /\ StaysHere

RetryWrite(m) ==
    LET j == mgr[m].cur IN
    /\ mgr[m].pc = "retrying"
    /\ db' = [db EXCEPT ![j] = Written(@, "retrying")]
    /\ MgrTo(m, [mgr[m] EXCEPT !.pc = "create"])
    /\ UNCHANGED <<faults, kjob>> /\ StaysHere

\* The registry or Slack does not answer while the observers are made, before
\* or after "retrying" is written: logged, and on with the next job.
ObserversFail(m) ==
    /\ mgr[m].pc \in {"retry", "retrying", "create"}
    /\ Fault
    /\ MgrTo(m, Continue(mgr[m]))
    /\ UNCHANGED <<db, kjob>> /\ StaysHere

-----------------------------------------------------------------------------
(***************************************************************************)
(* submit(): create the Kubernetes job, then record that in the registry.   *)
(* Any error is reported as "failed", except that the object exists.  The   *)
(* caller counts the job as running unless an error came back.              *)
(***************************************************************************)
Counted(r) == IF r.phase = "submit" THEN [r EXCEPT !.count = @ + 1] ELSE r

CreateJob(m) ==
    /\ mgr[m].pc = "create"
    /\ Create(mgr[m].cur)
    /\ MgrTo(m, [mgr[m] EXCEPT !.pc = "record"])
    /\ UNCHANGED <<db, faults>> /\ StaysHere

CreateExists(m) ==
    /\ mgr[m].pc = "create"
    /\ AlreadyExists(mgr[m].cur)
    /\ MgrTo(m, Continue(Counted(mgr[m])))
    /\ UNCHANGED <<db, faults, kjob>> /\ StaysHere

\* Mutant: the attempt is counted, the submission is not noted.
SubmittedAttributesNot(attempts) == [NoAttributes EXCEPT !.k8s_attempts = attempts + 1]

\* Mutant: the submission is noted, the attempt is not counted.
SubmittedAttributesUncounted(attempts) == [NoAttributes EXCEPT !.submitted_to_k8s = TRUE]

SubmittedAttributes(attempts) ==
    [NoAttributes EXCEPT !.submitted_to_k8s = TRUE, !.k8s_attempts = attempts + 1]

Record(m) ==
    LET j == mgr[m].cur IN
    /\ mgr[m].pc = "record"
    /\ Set(j, SubmittedAttributes(mgr[m].snap[j].k8s_attempts))
    /\ MgrTo(m, Continue(Counted([mgr[m] EXCEPT !.snap[j] = Read(db'[j])])))
    /\ UNCHANGED <<faults, kjob>> /\ StaysHere

SubmitFails(m) ==
    /\ mgr[m].pc \in {"create", "record"}
    /\ Fault
    /\ MgrTo(m, [mgr[m] EXCEPT !.pc = "report"])
    /\ UNCHANGED <<db, kjob>> /\ StaysHere

Report(m) ==
    /\ mgr[m].pc = "report"
    /\ SetStatus(mgr[m].cur, "failed")
    /\ MgrTo(m, Continue(mgr[m]))
    /\ UNCHANGED <<faults, kjob>> /\ StaysHere

ReportFails(m) ==
    /\ mgr[m].pc = "report"
    /\ Fault
    /\ MgrTo(m, Continue(mgr[m]))
    /\ UNCHANGED <<db, kjob>> /\ StaysHere

-----------------------------------------------------------------------------
(***************************************************************************)
(* submit_pending_jobs(): after the retries, queued entries are submitted   *)
(* while the count of running ones, by the same reading, leaves room.       *)
(***************************************************************************)
RetriesDone(m) == mgr[m].pc = "loop" /\ mgr[m].phase = "retry" /\ mgr[m].todo = {}

StartSubmit(m) ==
    /\ m = "watch"
    /\ RetriesDone(m)
    /\ MgrTo(m, [mgr[m] EXCEPT !.phase = "submit",
                               !.todo = QueuedJobs(mgr[m].snap),
                               !.count = Cardinality(RunningJobs(mgr[m].snap))])
    /\ UNCHANGED <<db, faults, kjob>> /\ StaysHere

CleanEnds(m) ==
    /\ m = "clean"
    /\ RetriesDone(m)
    /\ MgrTo(m, Sleeping)
    /\ UNCHANGED <<db, faults, kjob>> /\ StaysHere

\* Mutant: one job too many.
SubmitPickTooMany(m, j) ==
    /\ mgr[m].pc = "loop" /\ mgr[m].phase = "submit"
    /\ j \in mgr[m].todo
    /\ mgr[m].count <= MaxParallel
    /\ MgrTo(m, [mgr[m] EXCEPT !.pc = "create", !.cur = j])
    /\ UNCHANGED <<db, faults, kjob>> /\ StaysHere

SubmitPick(m, j) ==
    /\ mgr[m].pc = "loop" /\ mgr[m].phase = "submit"
    /\ j \in mgr[m].todo
    /\ mgr[m].count < MaxParallel
    /\ MgrTo(m, [mgr[m] EXCEPT !.pc = "create", !.cur = j])
    /\ UNCHANGED <<db, faults, kjob>> /\ StaysHere

SubmitDone(m) ==
    /\ mgr[m].pc = "loop" /\ mgr[m].phase = "submit"
    /\ mgr[m].todo = {} \/ mgr[m].count >= MaxParallel
    /\ MgrTo(m, Sleeping)
    /\ UNCHANGED <<db, faults, kjob>> /\ StaysHere

-----------------------------------------------------------------------------
\* The process dies, or a call that no try block surrounds raises: asking the
\* cluster about a job, for one.  It is started again.
Crash(m) ==
    /\ mgr[m].pc # "sleep"
    /\ crashes > 0
    /\ crashes' = crashes - 1
    /\ MgrTo(m, Sleeping)
    /\ UNCHANGED <<db, faults, run, kjob, kills>>

\* inactive_since passes without an update of the entry.
TimePasses(j) ==
    /\ HasActiveStatus(db[j])
    /\ db[j].age = "recent"
    /\ db' = [db EXCEPT ![j].age = "inactive"]
    /\ UNCHANGED <<faults, run, kjob, kills, mgr, crashes>>

\* Even --since passes: no manager reads the entry any more.
Expires(j) ==
    /\ Expiring
    /\ IF HasActiveStatus(db[j]) THEN db[j].age = "inactive"
                                 ELSE IsQueued(db[j]) /\ db[j].age = "recent"
    /\ db' = [db EXCEPT ![j].age = "expired"]
    /\ UNCHANGED <<faults, run, kjob, kills, mgr, crashes>>

ManagerWorks(m) ==
    \/ Fetch(m) \/ AskCluster(m) \/ AskRaises(m) \/ RetryExhausted(m) \/ RetryCheck(m) \/ RetryWrite(m)
    \/ CreateJob(m) \/ CreateExists(m) \/ Record(m) \/ Report(m)
    \/ StartSubmit(m) \/ CleanEnds(m) \/ SubmitDone(m)
    \/ \E j \in Jobs : NotStalled(m, j) \/ Stalled(m, j) \/ DashboardError(m, j)
                       \/ SubmitPick(m, j)

ManagerFails(m) == ObserversFail(m) \/ SubmitFails(m) \/ ReportFails(m) \/ Crash(m)

ManagerTypeOK ==
    /\ mgr \in [Managers -> Round]
    /\ crashes \in 0..MaxCrashes

=============================================================================
