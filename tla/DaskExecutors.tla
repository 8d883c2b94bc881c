--------------------------- MODULE DaskExecutors ---------------------------
(***************************************************************************)
(* The dask resources of jobs (mapchete_hub/cluster.py): while execute()    *)
(* works on a job it holds a DaskExecutor, got from get_dask_executor() and *)
(* its context managers.  Depending on the settings the executor uses a     *)
(* cluster requested from a gateway, an existing scheduler, or a            *)
(* LocalCluster, which the thread pool's jobs share (background_thread.py)  *)
(* and a worker pod has for itself (cli/worker.py).  The server opens the   *)
(* registry before the pool and its cluster and closes it after them        *)
(* (lifespan_resources.py).                                                 *)
(***************************************************************************)
EXTENDS Naturals, FiniteSets, Sequences

CONSTANTS
    Jobs, None,
    Server,        \* the process that keeps the thread pool
    MaxParallel,   \* bound of MHUB_MAX_PARALLEL_JOBS
    Restarts,      \* MHUB_RETRIES: how often execute() starts over
    MaxFaults      \* bound: how many calls may fail

ASSUME ServerAssumption == Server \notin Jobs /\ None \notin Jobs
ASSUME JobsAssumption == IsFiniteSet(Jobs)
ASSUME BoundsAssumption == MaxParallel \in Nat \ {0} /\ Restarts \in Nat /\ MaxFaults \in Nat

VARIABLES
    settings,   \* where jobs are executed and which dask is configured
    process,    \* the server that keeps the pool: where its life is
    registry,   \* whether the server's registry is open
    job,        \* per job: how far its execution is
    open,       \* per job: what it has opened and nobody has closed yet
    local,      \* the processes whose LocalCluster is open
    faults      \* calls that may still fail

vars == <<settings, process, registry, job, open, local, faults>>

Holders == Jobs \cup {Server}

Settings == [home : {"thread", "pod"}, max_parallel_jobs : 1..MaxParallel,
             dask_gateway_url : {None, "", "url"}, dask_scheduler_url : {None, "", "url"}]

\* ClusterSetup takes an empty URL for none.
ClusterType ==
    IF settings.dask_gateway_url = "url" THEN "gateway"
    ELSE IF settings.dask_scheduler_url = "url" THEN "scheduler"
    ELSE "local"

\* The thread handler and the worker take it for one.
NeedsLocalCluster(s) == s.dask_gateway_url = None /\ s.dask_scheduler_url = None

Owner(j) == IF settings.home = "thread" THEN Server ELSE j

(***************************************************************************)
(* The steps that lead to the executor, and those of them that enter a      *)
(* context, which is left in the end.  The connection to the gateway and    *)
(* the client of an existing scheduler are no contexts.                     *)
(***************************************************************************)
Steps == [gateway |-> <<"connection", "cluster", "adapt", "client", "disconnect", "executor">>,
          local |-> <<"client", "adapt", "executor">>,
          scheduler |-> <<"client", "executor">>]

\* Mutant: the cluster is not closed with the job.
ContextsWithoutCluster(type) ==
    IF type = "scheduler" THEN <<"executor">> ELSE <<"client", "executor">>

Contexts(type) ==
    CASE type = "gateway" -> <<"cluster", "client", "executor">>
      [] type = "local" -> <<"client", "executor">>
      [] type = "scheduler" -> <<"executor">>

Resources == {"connection", "cluster", "client", "executor"}

(***************************************************************************)
(* pc: "waiting" in the pool or for a pod; "outside" of any executor;       *)
(* "opening", having made "made" of its steps; "tasks" are submitted;       *)
(* "closing"; "returned" to execute(); "over".                              *)
(***************************************************************************)
Job == [pc : {"waiting", "outside", "opening", "tasks", "closing", "returned",
              "over"},
        made : 0..6, restarts : 0..Restarts]

Init ==
    /\ settings \in Settings
    /\ process = (IF settings.home = "thread" THEN "starting" ELSE "down") /\ registry = FALSE
    /\ job = [j \in Jobs |-> [pc |-> "waiting", made |-> 0, restarts |-> Restarts]]
    /\ open = [j \in Jobs |-> {}]
    /\ local = {}
    /\ faults = MaxFaults

-----------------------------------------------------------------------------
Goes(j, pc) == job' = [job EXCEPT ![j].pc = pc]

Fault ==
    /\ faults > 0
    /\ faults' = faults - 1

InPool == {j \in Jobs : job[j].pc \notin {"waiting", "over"}}

\* Mutant: one thread too many.
ThreadStartsTooMany(j) ==
    /\ settings.home = "thread" /\ process \in {"up", "stopping"}
    /\ job[j].pc = "waiting"
    /\ Cardinality(InPool) <= settings.max_parallel_jobs
    /\ Goes(j, "outside")
    /\ UNCHANGED <<settings, process, registry, open, local, faults>>

ThreadStarts(j) ==
    /\ settings.home = "thread" /\ process \in {"up", "stopping"}
    /\ job[j].pc = "waiting"
    /\ Cardinality(InPool) < settings.max_parallel_jobs
    /\ Goes(j, "outside")
    /\ UNCHANGED <<settings, process, registry, open, local, faults>>

\* run_job() starts a LocalCluster of its own, if it takes one to be needed.
PodStarts(j) ==
    /\ settings.home = "pod"
    /\ job[j].pc = "waiting"
    /\ local' = IF NeedsLocalCluster(settings) THEN local \cup {j} ELSE local
    /\ Goes(j, "outside")
    /\ UNCHANGED <<settings, process, registry, open, faults>>

PodStartFails(j) ==
    /\ settings.home = "pod" /\ NeedsLocalCluster(settings)
    /\ job[j].pc = "waiting"
    /\ Fault
    /\ Goes(j, "over")
    /\ UNCHANGED <<settings, process, registry, open, local>>

-----------------------------------------------------------------------------
\* execute() calls the executor_getter.
RequestExecutor(j) ==
    /\ job[j].pc = "outside"
    /\ Goes(j, "opening")
    /\ UNCHANGED <<settings, process, registry, open, local, faults>>

\* local_cluster_executor() was given no cluster: ValueError.
NoLocalCluster(j) == ClusterType = "local" /\ Owner(j) \notin local

NextStep(j) == Steps[ClusterType][job[j].made + 1]

Open(j) ==
    LET step == NextStep(j) IN
    /\ job[j].pc = "opening"
    /\ ~NoLocalCluster(j)
    /\ job' = [job EXCEPT ![j].made = @ + 1,
                          ![j].pc = IF step = "executor" THEN "tasks" ELSE @]
    /\ open' = [open EXCEPT ![j] = IF step = "disconnect" THEN @ \ {"connection"}
                                   ELSE @ \cup ({step} \cap Resources)]
    /\ UNCHANGED <<settings, process, registry, local, faults>>

(***************************************************************************)
(* A step raises.  The @retry of gateway_cluster_executor() sees none of    *)
(* this: it wraps the making of the generator, whose body runs later.       *)
(***************************************************************************)
OpenRaises(j) ==
    /\ job[j].pc = "opening"
    /\ IF NoLocalCluster(j) THEN UNCHANGED faults ELSE Fault
    /\ Goes(j, "closing")
    /\ UNCHANGED <<settings, process, registry, open, local>>

\* The tasks are done, fail or are cancelled.
TasksEnd(j) ==
    /\ job[j].pc = "tasks"
    /\ Goes(j, "closing")
    /\ UNCHANGED <<settings, process, registry, open, local, faults>>

\* The contexts are left, the innermost first.
Entered(j) == {i \in DOMAIN Contexts(ClusterType) : Contexts(ClusterType)[i] \in open[j]}

Close(j) ==
    /\ job[j].pc = "closing"
    /\ \E i \in Entered(j) :
        /\ \A k \in Entered(j) : k <= i
        /\ open' = [open EXCEPT ![j] = @ \ {Contexts(ClusterType)[i]}]
    /\ UNCHANGED <<settings, process, registry, job, local, faults>>

Closed(j) ==
    /\ job[j].pc = "closing"
    /\ Entered(j) = {}
    /\ Goes(j, "returned")
    /\ UNCHANGED <<settings, process, registry, open, local, faults>>

-----------------------------------------------------------------------------
\* Mutant: the restarts are not counted.
StartOverUncounted(j) ==
    /\ job[j].pc = "returned"
    /\ job[j].restarts > 0
    /\ job' = [job EXCEPT ![j].pc = "opening", ![j].made = 0]
    /\ UNCHANGED <<settings, process, registry, open, local, faults>>

\* Mutant: it starts over without end.
StartOverUnlimited(j) ==
    /\ job[j].pc = "returned"
    /\ job' = [job EXCEPT ![j].pc = "opening", ![j].made = 0, ![j].restarts = @ - 1]
    /\ UNCHANGED <<settings, process, registry, open, local, faults>>

\* execute() starts over after one of retry_on_exception.
StartOver(j) ==
    /\ job[j].pc = "returned"
    /\ job[j].restarts > 0
    /\ job' = [job EXCEPT ![j].pc = "opening", ![j].made = 0, ![j].restarts = @ - 1]
    /\ UNCHANGED <<settings, process, registry, open, local, faults>>

\* Mutant: the cluster a job uses is closed with it, shared or not.
JobEndsCluster(j) ==
    /\ job[j].pc \in {"outside", "returned"}
    /\ Goes(j, "over")
    /\ local' = local \ {Owner(j)}
    /\ UNCHANGED <<settings, process, registry, open, faults>>

\* job_wrapper() returns or raises; a pod closes its LocalCluster all the same.
JobEnds(j) ==
    /\ job[j].pc \in {"outside", "returned"}
    /\ Goes(j, "over")
    /\ local' = local \ {j}
    /\ UNCHANGED <<settings, process, registry, open, faults>>

-----------------------------------------------------------------------------
(***************************************************************************)
(* setup_lifespan_resources(): Slack is told, the registry is opened, and   *)
(* the handler starts its pool and, if needed, its cluster.  On the way out *)
(* the pool works off its queue, and then what was opened is closed in the  *)
(* opposite order.                                                          *)
(***************************************************************************)
OpenRegistry ==
    /\ process = "starting"
    /\ process' = "connected" /\ registry' = TRUE
    /\ UNCHANGED <<settings, job, open, local, faults>>

EnterHandler ==
    /\ process = "connected"
    /\ process' = "up"
    /\ local' = IF NeedsLocalCluster(settings) THEN local \cup {Server} ELSE local
    /\ UNCHANGED <<settings, registry, job, open, faults>>

\* Slack, the registry or dask raises: the contexts entered are left.
StartFails ==
    /\ process \in {"starting", "connected"}
    /\ Fault
    /\ process' = IF registry THEN "closed" ELSE "down"
    /\ UNCHANGED <<settings, registry, job, open, local>>

\* Mutant: the cluster is closed at once, the pool's threads are waited for.
ServerStopsCluster ==
    /\ process = "up"
    /\ process' = "stopping"
    /\ local' = local \ {Server}
    /\ UNCHANGED <<settings, registry, job, open, faults>>

ServerStops ==
    /\ process = "up"
    /\ process' = "stopping"
    /\ UNCHANGED <<settings, registry, job, open, local, faults>>

PoolIsDone == \A j \in Jobs : job[j].pc = "over"

ExitHandler ==
    /\ process = "stopping"
    /\ PoolIsDone
    /\ process' = "closed"
    /\ local' = local \ {Server}
    /\ UNCHANGED <<settings, registry, job, open, faults>>

\* Mutant: the registry is closed with the first sign of a shutdown.
CloseRegistryFirst ==
    /\ process \in {"stopping", "closed"} /\ registry
    /\ process' = IF process = "closed" THEN "down" ELSE process
    /\ registry' = FALSE
    /\ UNCHANGED <<settings, job, open, local, faults>>

CloseRegistry ==
    /\ process = "closed"
    /\ process' = "down" /\ registry' = FALSE
    /\ UNCHANGED <<settings, job, open, local, faults>>

-----------------------------------------------------------------------------
Progress(j) ==
    \/ ThreadStarts(j) \/ PodStarts(j) \/ RequestExecutor(j) \/ Open(j)
    \/ OpenRaises(j) /\ NoLocalCluster(j)
    \/ TasksEnd(j) \/ Close(j) \/ Closed(j) \/ StartOver(j) \/ JobEnds(j)

Next ==
    \/ \E j \in Jobs : Progress(j) \/ PodStartFails(j) \/ OpenRaises(j)
    \/ OpenRegistry \/ EnterHandler \/ StartFails
    \/ ServerStops \/ ExitHandler \/ CloseRegistry

\* Threads, pods and the calls they make come to an end.
Fairness ==
    /\ WF_vars(ExitHandler \/ CloseRegistry)
    /\ \A j \in Jobs : WF_vars(Progress(j))

Spec == Init /\ [][Next]_vars /\ Fairness

-----------------------------------------------------------------------------
\* Every variable has its type.
TypeOK ==
    /\ settings \in Settings
    /\ process \in {"starting", "connected", "up", "stopping", "closed", "down"}
    /\ registry \in BOOLEAN
    /\ job \in [Jobs -> Job]
    /\ open \in [Jobs -> SUBSET Resources]
    /\ local \subseteq Holders
    /\ faults \in 0..MaxFaults

(***************************************************************************)
(* The LocalCluster is open as long as a job has a client of it: the pool's *)
(* jobs share it with a server that may be stopping.                        *)
(***************************************************************************)
ClusterOutlivesClients ==
    \A j \in Jobs : ClusterType = "local" /\ open[j] # {} => Owner(j) \in local

(***************************************************************************)
(* The registry is open as long as a thread may report to it: a shutdown    *)
(* waits for the queue before it closes the registry.                       *)
(***************************************************************************)
RegistryOutlivesThreads == settings.home = "thread" /\ InPool # {} => registry

(***************************************************************************)
(* Whatever raises on the way to the executor, a job that has none leaves   *)
(* neither a cluster nor an executor behind, and no client but that of an   *)
(* existing scheduler.  Only a failure leaves the gateway connected.        *)
(***************************************************************************)
MayStayOpen ==
    IF ClusterType = "scheduler" THEN {"client"}
    ELSE IF faults < MaxFaults THEN {"connection"} ELSE {}

NothingLeftOpen ==
    \A j \in Jobs :
        job[j].pc \in {"waiting", "outside", "returned", "over"} => open[j] \subseteq MayStayOpen

(***************************************************************************)
(* The server never holds more clusters of the gateway than it may execute  *)
(* jobs in parallel.                                                        *)
(***************************************************************************)
ClustersWithinLimit ==
    settings.home = "thread" =>
        Cardinality({j \in Jobs : "cluster" \in open[j]}) <= settings.max_parallel_jobs

(***************************************************************************)
(* Only a failing call keeps a try of execute() from its executor: the jobs *)
(* whose last try got none cost one each.  A shutdown, the jobs of the pool *)
(* that end before or a restart never take away the LocalCluster that a job *)
(* is going to use.  The exception is a URL that is set to the empty string *)
(* (cluster.py:41): no cluster is made, and all jobs are refused.           *)
(***************************************************************************)
Refused == {j \in Jobs : /\ job[j].pc \in {"closing", "returned"}
                         /\ job[j].made < Len(Steps[ClusterType])}

EmptyUrlMistaken == ClusterType = "local" /\ ~NeedsLocalCluster(settings)

RefusedByFailuresOnly ==
    ~EmptyUrlMistaken => Cardinality(Refused) + faults <= MaxFaults

(***************************************************************************)
(* Every job of a pod or of a server that has started comes to its end,     *)
(* whatever fails and starts over, and so does a shutdown, which waits for  *)
(* all of them.                                                             *)
(***************************************************************************)
EverythingEnds ==
    /\ \A j \in Jobs : settings.home = "pod" \/ process = "up" ~> job[j].pc = "over"
    /\ process = "stopping" ~> process = "down"

=============================================================================
