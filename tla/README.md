# A verification project for mapchete Hub

mapchete Hub accepts jobs over HTTP, keeps them in a registry and has them
executed, by a thread of the server or by pods on Kubernetes. Several processes
read an entry of the registry, decide, and write to it later; none of them takes
a lock. This directory models that machinery in TLA+, checks it with TLC on
small instances, and proves with TLAPS what matters most for every instance.

All paths below are relative to `mapchete_hub/`.

## 1. The system

### 1.1 Components, their state, and how they interact

| Component | Source | State | Operations |
|---|---|---|---|
| Job registry | `db/`, `models.py` | one `JobEntry` per job: status, `submitted_to_k8s`, `k8s_attempts`, dashboard link, result, `updated`, Slack thread | `new()`, `job()`, `jobs(filter)`, `set()`; kept in memory or in MongoDB |
| REST API | `app.py` | none of its own; a request in progress holds the entry it read | `post_job`, `cancel_job`, `get_job_results`, listings |
| Job execution | `job_wrapper.py` | where `execute()` is | checks the output path, runs `mapchete.commands.execute`, hands over the result |
| DBUpdater | `observers/db_updater.py` | `last_event` | `update()`: looks for a cancellation, then writes what it is told |
| Slack messenger | `observers/slack_messenger.py` | thread and channel, taken from the entry it was built from | `update()`, `send()`, `update_message()`, cutting of long texts |
| Background thread handler | `job_handler/background_thread.py` | queue and threads of a pool | `submit()`, shutdown |
| Managed worker handler | `job_handler/mhub_worker.py` | none | `submit()`: reports the job as pending and leaves it to the manager |
| Kubernetes handler | `job_handler/k8s_worker.py` | none; the entries it hands out are readings | `submit()`, `is_stalled()`, `k8s_is_failed_or_gone()`, `k8s_retry()` |
| Manager | `cli/manager.py` | the entries of one round | `watch` (a loop), `clean` (once) |
| Worker | `cli/worker.py` | none | `run-job` in a pod |
| Kubernetes cluster | external, `k8s.py` | Job objects and pods | creation, restart up to `backoff_limit`, removal after a time |
| Dask clusters | `cluster.py` | the clusters, clients and executors a job holds; the `LocalCluster` of a process | `get_dask_executor()` and its context managers, `cluster_adapt()` |
| Server resources | `lifespan_resources.py`, `cli/server.py` | the open registry and handler | opening and closing them with the server |
| Settings, time helpers | `settings.py`, `timetools.py` | constants | merging of dask specifications, intervals, parsing, formatting |
| Geometry | `geometry.py` | none | the process area of a job |
| Names, logs | the rest | none | pure helpers |

The parts meet in the registry, and hardly anywhere else. `post_job()` inserts
an entry and calls the handler's `submit()`; the endpoints never await, so the
server handles one request at a time, but threads, managers and pods act between
two database calls of a request. An execution reports to its observers: the
DBUpdater raises `JobCancelledError` into `execute()` when it finds the entry
cancelled. The manager reads all entries once per round and judges the whole
round by that reading; the cluster is asked for the state of a job's Kubernetes
object, which has the job's name.

### 1.2 What is hard, and what makes each part correct

* **Read, then write.** The DBUpdater looks for a cancellation and writes in two
  calls, `cancel_job()` reads and writes in two calls, the manager writes by
  what it read a round ago, `submit()` creates a Kubernetes job and records it
  in two calls. Correct: attempts never exceed the configured retries, jobs are
  not resurrected, a cancellation is not lost.
* **Hand-overs.** A job passes from the request to the pool's queue to a thread,
  or from the registry to the manager to the cluster to a pod. Correct: it is
  never dropped in between, and always ends up done, failed or cancelled.
* **Failure.** Calls time out, pods are killed or fail to start, dashboards
  refuse connections, processes crash between two calls. Correct: active jobs
  whose Kubernetes job is gone are noticed and retried, a bounded number of times.
* **Limits.** Retries, parallel jobs, the rate limit of the DBUpdater.
  Correct: limits hold although what is counted is stale; the rate limit does
  not make a cancellation go unnoticed.
* **Announcements.** Every process builds its own Slack messenger. Correct: one
  job has one thread; a failing announcement does not undo what was reported.
* **Resources.** An executor is made in up to six steps, any of which may raise;
  threads share a `LocalCluster` and the registry with a server that may be
  stopping. Correct: what was opened is closed again, and not before the last
  one who uses it is done.
* **Merging.** Process areas, dask specifications and environments come from
  several places. Correct: what a job gives goes first, and nothing else is used.

`PROJECT.json` lists the hazards, each at its line, with the properties that
would catch it, or why none does.

## 2. The modules

| Module | Models | Variables |
|---|---|---|
| `StatusHandler` | the registry: entries, `new()`, `set()` (which drops `None`) | `db`, `faults` |
| `JobRun` (extends it) | one execution: `job_wrapper()`, `execute()`'s reports, the DBUpdater | `run` |
| `Api` (extends `StatusHandler`) | requests: posting, cancelling in two calls, the answer for results | `api` |
| `JobLifecycle` | the abstract life of a job: waiting, worked on, over; a limit | `life`, and `unanswered` as an input |
| `ThreadHub` (composes `JobRun`, `Api`) | the hub with background threads; implements `JobLifecycle` | `queue` |
| `Kubernetes` (extends `JobRun`) | Job objects and worker pods | `kjob`, `kills` |
| `Manager` (extends `Kubernetes`) | `watch` and `clean`, stalled and queued jobs | `mgr`, `crashes` |
| `K8sHub` (composes `Manager`, `Api`) | the hub on Kubernetes, with either handler; implements `JobLifecycle` | |
| `SlackThread` | the Slack thread of one job and all messengers built for it | `thread`, `reading`, `messenger`, `opened`, `left` |
| `DaskExecutors` | the dask resources of jobs and the life of the server that has the pool | `settings`, `process`, `registry`, `job`, `open`, `local`, `faults` |
| `ClusterAdapt`, `SlackText`, `JobQueries`, `ProcessArea`, `DaskSpecs`, `TimeTools`, `K8sConditions` | functions without state | |
| `MCK8sHub`, `MCFunctions` | instances for TLC; the other runs check their module directly | |
| `PartsProofs`, `ThreadHubProofs`, `K8sHubProofs`, `K8sLimitsProofs`, `DaskExecutorsProofs`, `SlackThreadProofs`, `FunctionsProofs` | proofs | |

### 2.1 How state and steps correspond to the code

Every call to the database, the cluster or Slack is a step, and everything a
process does up to its next call belongs to the same step. `map` in
`PROJECT.json` names the lines of every definition.

* **Entries** keep the fields other parts act on. Of `updated` they keep the age:
  recent, older than `inactive_since` ("inactive"), or older than `--since`
  ("expired"), in which case no manager reads the entry. `set()` is translated with its rule
  that attributes that are `None` are dropped, in one operator for both registries.
* **An execution** is a note on its way through the observers: `pc = "notify"`
  before the DBUpdater's look, `"checked"` between the look and the write. The
  order of the notes is `execute()`'s, which is external: `ExecuteOrder`.
  `Reported` selects what an instance reports. `recent` is the rate limit:
  within it there is no look (`NeedsCheck`), and progress is dropped
  (`MayDrop`). What `execute()` and `job_wrapper()` make of an observer that
  raises is `ObserverRaises`: a database call that fails (`NotifyFails`), or an
  announcement to Slack that fails after the DBUpdater has written
  (`AnnounceFails` of `ThreadHub`, where the messenger is the second observer; in
  a pod it is the first, and nothing has been written). An error before the first
  report, refused dask specifications for one, is swallowed by `job_wrapper()` with
  the status as it was (`LeavesUnreported`): with background threads nobody
  repairs that, and `ForgottenByFailuresOnly` counts it among the failures.
* **Requests.** `api` holds the one request the server is at. `CancelRead` and
  `CancelWrite` are the two calls of `cancel_job()`.
* **The pool** is a first-in-first-out queue. `AssignPending` is the assignment
  after `_thread_pool.submit()`; `SubmitFails` is the messenger failing to store
  its thread, before the job is handed over. With the memory registry (`SharedEntries`) it
  writes to the registry's own entry, with MongoDB to a copy.
* **The manager** keeps its reading (`snap`) for the round. For a stalled job it
  asks the cluster (`AskCluster`), looks for a cancellation and writes
  "retrying" (`RetryCheck`, `RetryWrite`), creates the Kubernetes job
  (`CreateJob`), and records it (`Record`). Crashes and failing calls may come
  between any two. A call that fails while observers are made, before or after
  "retrying" is written, ends the handling of that job (`ObserversFail`).
* **The cluster** (external) has at most one object per job name, starts failed
  pods over up to `backoff_limit`, and removes finished objects. A pod that
  finds its job neither pending nor retrying exits successfully.
  `FailedConditions` and `CompleteConditions` are the conditions it gives an object
  whose job has ended; one that `V1JobCondition` refuses makes reading the status raise (`AskRaises`), which
  ends the manager's round.
* **The abstract life.** `ThreadHub` maps a job to "waiting" until a thread takes
  it, to "working" while the thread is at it, and to "over" after; `K8sHub` maps
  queued, active and final entries. There a job that is over may be worked on
  again (`Reopening`): stale retries do that. And one that is worked on may be put
  back while its post is still being answered (`unanswered`): the report that
  `mhub_worker.py:43` writes last may come after the manager has taken the job up.
* **Executors.** `Steps` lists what `get_dask_executor()` does for each type of
  cluster, `Contexts` which of it is left in the end. A step may raise
  (`OpenRaises`); contexts are left innermost first (`Close`), and `execute()` may
  start over with a new executor. `local` holds the processes whose `LocalCluster`
  is open: the server, which starts and stops as `setup_lifespan_resources()`
  says, or the pod of a job. `Jobs` are those posted before a shutdown.
* **Slack.** An actor reads the entry and later builds a messenger from that
  reading; `calls` is what `update()` has still to send. Opening a thread and
  storing its identifier are two steps. `_send()` catches Slack's own errors only
  (`PostFails`); any other leaves `update()` (`PostRaises`).

### 2.2 What is abstracted

The age of an entry is judged when it is read; lists of jobs are worked off in
any order; a call that fails has had no effect, except that an announcement
comes after the write. Slack's threads are left out of the hub modules, where an
announcement only succeeds or fails, and the registry's failures out of
`SlackThread`. In `K8sHub` the report of `NotifyPending` needs no look for a
cancellation: no request to cancel the job can come before the one that posts it
is answered. `DaskExecutors` knows of an execution only that it requests an
executor, submits tasks and may start over; the hub modules know nothing of dask.
Closing a context does not fail. Texts, configurations and logs are left out.

## 3. What TLC checks

### 3.1 Runs that pass

| Run | Instance | Shows |
|---|---|---|
| `ThreadHubJobs` | two jobs, one thread, restarts, cancellations | `NoJobForgotten`: a job without a final status is always in the request, the queue or a thread; `EveryJobSettles`; `ExecutedOnce`: the hub implements `JobLifecycle` with its liveness |
| `ThreadHubCancelled` | the same with two failing calls (registry or Slack) and endless progress | `CancelHolds`: a cancelled job never looks under way again, unless a report on its way has already looked; `ForgottenByFailuresOnly`: a failing call loses one job at most; `FinishedForGood`: a job that is done or failed stays so; `CancelStopsRun`: a lasting cancellation stops the run in spite of the rate limit; `ResultOnlyAfterDone`; `ExecutedAtMostOnce`: `JobLifecycle` without liveness, whatever fails |
| `K8sAttempts` | one job, the API submitting it, `watch` and `clean` overlapping, one failing call or one crash, failing workers, a killed pod (`OneThingGoesWrong`) | `AttemptsWithinLimit`; `UnnoticedByFailuresOnly`: a failed call or a crash hides one job at most from the managers |
| `K8sRetries` | one job posted to the managed handler, two retries, three killed pods, cancellation, an entry that may expire | `LaunchesWithinBudget`: the cluster is asked no more often than counted; `StalledJobsAreRetried`: an active entry whose Kubernetes job is gone is marked, so that it will be noticed; `EveryJobSettles`, unless the entry is older than `--since` |
| `K8sQueue` | two queued jobs, room for one, a killed pod, a cluster that sends `FailureTarget` and `SuccessCriteriaMet` | `MaxParallelRespected`; `QueueIsWorkedOff`: the hub implements `JobLifecycle` with its liveness. Nothing is posted meanwhile |
| `SlackThreads` | background threads, two failing calls to Slack, two cancellations | `ThreadSetOnce`, `OneThreadForTheJob` |
| `DaskExecutors` | two jobs, one or two at a time, in threads or pods, under all settings of the two URLs (none, empty, set), one restart, two failing calls, a shutdown at any time | `ClusterOutlivesClients`, `RegistryOutlivesThreads`, `NothingLeftOpen`, `ClustersWithinLimit`, `EverythingEnds`; `RefusedByFailuresOnly`: a job without an executor has a failed call to show for it, unless a URL is the empty string |
| `PureFunctions` | all inputs up to a bound | `AdaptWithinLimits`, `ChunksFit`, `TextKept`, `SameJobsFound`, `AreaAsAskedFor`, `SpecsReachCluster`, `EnvironmentReachesCluster`, `ConditionsRead` |

`TypeOK` is checked in one run for each of the four state machines.

Bounds. One or two jobs: jobs interact through the queue and the limit of
parallel jobs only, and two with room for one exhibit both. One retry makes
three distinct numbers of attempts (none, one, the limit), two retries are used
where launches are counted. Two managers are all there are. One failure of each
kind suffices to separate any two calls of a process; `K8sAttempts` has a failing call
or a crash but not both, and a killed pod only without a failing call and while `clean` sleeps;
its properties are proved for any number of these (that a failure hides one job *at most*
is only told apart with several jobs: by the theorem, not by this run). Three kills exceed the
budget of two retries. `MaxLaunches` bounds a history variable one above what
the property allows. The memory of a round is complete: nothing of `snap` is
bounded. For texts, six characters with chunks of up to four reach all three
levels of cutting; 20 tasks reach an eighth above and below the configured
limits; six ticks make three milliseconds; two cells make areas that overlap, differ
or are disjoint; three conditions have one between two others. Two jobs share a
`LocalCluster`, and two failing calls let a restart fail as well. Entries expire
in `K8sRetries` only, and refused conditions are sent in `K8sQueue` only, to keep
each run small.

Each property has a mutant: a small change of a mapped definition, of the kind a
programmer might make, under which TLC finds the property violated.

### 3.2 Fairness

* Executions (`Updating`), pods (`PodStep`), the pool and a request that has
  begun are weakly fair: threads and processes run, and `execute()` comes back.
  Where the liveness is about jobs that end, `Reported` leaves out "progress",
  which could go on for ever; `CancelStopsRun` keeps it, with time passing
  (`RateLimitElapses`).
* `watch` is weakly fair: it is a loop, and its process is restarted by its
  deployment when it ends. `clean` is not: nobody has to start it.
* The cluster removes finished objects (`ttl_seconds_after_finished`), and an
  entry nobody updates grows old (`TimePasses`): time passes.
* In `DaskExecutors` jobs make progress, which includes that calls to dask return,
  and a shutdown that has begun is carried through. Nobody has to stop the server,
  and it need not start.
* No fairness for posting, cancelling, failing, killing, crashing or expiring.

### 3.3 Disagreements between the code and what is said of it

Each of these runs checks one property, and TLC shows a behaviour of the code
that violates it.

* `ThreadHubCancelLost` (`CancelledStays`): a cancellation stored between the
  DBUpdater's look and its write (`observers/db_updater.py:53`) is overwritten,
  and the job ends up done.
* `ThreadHubMemoryRegistry` (`FinishedJobIsSettled`): with the memory registry,
  `job_handler/background_thread.py:78` sets a job to pending after its thread
  may have finished.
* `K8sCrash` (`EveryJobSettles`): a crash between creating and recording a
  Kubernetes job, and the loss of the pod, leave a job nobody retries
  (`job_handler/k8s_worker.py:94` and `:212`).
* `K8sStaleRetry` (`OnlyRunningJobsAreRetried`): a job that finished after the
  round's reading is set to retrying and run again (`cli/manager.py:193`).

Others were met and have no run: the manager's messenger, built from an entry
read before the thread was stored, opens a second thread and replaces the
identifier that "will be set only once" (`observers/slack_messenger.py:170`;
`SlackThread` with `Managed = TRUE` violates `ThreadSetOnce`); `@retry` on the generator
`gateway_cluster_executor()` never retries (`cluster.py:133`); bounds and an area
in a configuration, or an area file there, are refused (`geometry.py:90` and
`:103`, which `AreaAsAskedFor` names as exceptions); the manager logs "next check
in 1d" (`cli/manager.py:109`) and then does not pause at all, since the line after it
takes `.seconds` of the interval, which has no days (`SleepsAsAnnounced` of
`TimeTools` states what is announced, and the lemma of 4.4 for which intervals it
holds); an empty URL makes every
executor fail (`cluster.py:41` and `job_handler/background_thread.py:50`); the DBUpdater "resets" the dashboard
link to `None`, which `set()` drops (`observers/db_updater.py:66`), and
`get_job_results()` raises for a job that is retrying or post-processing
(`app.py:323`).

## 4. What is proved

Proofs hold for every value of the constants, under the named assumptions of the
modules (finite sets of jobs, bounds that are natural numbers, `None` distinct
from the values it stands beside). Hypotheses beyond these are in the theorem.
Of the properties the runs that pass check, all invariants have a theorem, and so do
the action properties and the refinements as far as they are safety. The parts of every inductive invariant named here were checked by TLC
on the instances before they were proved.

### 4.1 Background threads (`ThreadHubProofs`)

* `TypeCorrect`.
* `FailuresForgetAtMostOne`: `[]ForgottenByFailuresOnly`, if the registry does not
  share its entries (`ThreadHubMemoryRegistry` shows what happens if it does). The
  inductive invariant adds that the notes that end a run ("result") come after a
  final status has been written (`ResultIsLast`); a step forgets nothing, or one job
  with a call that fails (`ForgetsLittle`). `NothingForgotten`
  (`[]NoJobForgotten` where calls do not fail, `Reliable`) is a corollary.
* `ImplementsLifecycle`: `ExecutedAtMostOnce`, that is, the threaded hub
  implements `JobLifecycle` for any jobs and threads, whatever fails. Initial
  states map to initial states and every step to a step or a stutter. The
  invariant `IOnce` says that a job is at one place only: the queue has no job
  twice and none that is running or finished, and what is about to be submitted
  waits nowhere yet.
* `ResultsServed`: `[]ResultOnlyAfterDone`, if entries are not shared. With
  shared entries the late assignment of "pending" hides a stored result. `IResults` adds to
  `IOnce` that a result is reported after the job was reported as done, and that
  nothing is reported after it.
* `CancellationKept`: `CancelHolds`, with either registry and whatever fails. A
  cancelled job is in one of these situations (`NeverRuns`, `CancelKept`): it waits, and its
  first note will find the cancellation, since no look came before and the rate limit
  does not hide it; its next note looks first; or it has only a failure left to
  report. `ICancelled` adds that the job being posted is not cancelled.
* `FinishedIsFinal`: `FinishedForGood`, if entries are not shared. Once a job is
  done or failed its execution has begun and has nothing left to report that would
  reopen it (`Ends`), which `IFinished` adds to `IOnce`.
* `FinishedSaysSo`: `[]FinishedJobIsSettled` under `Reliable`. The run
  `ThreadHubMemoryRegistry` refutes it for shared entries, so the shared entry is
  the cause, and the only one.

### 4.2 Kubernetes (`K8sHubProofs`, `K8sLimitsProofs`)

* `TypeCorrect`. The invariant says more than that variables have types: a round
  at work on a job has one, a pod's failures stay within the backoff limit.
* `AttemptsLimited`: `[]AttemptsWithinLimit`, for any number of jobs, both
  managers, either handler, and any number of crashes, failing calls and kills.
  The property is not inductive: attempts are written as one more than what was
  *read*. `IInv` adds `EntriesOK` (an entry never submitted has no attempts),
  `RoundsOK` (what a round has read keeps within the limit, what it is about to
  submit is below it, what it holds as queued has none) and `ClusterOK` (a pod
  runs only under an active Kubernetes job that has restarts left). Since every
  write comes from a reading below the limit, how stale the reading is does not
  matter.
* `FailuresHideAtMostOne`: `[]UnnoticedByFailuresOnly`, without any hypothesis: both
  handlers, overlapping managers, cancellations, any kills, crashes and failing calls.
  A job that is merely unnoticed is too late to count, since the step that hid it came
  earlier; the inductive invariant `ITracked` counts the jobs out of track (`Untracked`)
  instead, whose Kubernetes job, while it lives, is not recorded nor about to be.
  `LosesLittle` says that a step loses track of no job, or of the one its process was at where
  a call fails or a process dies. `K8sCrash` shows what becomes of that one.
* `StalledNoticed`: `[]StalledJobsAreRetried`, if no call fails and no process
  crashes (`Untroubled`): then no job is ever out of track.
* `LaunchesLimited`: `[]LaunchesWithinBudget`, if moreover one manager does all the
  submitting (`Solitary`). `ICounted` adds that what this manager has read of
  a job's attempts is still true, so that each launch is counted. Two who submit
  the same job count it once: overlapping managers launch more often than they count.
* `ParallelLimited`: `[]MaxParallelRespected`, if "watch" is the only manager,
  nothing is cancelled, grows old or fails (`Undisturbed`), and each post is
  answered while its job has no final status (`PostsAnswered`, a condition on the
  behaviour: the request's last write is not overtaken by the whole execution). Pods may be
  killed, fail and be started over. `IQueue` says why a count that is a round
  old is good enough: every job active now was active in the reading or has been counted
  since, a job to be retried has no pod, and what was read as queued has not been
  submitted by anyone else. TLC finds the limit exceeded when any one of these
  hypotheses is dropped: a job that is cancelled or forgotten is not
  counted while its pod goes on reporting, and a request whose last write comes late puts a running
  or finished job back to pending. `BacklogLimited` has no condition on posts: it is the
  case of a queue that is worked off, which `K8sQueue` checks.
* `QueueImplementsLifecycle`: under `Undisturbed` and `PostsAnswered` the hub
  implements `JobLifecycle` without liveness, while jobs go on being posted. It
  covers the answer that comes too late (`mhub_worker.py:43`): a manager may take a
  job up before its post is answered, and the answer puts it back from "working" to
  "waiting". The theorem says that nothing else does. What remains assumed is that a
  job is not over by then. `BacklogImplementsLifecycle`
  assumes nothing of posts: for a backlog of any size, which `K8sQueue` checks for
  two jobs, no job goes back to the queue.
* `JobLifecycle!LimitHolds`: the abstract specification keeps its limit, so that
  its implementations do.

### 4.3 Executors and Slack (`DaskExecutorsProofs`, `SlackThreadProofs`)

* `TypeCorrect`, `ClustersOutlive`, `RegistryOutlives`, `NothingLeft`,
  `ClustersLimited`, `RefusalsCounted`: each invariant that the run `DaskExecutors`
  checks, for any number of jobs, restarts and failing calls, under all settings.
  One invariant carries them: `ServerOK` (the pool has jobs only between the
  start of the server and its end, and never more than it has threads) and
  `JobOK` for each job: between its executors it has nothing open but what no context
  manager closes; without a gateway only a client and an executor are ever open, and
  the `LocalCluster` they use is; a connection stays open only after a failing
  call. `RefusedByFailuresOnly` needs these and is carried along: a `LocalCluster`
  is open for each job that may ask for it, so that only a failing call refuses one.
* `SlackThreadProofs!TypeCorrect`, with either handler; `OneThread` and
  `ThreadStays` (`OneThreadForTheJob`, `ThreadSetOnce`) for background threads.
  With the managed handler both are false (3.3), and the hypothesis says so.
  The invariant: the one messenger that stores a thread was built from a new
  entry and is built once; until it has stored one the entry has none; the
  messenger of a cancellation stores nothing.

### 4.4 Functions without state (`FunctionsProofs`)

Lemmas state what the operators do for all arguments, without the bounds of
`MCFunctions`; the theorems conclude from them that the invariants of the run hold
under any bounds.

* `AdaptKeepsLimits`, `LimitsKept`: adaptive scaling stays within what is
  configured, for all numbers of tasks and workers.
* `SleptAsAnnouncedBelowADay`: the manager sleeps as long as it announces, to the
  second, for intervals of less than a day, and for no others.
* `ConditionsAreFound`, `ConditionsKept`: a condition is found wherever it is
  in the list.
* `RegistriesAnswerAlike`, `SameJobs`: MongoDB finds every job the memory
  registry finds, and others only within the millisecond of a date asked for: cutting
  times to milliseconds keeps their order.
* `NoOtherArea`, `AreaKept`: no other process area than the one asked for.
* `SpecsReach`, `SpecsKept` and `EnvironmentReaches`, `EnvironmentKept`: the
  precedence of dask specifications and environments.
* `LongTextsAreCut`, and from it `ChunksAreCut` and `TextsReadAlike` (`ChunksFit`,
  `TextKept`): whatever the text and the limit, every chunk fits and nothing a
  reader sees is lost. The functions of `SlackText` recur over prefixes; what they
  compute is proved by induction on the length. The library's induction theorems
  take a predicate, which no backend can instantiate, so `UpTo` states induction for
  a set of numbers: it follows from the least number outside of the set.

`PartsProofs` holds the lemmas on the operators the hubs share: `set()` keeps
entries well formed, each step of a run or a request keeps its record well formed.

### 4.5 Only model-checked

* Liveness (`EveryJobSettles`, `CancelStopsRun`, `EverythingEnds`, and the fairness in
  `ExecutedOnce` and `QueueIsWorkedOff`): it needs fairness and `ENABLED`, which
  the prover does not handle.

## 5. What is not modelled

* Names and logging: nothing depends on them. `cli/` beyond `watch`, `clean` and
  `run-job` hands options to uvicorn.
* `get_job()`, the descriptions of processes, and everything an entry shows to
  users only: progress, timestamps, logs, GeoJSON. They read and format.
* `date_to_str()` and `parse_to_date()`: formatting and parsing by the library;
  `to_env_vars()` and `to_worker_env_vars()`: a dictionary of texts for the pod.
* The reprojection of process areas, and the tile of a point: mapchete's.
* Reading pod logs and connecting to the cluster (`k8s.py`): I/O.
* What dask does inside: a scheduler that dies shows as tasks that end.
* More than one uvicorn worker: the models have one server process.

## 6. The plan

Done: 1. `StatusHandler`, `JobRun`, `Api`, `ThreadHub`; 2. `Kubernetes`,
`Manager`, `K8sHub`; 3. the proofs of types, `NoJobForgotten`,
`AttemptsWithinLimit`; 4. `SlackThread` and the functions without state;
5. `JobLifecycle` and both refinements; 6. ages, refused conditions, failing
announcements; 7. `DaskExecutors`; 8. areas, specifications, intervals and
conditions; 9. the proofs of the remaining invariants, of the refinement of `K8sHub`
and of the functions without state; 10. what holds where calls fail and processes
die, counted (`ForgottenByFailuresOnly`, `UnnoticedByFailuresOnly`), and kept
cancellations and final statuses; 11. the cutting of texts for all texts.

Left:

1. *Weaker hypotheses* for `LaunchesLimited` and `ParallelLimited`: launches
   counted up to one for each failure, and cancellations that find their job in the
   queue.
2. *Safety behind liveness*: that a step towards a final status is always
   possible, as an invariant, for `EveryJobSettles` and `EverythingEnds`.
