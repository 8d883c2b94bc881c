----------------------------- MODULE ThreadHub -----------------------------
(***************************************************************************)
(* mapchete Hub with the "background-thread" job handler: post_job() hands  *)
(* the job to a ThreadPoolExecutor inside the server process.  With the     *)
(* memory registry the entry post_job() holds is the very object the        *)
(* registry keeps, so that assigning to it is a write to the registry; with *)
(* MongoDB it is a copy.                                                    *)
(***************************************************************************)
EXTENDS JobRun, Api, Sequences

CONSTANTS
    MaxParallel,     \* MHUB_MAX_PARALLEL_JOBS
    SharedEntries    \* the registry is MemoryStatusHandler

ASSUME MaxParallelAssumption == MaxParallel \in Nat \ {0}
ASSUME SharedEntriesAssumption == SharedEntries \in BOOLEAN

VARIABLE queue   \* the work queue of the thread pool, first in first out

vars == <<db, faults, run, api, queue>>

InQueue(j) == \E i \in DOMAIN queue : queue[i] = j
Running == {j \in Jobs : run[j].pc \notin {"idle", "finished"}}

Init ==
    /\ db = [j \in Jobs |-> AbsentEntry]
    /\ faults = MaxFaults
    /\ JobRunInit
    /\ ApiInit
    /\ queue = <<>>

-----------------------------------------------------------------------------
(***************************************************************************)
(* BackgroundThreadJobHandler.submit(): _thread_pool.submit(), and then     *)
(* job_entry.status = Status.pending.                                       *)
(***************************************************************************)
\* Mutant: the job never reaches the pool.
SubmitNothing(j) ==
    /\ api = [pc |-> "submit", job |-> j]
    /\ api' = [api EXCEPT !.pc = "created"]
    /\ UNCHANGED <<db, faults, run, queue>>

\* Mutant: the job is handed to the pool once more.
SubmitTwice(j) ==
    /\ api = [pc |-> "submit", job |-> j]
    /\ queue' = queue \o <<j, j>>
    /\ api' = [api EXCEPT !.pc = "created"]
    /\ UNCHANGED <<db, faults, run>>

Submit(j) ==
    /\ api = [pc |-> "submit", job |-> j]
    /\ queue' = Append(queue, j)
    /\ api' = [api EXCEPT !.pc = "created"]
    /\ UNCHANGED <<db, faults, run>>

(***************************************************************************)
(* The observers are made before anything else, and the messenger stores    *)
(* its Slack thread: when that call to the registry fails the request does, *)
(* and nobody has been told of the job.                                     *)
(***************************************************************************)
SubmitFails(j) ==
    /\ api = [pc |-> "submit", job |-> j]
    /\ Fault
    /\ api' = NoRequest
    /\ UNCHANGED <<db, run, queue>>

AssignPending(j) ==
    /\ api = [pc |-> "created", job |-> j]
    /\ db' = IF SharedEntries THEN [db EXCEPT ![j].status = "pending"] ELSE db
    /\ api' = NoRequest
    /\ UNCHANGED <<faults, run, queue>>

\* Mutant: one thread too many.
PoolStartTooMany ==
    /\ queue # <<>>
    /\ Cardinality(Running) <= MaxParallel
    /\ StartRun(Head(queue))
    /\ queue' = Tail(queue)
    /\ UNCHANGED <<db, faults, api>>

\* A worker thread takes the next job.
PoolStart ==
    /\ queue # <<>>
    /\ Cardinality(Running) < MaxParallel
    /\ StartRun(Head(queue))
    /\ queue' = Tail(queue)
    /\ UNCHANGED <<db, faults, api>>

(***************************************************************************)
(* The observers of a thread are the DBUpdater and then the messenger: when *)
(* chat_update() fails, which announces the statuses below, the registry    *)
(* has been told already.                                                   *)
(***************************************************************************)
Announced == {"running", "done", "failed", "cancelled", "rejected"}

AnnounceFails(j) ==
    /\ Cleared(j)
    /\ run[j].note \in Announced
    /\ Fault
    /\ db' = [db EXCEPT ![j] = Written(@, run[j].note)]
    /\ ObserverRaises(j)
    /\ UNCHANGED <<api, queue>>

\* The exception that left job_wrapper() ends up in a future nobody reads.
PoolFinish(j) ==
    /\ run[j].pc = "raised"
    /\ run' = [run EXCEPT ![j] = Resting("finished")]
    /\ UNCHANGED <<db, faults, api, queue>>

\* __exit__() waits for the pool to work off its queue: nothing is dropped.
Shutdown ==
    /\ api.pc = "idle"
    /\ api' = [NoRequest EXCEPT !.pc = "stopped"]
    /\ UNCHANGED <<db, faults, run, queue>>

-----------------------------------------------------------------------------
RunStep(j) == JobRunStep(j) /\ UNCHANGED <<api, queue>>
RequestStep(j) == ApiStep(j) /\ UNCHANGED <<run, queue>>

Next ==
    \/ PoolStart
    \/ Shutdown
    \/ \E j \in Jobs :
        \/ RunStep(j) \/ AnnounceFails(j) \/ PoolFinish(j)
        \/ RequestStep(j) \/ Submit(j) \/ SubmitFails(j) \/ AssignPending(j)

Spec == Init /\ [][Next]_vars

(***************************************************************************)
(* Threads make progress and execute() comes back; a request that has begun *)
(* is carried through.  Nobody has to post, to cancel or to shut down.      *)
(***************************************************************************)
Fairness ==
    /\ WF_vars(PoolStart)
    /\ \A j \in Jobs :
        /\ WF_vars(Updating(j) /\ UNCHANGED <<api, queue>>)
        /\ WF_vars(RateLimitElapses(j) /\ UNCHANGED <<api, queue>>)
        /\ WF_vars(Submit(j)) /\ WF_vars(AssignPending(j)) /\ WF_vars(PoolFinish(j))
        /\ WF_vars(CancelWrite(j) /\ UNCHANGED <<run, queue>>)

FairSpec == Spec /\ Fairness

-----------------------------------------------------------------------------
\* Every variable has its type, and the queue holds jobs.
TypeOK ==
    /\ StatusHandlerTypeOK
    /\ JobRunTypeOK
    /\ ApiTypeOK
    /\ queue \in Seq(Jobs)

(***************************************************************************)
(* A job whose status is not final is waiting in the pool, being executed,  *)
(* or about to be submitted: no step of submit() and of the pool, however   *)
(* they interleave with requests, drops a job that will then look pending   *)
(* or running for good.                                                     *)
(***************************************************************************)
InHand(j) == InQueue(j) \/ Busy(j) \/ api = [pc |-> "submit", job |-> j]

Forgotten == {j \in Jobs : Exists(j) /\ db[j].status \notin Terminal /\ ~InHand(j)}

NoJobForgotten == Forgotten = {}

(***************************************************************************)
(* What job_wrapper() swallows costs at most one job per call that failed,  *)
(* and takes no job along whose own calls went through: nobody but a failed *)
(* call leaves a job behind that looks pending or running.                  *)
(***************************************************************************)
ForgottenByFailuresOnly == Cardinality(Forgotten) + faults <= MaxFaults

(***************************************************************************)
(* A result that is stored is served by get_job_results(), unless the job   *)
(* was cancelled just after it was done: execute() reports "done" before    *)
(* job_wrapper() hands over the result, and no later report follows.        *)
(***************************************************************************)
ResultOnlyAfterDone ==
    \A j \in Jobs :
        db[j].result => ResultsResponse(db[j].status) = 200 \/ db[j].status = "cancelled"

(***************************************************************************)
(* A cancellation holds unless it comes while the DBUpdater is about to     *)
(* write what it has cleared, or was allowed to clear without a look.  In   *)
(* particular a job cancelled while it waits in the pool never runs: the    *)
(* first note of its execution finds the cancellation, since last_event     *)
(* starts at zero.  Only "failed" may still replace the status, since no    *)
(* report of a failure looks for a cancellation: the output path is         *)
(* rejected, or the registry does not answer.                               *)
(***************************************************************************)
CancelHolds ==
    \A j \in Jobs :
        [](db[j].status = "cancelled" /\ ~Cleared(j)
              => [](db[j].status \in {"cancelled", "failed"}))

(***************************************************************************)
(* A job that is done or failed stays settled: cancel_job(), which reads    *)
(* the status and writes it in two calls, may still call it cancelled, and  *)
(* a "done" that could not be announced becomes "failed"; but no restart,   *)
(* late report or second execution makes it look under way again.           *)
(***************************************************************************)
FinishedForGood ==
    \A j \in Jobs :
        [](db[j].status \in {"done", "failed"} => [](db[j].status \in Terminal))

(***************************************************************************)
(* Every job that was accepted ends up done, failed or cancelled.           *)
(***************************************************************************)
EveryJobSettles ==
    \A j \in Jobs : Exists(j) ~> db[j].status \in Terminal

(***************************************************************************)
(* A cancellation that nothing overwrites ends the run, even if execute()   *)
(* would go on reporting progress for ever: some note comes after the rate  *)
(* limit and finds it.                                                      *)
(***************************************************************************)
CancelStopsRun ==
    \A j \in Jobs : <>[](db[j].status = "cancelled") => <>[]~Busy(j)

(***************************************************************************)
(* Once a cancellation is stored no later report replaces it.  The DBUpdater*)
(* is commented "check always if job was cancelled", and the integration    *)
(* test raises if a cancelled job ends up done.                             *)
(***************************************************************************)
CancelledStays ==
    [][\A j \in Jobs : db[j].status = "cancelled" => db'[j].status # "done"]_vars

(***************************************************************************)
(* The status of a job whose execution is over says so: what submit()       *)
(* assigns to the entry does not undo what the thread reported.             *)
(***************************************************************************)
FinishedJobIsSettled ==
    \A j \in Jobs : run[j].pc = "finished" => db[j].status \in Terminal

-----------------------------------------------------------------------------
(***************************************************************************)
(* The hub as its clients may think of it: an accepted job waits, is worked *)
(* on by a thread, and is over once its execution has come back.            *)
(***************************************************************************)
LifeOf(j) ==
    CASE ~Exists(j) -> "none"
      [] run[j].pc = "finished" -> "over"
      [] j \in Running -> "working"
      [] OTHER -> "waiting"

Life == [j \in Jobs |-> LifeOf(j)]

Lifecycle == INSTANCE JobLifecycle
    WITH life <- Life, unanswered <- {}, Limit <- MaxParallel, Reopening <- FALSE

(***************************************************************************)
(* No job is executed twice, or before it is accepted, and at most          *)
(* MaxParallel are executed at a time: also if jobs are cancelled while     *)
(* they wait, and if calls to the registry fail.                            *)
(***************************************************************************)
ExecutedAtMostOnce == Lifecycle!Spec

(***************************************************************************)
(* Every accepted job is executed exactly once, and comes to its end.       *)
(***************************************************************************)
ExecutedOnce == Lifecycle!LiveSpec

=============================================================================
