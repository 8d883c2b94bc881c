------------------------------- MODULE JobRun -------------------------------
(***************************************************************************)
(* One execution of a job: job_wrapper() drives mapchete's execute(), which *)
(* reports to the observers; the DBUpdater observer looks for a             *)
(* cancellation and writes what it is told into the registry.  The look and *)
(* the write are two database calls, so they are two steps.  Runs of a job  *)
(* follow each other in the background thread pool or in worker pods, which *)
(* other modules add.                                                       *)
(***************************************************************************)
EXTENDS StatusHandler

CONSTANTS
    Reported,   \* what execute() reports in this instance, out of ExecuteNotes
    Retries     \* MHUB_RETRIES: how often execute() starts over

(***************************************************************************)
(* What the observers are notified of.  "result" and "rejected" (the output *)
(* path is not absolute) come from job_wrapper(), the others from execute().*)
(***************************************************************************)
ExecuteNotes == {"parsing", "initializing", "running", "progress",
                 "post_processing", "done", "retrying", "failed"}
Notes == ExecuteNotes \cup {"cancelled", "result", "rejected"}

ASSUME ReportedAssumption ==
    /\ Reported \subseteq ExecuteNotes
    /\ {"parsing", "running", "done"} \subseteq Reported
ASSUME RetriesAssumption == Retries \in Nat

VARIABLE run   \* per job: its current or last execution

(***************************************************************************)
(* pc: "notify" when a note is about to reach the DBUpdater, "checked" when *)
(* it has found the job not cancelled; recent: last_event is within         *)
(* event_rate_limit; retries: the restarts execute() has left.              *)
(***************************************************************************)
Run == [pc : {"idle", "notify", "checked", "finished", "raised"},
        note : Notes \cup {None}, recent : BOOLEAN, retries : 0..Retries]

Resting(pc) == [pc |-> pc, note |-> None, recent |-> FALSE, retries |-> 0]

Busy(j) == run[j].pc \in {"notify", "checked"}

JobRunInit == run = [j \in Jobs |-> Resting("idle")]

StartRun(j) ==
    \E note \in {"parsing", "rejected"} :
        run' = [run EXCEPT ![j] = [pc |-> "notify", note |-> note,
                                   recent |-> FALSE, retries |-> Retries]]

-----------------------------------------------------------------------------
(***************************************************************************)
(* DBUpdater.update().                                                      *)
(***************************************************************************)
\* Mutant: the rate limit guards the cancelled check of no note.
NeedsCheckNever(j) == FALSE

\* Mutant: progress never looks for a cancellation.
NeedsCheckStatusOnly(j) ==
    /\ ~run[j].recent
    /\ run[j].note \notin {"failed", "cancelled", "rejected", "progress"}

NeedsCheck(j) ==
    /\ ~run[j].recent
    /\ run[j].note \notin {"failed", "cancelled", "rejected"}

\* Progress within the rate limit is dropped, unless it completes the job.
MayDrop(j) == run[j].note = "progress" /\ run[j].recent

\* Mutant: the report of a bad output path does not settle the job.
WrittenStatusOfExecute(note) == IF note \in Status THEN note ELSE None

WrittenStatus(note) ==
    IF note = "rejected" THEN "failed" ELSE IF note \in Status THEN note ELSE None

Attributes(note) ==
    [WithStatus(WrittenStatus(note)) EXCEPT
        !.dask_dashboard_link = IF note = "running" THEN "url" ELSE None,
        !.result = IF note = "result" THEN TRUE ELSE None]

\* "retrying" first sets the dashboard link to None, in a call of its own.
Written(entry, note) ==
    IF note = "retrying"
    THEN SetAttributes(SetAttributes(entry, NoAttributes), Attributes(note))
    ELSE SetAttributes(entry, Attributes(note))

-----------------------------------------------------------------------------
(***************************************************************************)
(* What follows a note that went through.  An instance that leaves out      *)
(* "initializing" goes from "parsing" to "running".                         *)
(***************************************************************************)
Initializing == IF "initializing" \in Reported THEN "initializing" ELSE "running"

ExecuteOrder ==
    {<<"parsing", Initializing>>, <<"initializing", "running">>,
     <<"running", "progress">>, <<"running", "post_processing">>, <<"running", "done">>,
     <<"progress", "progress">>, <<"progress", "post_processing">>, <<"progress", "done">>,
     <<"post_processing", "done">>, <<"retrying", Initializing>>}

Executing == {"parsing", "initializing", "running", "progress", "post_processing", "retrying"}

\* Mutant: the restarts are not counted.
ExecuteGoesOnAgain(r, note) ==
    /\ note \in Reported
    /\ \/ <<r.note, note>> \in ExecuteOrder
       \/ r.note \in Executing /\ note \in {"failed", "retrying"}

\* Mutant: execute() starts over after it has reported its failure.
ExecuteGoesOnAfterFailure(r, note) ==
    /\ note \in Reported
    /\ \/ <<r.note, note>> \in ExecuteOrder
       \/ r.note \in Executing /\ note = "failed"
       \/ r.note \in Executing \cup {"failed"} /\ note = "retrying" /\ r.retries > 0

\* Between two notes execute() may also meet an error: it reports the failure,
\* or starts over if it may.
ExecuteGoesOn(r, note) ==
    /\ note \in Reported
    /\ \/ <<r.note, note>> \in ExecuteOrder
       \/ r.note \in Executing /\ note = "failed"
       \/ r.note \in Executing /\ note = "retrying" /\ r.retries > 0

Proceed(r, note) ==
    [pc |-> "notify",
     note |-> note,
     recent |-> r.recent \/ r.note \in {"running", "progress"},
     retries |-> IF note = "retrying" THEN r.retries - 1 ELSE r.retries]

RunBecomes(j, r) == run' = [run EXCEPT ![j] = r]

\* Mutant: job_wrapper() hands over the result whatever became of the job.
DeliveredAlwaysResult(j) ==
    \/ \E note \in Notes :
          ExecuteGoesOn(run[j], note) /\ RunBecomes(j, Proceed(run[j], note))
    \/ run[j].note \in {"done", "failed", "cancelled"}
          /\ RunBecomes(j, Proceed(run[j], "result"))
    \/ run[j].note = "result" /\ RunBecomes(j, Resting("finished"))
    \/ run[j].note = "rejected" /\ RunBecomes(j, Resting("raised"))

\* job_wrapper() hands over the result of a job that is done; its own report
\* of a bad output path ends in an exception.
Delivered(j) ==
    \/ \E note \in Notes :
          ExecuteGoesOn(run[j], note) /\ RunBecomes(j, Proceed(run[j], note))
    \/ run[j].note = "done" /\ RunBecomes(j, Proceed(run[j], "result"))
    \/ run[j].note \in {"result", "failed", "cancelled"} /\ RunBecomes(j, Resting("finished"))
    \/ run[j].note = "rejected" /\ RunBecomes(j, Resting("raised"))

-----------------------------------------------------------------------------
CheckPasses(j) ==
    /\ run[j].pc = "notify"
    /\ NeedsCheck(j)
    /\ db[j].status # "cancelled"
    /\ run' = [run EXCEPT ![j].pc = "checked"]
    /\ UNCHANGED <<db, faults>>

\* JobCancelledError leaves execute(), and job_wrapper() reports "cancelled".
CheckRaises(j) ==
    /\ run[j].pc = "notify"
    /\ NeedsCheck(j)
    /\ db[j].status = "cancelled"
    /\ run' = [run EXCEPT ![j].note = "cancelled"]
    /\ UNCHANGED <<db, faults>>

Cleared(j) ==
    \/ run[j].pc = "checked"
    \/ run[j].pc = "notify" /\ ~NeedsCheck(j)

Write(j) ==
    /\ Cleared(j)
    /\ db' = [db EXCEPT ![j] = Written(@, run[j].note)]
    /\ Delivered(j)
    /\ UNCHANGED faults

Drop(j) ==
    /\ Cleared(j)
    /\ MayDrop(j)
    /\ Delivered(j)
    /\ UNCHANGED <<db, faults>>

(***************************************************************************)
(* What becomes of the execution if an observer raises.  execute() reports  *)
(* its failure; the wrapper swallows what escapes execute() or the result,  *)
(* and lets escape what its own reports raise.                              *)
(***************************************************************************)
ObserverRaises(j) ==
    \/ run[j].note \in {"failed", "result"} /\ RunBecomes(j, Resting("finished"))
    \/ run[j].note \in {"cancelled", "rejected"} /\ RunBecomes(j, Resting("raised"))
    \/ /\ run[j].note \in Executing \cup {"done"}
       /\ run' = [run EXCEPT ![j].pc = "notify", ![j].note = "failed"]

\* An error before execute() has reported anything: the wrapper swallows it,
\* and nobody is told.
LeavesUnreported(j) ==
    /\ run[j].pc = "notify"
    /\ run[j].note = "parsing"
    /\ RunBecomes(j, Resting("finished"))

(***************************************************************************)
(* A database call of the DBUpdater times out; in a worker, whose Slack     *)
(* messenger is told first, a call to Slack fails; or execute() does not    *)
(* come to its first report.                                                *)
(***************************************************************************)
NotifyFails(j) ==
    /\ Busy(j)
    /\ Fault
    /\ ObserverRaises(j) \/ LeavesUnreported(j)
    /\ UNCHANGED db

RateLimitElapses(j) ==
    /\ run[j].pc = "notify"
    /\ run[j].recent
    /\ run' = [run EXCEPT ![j].recent = FALSE]
    /\ UNCHANGED <<db, faults>>

Updating(j) == CheckPasses(j) \/ CheckRaises(j) \/ Write(j) \/ Drop(j)

JobRunStep(j) == Updating(j) \/ NotifyFails(j) \/ RateLimitElapses(j)

JobRunTypeOK == run \in [Jobs -> Run]

=============================================================================
