---------------------------- MODULE SlackThread ----------------------------
(***************************************************************************)
(* The Slack thread of one job (mapchete_hub/observers/slack_messenger.py). *)
(* Every process that reports on a job builds a SlackMessenger from an      *)
(* entry it has read; a messenger whose entry names no thread opens one,    *)
(* with a first message later ones edit, and stores its identifier through  *)
(* its DBUpdater.  Each call to Slack and to the registry is a step; the    *)
(* texts are left out, and the registry always answers.                     *)
(***************************************************************************)
EXTENDS Naturals, Sequences

CONSTANTS
    None,
    Managed,      \* "k8s-managed-worker" handler, otherwise "background-thread"
    MaxBuilds,    \* bound: messengers built
    MaxNotes,     \* bound: what the execution reports
    MaxOutages    \* bound: calls to Slack that fail

ASSUME SlackAssumption ==
    /\ Managed \in BOOLEAN
    /\ {MaxBuilds, MaxNotes, MaxOutages} \subseteq Nat
    /\ None \notin Nat

\* The processes that build messengers: post_job(), cancel_job(), and with
\* Kubernetes the manager and the worker pods.
Actors == IF Managed THEN {"post", "cancel", "manager", "worker"} ELSE {"post", "cancel"}

\* Who notifies its observers of what execute() reports.
Executor == IF Managed THEN "worker" ELSE "post"

\* Mutant: cancel_job() hands its messenger a DBUpdater too.
RecordersAll == Actors

\* The messengers that are given a DBUpdater.
Recorders == Actors \ {"cancel"}

VARIABLES
    thread,      \* slack_thread_ds of the registry's entry; 0 if not set
    reading,     \* per actor: slack_thread_ds in the entry it has read last
    messenger,   \* per actor: its SlackMessenger
    opened,      \* threads opened so far, numbered from 1
    left         \* what the bounds leave

vars == <<thread, reading, messenger, opened, left>>

(***************************************************************************)
(* calls: what update() and __init__ have still to do: "init" sends the     *)
(* first message unless there is a thread, "text" posts a message, "edit"   *)
(* changes the first one.  record: thread_ts has to be stored.  serving:    *)
(* the request that built the messenger has not been answered.              *)
(***************************************************************************)
Messenger == [thread : Nat, calls : Seq({"init", "text", "edit"}),
              record : BOOLEAN, serving : BOOLEAN]

ASSUME NoMessenger == None \notin Messenger

Init ==
    /\ thread = 0
    /\ reading = [a \in Actors |-> None]
    /\ messenger = [a \in Actors |-> None]
    /\ opened = 0
    /\ left = [builds |-> MaxBuilds, notes |-> MaxNotes, outages |-> MaxOutages]

Built(a) == messenger[a] # None
Quiet(a) == Built(a) /\ messenger[a].calls = <<>> /\ ~messenger[a].record
Spend(what) == left[what] > 0 /\ left' = [left EXCEPT ![what] = @ - 1]

\* The server is in the middle of a request.
Serving ==
    \E a \in Actors \cap {"post", "cancel"} :
        IF Built(a) THEN messenger[a].serving ELSE reading[a] # None

-----------------------------------------------------------------------------
(***************************************************************************)
(* Reading the entry.  new() returns the one it has inserted; a pod is      *)
(* started after the manager has submitted the job, and may be killed and   *)
(* followed by another.                                                     *)
(***************************************************************************)
PostNew ==
    /\ reading["post"] = None
    /\ reading' = [reading EXCEPT !["post"] = 0]
    /\ UNCHANGED <<thread, messenger, opened, left>>

Reads(a) ==
    /\ reading["post"] # None
    /\ a # "post"
    /\ a = "cancel" => ~Serving
    /\ a = "worker" => Built("manager")
    /\ Built(a) => (Quiet(a) \/ a = "worker")
    /\ reading' = [reading EXCEPT ![a] = thread]
    /\ messenger' = [messenger EXCEPT ![a] = IF a = "manager" THEN @ ELSE None]
    /\ UNCHANGED <<thread, opened, left>>

(***************************************************************************)
(* update(): what it sends for a status, an exception and an executor.      *)
(***************************************************************************)
Send == <<"init", "text">>

StatusCalls(status) ==
    CASE status \in {"pending", "retrying"} -> Send
      [] status = "running" -> Send \o <<"edit">> \o Send        \* the executor
      [] status \in {"done", "cancelled"} -> Send \o <<"edit">>
      [] status = "failed" -> Send \o <<"edit">> \o Send         \* the exception
      [] OTHER -> <<>>

\* What an actor goes on to send once its messenger is built: cancel_job()
\* says so and reports the status, MHubWorkerJobHandler.submit() reports the
\* job as pending, the manager submits, retries or gives up.
Following(a) ==
    CASE a = "cancel" -> {Send \o StatusCalls("cancelled")}
      [] a = "post" /\ Managed -> {StatusCalls("pending")}
      [] a = "manager" -> {<<>>, StatusCalls("retrying"), StatusCalls("failed")}
      [] OTHER -> {<<>>}

\* __init__: a messenger without a thread sends the first message.  The
\* manager builds one for the retry and one for the submission, from the
\* same entry.
Build(a) ==
    /\ reading[a] # None
    /\ ~Built(a) \/ (a = "manager" /\ Quiet(a))
    /\ Spend("builds")
    /\ \E calls \in Following(a) :
        messenger' = [messenger EXCEPT ![a] =
            [thread |-> reading[a],
             calls |-> (IF reading[a] = 0 THEN <<"init">> ELSE <<>>) \o calls,
             record |-> FALSE,
             serving |-> a \in {"post", "cancel"}]]
    /\ UNCHANGED <<thread, reading, opened>>

\* The request is answered; the thread pool may be executing the job already.
Answer(a) ==
    /\ a \in {"post", "cancel"}
    /\ Quiet(a)
    /\ messenger[a].serving
    /\ messenger' = [messenger EXCEPT ![a].serving = FALSE]
    /\ UNCHANGED <<thread, reading, opened, left>>

\* The execution reports a status.
Notify ==
    /\ Quiet(Executor)
    /\ Spend("notes")
    /\ \E status \in {"running", "retrying", "done", "failed", "cancelled"} :
        messenger' = [messenger EXCEPT ![Executor].calls = StatusCalls(status)]
    /\ UNCHANGED <<thread, reading, opened>>

-----------------------------------------------------------------------------
(***************************************************************************)
(* The calls to Slack.                                                      *)
(***************************************************************************)
Due(a, call) ==
    /\ Built(a)
    /\ ~messenger[a].record
    /\ messenger[a].calls # <<>>
    /\ Head(messenger[a].calls) = call

Rest(a) == [messenger[a] EXCEPT !.calls = Tail(@)]
Becomes(a, m) == messenger' = [messenger EXCEPT ![a] = m]

\* send(): no first message is due once there is a thread.
SkipInit(a) ==
    /\ Due(a, "init")
    /\ messenger[a].thread # 0
    /\ Becomes(a, Rest(a))
    /\ UNCHANGED <<thread, reading, opened, left>>

\* Mutant: the thread is not stored.
OpensUnrecorded(a) ==
    /\ messenger[a].thread = 0
    /\ opened' = opened + 1
    /\ Becomes(a, [Rest(a) EXCEPT !.thread = opened + 1])

\* Mutant: the identifier is missing from the response.
OpensUnnamed(a) ==
    /\ messenger[a].thread = 0
    /\ opened' = opened + 1
    /\ Becomes(a, [Rest(a) EXCEPT !.thread = None])

\* _send(): a message posted outside any thread opens one, and is recorded.
Opens(a) ==
    /\ messenger[a].thread = 0
    /\ opened' = opened + 1
    /\ Becomes(a, [Rest(a) EXCEPT !.thread = opened + 1, !.record = a \in Recorders])

Posts(a) ==
    /\ messenger[a].thread # 0
    /\ Becomes(a, Rest(a))
    /\ UNCHANGED opened

Posting(a) == Due(a, "text") \/ (Due(a, "init") /\ messenger[a].thread = 0)

PostMessage(a) ==
    /\ Posting(a)
    /\ Opens(a) \/ Posts(a)
    /\ UNCHANGED <<thread, reading, left>>

\* A SlackApiError is logged, and the message is lost.
PostFails(a) ==
    /\ Posting(a)
    /\ Spend("outages")
    /\ Becomes(a, Rest(a))
    /\ UNCHANGED <<thread, reading, opened>>

\* Any other error, of the network say, leaves update() or the request.  An
\* executor whose messenger cannot be made executes nothing: left out.
PostRaises(a) ==
    /\ Posting(a)
    /\ messenger[a].calls # <<"init">>
    /\ Spend("outages")
    /\ messenger' = [messenger EXCEPT ![a].calls = <<>>]
    /\ UNCHANGED <<thread, reading, opened>>

Record(a) ==
    /\ Built(a)
    /\ messenger[a].record
    /\ thread' = messenger[a].thread
    /\ messenger' = [messenger EXCEPT ![a].record = FALSE]
    /\ UNCHANGED <<reading, opened, left>>

\* update_message(): without a thread the message is sent instead.
Edit(a) ==
    /\ Due(a, "edit")
    /\ Becomes(a, IF messenger[a].thread # 0 THEN Rest(a)
                  ELSE [Rest(a) EXCEPT !.calls = Send \o @])
    /\ UNCHANGED <<thread, reading, opened, left>>

\* Nothing catches the error of chat_update(): it leaves update(), and what
\* was to follow is not sent.
EditFails(a) ==
    /\ Due(a, "edit")
    /\ messenger[a].thread # 0
    /\ Spend("outages")
    /\ messenger' = [messenger EXCEPT ![a].calls = <<>>]
    /\ UNCHANGED <<thread, reading, opened>>

ActorStep(a) ==
    \/ Reads(a) \/ Build(a) \/ Answer(a)
    \/ SkipInit(a) \/ PostMessage(a) \/ PostFails(a) \/ PostRaises(a)
    \/ Record(a) \/ Edit(a) \/ EditFails(a)

Next == PostNew \/ Notify \/ \E a \in Actors : ActorStep(a)

Spec == Init /\ [][Next]_vars

-----------------------------------------------------------------------------
\* Every variable has its type.
TypeOK ==
    /\ thread \in Nat
    /\ reading \in [Actors -> Nat \cup {None}]
    /\ messenger \in [Actors -> Messenger \cup {None}]
    /\ opened \in Nat
    /\ left \in [builds : 0..MaxBuilds, notes : 0..MaxNotes, outages : 0..MaxOutages]

(***************************************************************************)
(* The identifier of the thread is set once, as the comment where it is     *)
(* stored says: no messenger, whenever its entry was read and whichever     *)
(* calls to Slack failed, opens another thread and replaces it.             *)
(***************************************************************************)
ThreadSetOnce == [][thread # 0 => thread' = thread]_vars

(***************************************************************************)
(* With background threads all messages of the execution go to the thread   *)
(* the registry names, even when the first message was lost and the         *)
(* messenger of a cancellation opened a thread of its own in between.       *)
(***************************************************************************)
OneThreadForTheJob ==
    LET m == messenger["post"] IN
    Built("post") => \/ m.thread = thread
                     \/ thread = 0 /\ m.record /\ m.thread # 0
=============================================================================
