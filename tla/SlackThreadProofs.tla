------------------------ MODULE SlackThreadProofs ------------------------
(***************************************************************************)
(* Proofs about SlackThread: types whoever executes the job, and with       *)
(* background threads one Slack thread for the job, for every number of     *)
(* cancellations, reports and failing calls to Slack.                       *)
(***************************************************************************)
EXTENDS SlackThread, SequenceTheorems, TLAPS

Call == {"init", "text", "edit"}

\* What the steps of an actor may do to the messengers: one of them changes.
OnlyChanges(a) == \A b \in Actors \ {a} : messenger'[b] = messenger[b]

-----------------------------------------------------------------------------
\* update() sends a list of calls.
LEMMA CallsAreLists ==
    /\ <<>> \in Seq(Call) /\ <<"init">> \in Seq(Call) /\ Send \in Seq(Call)
    /\ \A status : StatusCalls(status) \in Seq(Call)
  <1>1. <<>> \in Seq(Call) /\ <<"init">> \in Seq(Call) /\ <<"edit">> \in Seq(Call)
    BY DEF Call
  <1>2. Send \in Seq(Call)
    BY DEF Send, Call
  <1>3. Send \o <<"edit">> \in Seq(Call)
    BY <1>1, <1>2, ConcatProperties
  <1>4. Send \o <<"edit">> \o Send \in Seq(Call)
    BY <1>2, <1>3, ConcatProperties
  <1>5. ASSUME NEW status PROVE StatusCalls(status) \in Seq(Call)
    BY <1>1, <1>2, <1>3, <1>4 DEF StatusCalls
  <1> QED
    BY <1>1, <1>2, <1>5

LEMMA FollowingAreLists == \A a \in Actors : Following(a) \subseteq Seq(Call)
  <1>1. Send \o StatusCalls("cancelled") \in Seq(Call)
    BY CallsAreLists, ConcatProperties
  <1> QED
    BY <1>1, CallsAreLists DEF Following

LEMMA PostIsActor == "post" \in Actors /\ "cancel" \in Actors /\ Executor \in Actors
  BY DEF Actors, Executor

LEMMA SpendOK ==
    ASSUME TypeOK, NEW what \in {"builds", "notes", "outages"}, Spend(what)
    PROVE  left' \in [builds : 0..MaxBuilds, notes : 0..MaxNotes, outages : 0..MaxOutages]
  <1>1. MaxBuilds \in Nat /\ MaxNotes \in Nat /\ MaxOutages \in Nat
    BY SlackAssumption
  <1>2. /\ left.builds \in 0..MaxBuilds /\ left.notes \in 0..MaxNotes
        /\ left.outages \in 0..MaxOutages
    BY DEF TypeOK
  <1>3. CASE what = "builds"
    BY <1>1, <1>2, <1>3 DEF TypeOK, Spend
  <1>4. CASE what = "notes"
    BY <1>1, <1>2, <1>4 DEF TypeOK, Spend
  <1>5. CASE what = "outages"
    BY <1>1, <1>2, <1>5 DEF TypeOK, Spend
  <1> QED
    BY <1>3, <1>4, <1>5

LEMMA BuiltOK ==
    ASSUME TypeOK, NEW a \in Actors, Built(a)
    PROVE  /\ messenger[a] \in Messenger
           /\ messenger[a].thread \in Nat /\ messenger[a].calls \in Seq(Call)
           /\ messenger[a].record \in BOOLEAN /\ messenger[a].serving \in BOOLEAN
  BY DEF TypeOK, Built, Messenger, Call

LEMMA Changed ==
    ASSUME TypeOK, NEW a \in Actors, NEW m \in Messenger \cup {None},
           messenger' = [messenger EXCEPT ![a] = m]
    PROVE  /\ messenger' \in [Actors -> Messenger \cup {None}]
           /\ messenger'[a] = m /\ OnlyChanges(a)
  BY DEF TypeOK, OnlyChanges

\* One call less to make.
LEMMA RestOK ==
    ASSUME TypeOK, NEW a \in Actors, Built(a), messenger[a].calls # <<>>
    PROVE  /\ Rest(a) \in Messenger
           /\ Rest(a).thread = messenger[a].thread /\ Rest(a).record = messenger[a].record
           /\ Rest(a).calls \in Seq(Call)
  <1>1. Tail(messenger[a].calls) \in Seq(Call)
    BY BuiltOK, HeadTailProperties
  <1> QED
    BY <1>1, BuiltOK DEF Rest, Messenger, Call

-----------------------------------------------------------------------------
(***************************************************************************)
(* The steps of a messenger that neither open a thread nor store one: they  *)
(* leave what it knows of threads as it is.                                 *)
(***************************************************************************)
Sends(a) ==
    SkipInit(a) \/ PostFails(a) \/ PostRaises(a) \/ Edit(a) \/ EditFails(a) \/ Answer(a)

SameThread(a) ==
    /\ Built(a) /\ messenger'[a] \in Messenger
    /\ messenger'[a].thread = messenger[a].thread
    /\ messenger'[a].record = messenger[a].record

LEMMA SendsOK ==
    ASSUME TypeOK, NEW a \in Actors, Sends(a)
    PROVE  /\ TypeOK' /\ SameThread(a) /\ OnlyChanges(a)
           /\ UNCHANGED <<thread, reading, opened>>
  <1>1. Built(a) /\ UNCHANGED <<thread, reading, opened>>
    BY DEF Sends, SkipInit, PostFails, PostRaises, Posting, Edit, EditFails, Answer, Quiet, Due
  <1>2. left' \in [builds : 0..MaxBuilds, notes : 0..MaxNotes, outages : 0..MaxOutages]
    BY SpendOK DEF Sends, SkipInit, PostFails, PostRaises, Edit, EditFails, Answer, TypeOK
  <1>3. ASSUME NEW m \in Messenger, m.thread = messenger[a].thread,
               m.record = messenger[a].record, messenger' = [messenger EXCEPT ![a] = m]
        PROVE  TypeOK' /\ SameThread(a) /\ OnlyChanges(a)
    BY <1>1, <1>2, <1>3, Changed DEF TypeOK, SameThread
  <1>4. CASE SkipInit(a)
    BY <1>1, <1>3, <1>4, RestOK DEF SkipInit, Due, Becomes
  <1>5. CASE PostFails(a)
    BY <1>1, <1>3, <1>5, RestOK DEF PostFails, Posting, Due, Becomes
  <1>6. CASE Edit(a)
    <2> DEFINE longer == [Rest(a) EXCEPT !.calls = Send \o Rest(a).calls]
    <2>1. /\ Rest(a) \in Messenger /\ Rest(a).thread = messenger[a].thread
          /\ Rest(a).record = messenger[a].record /\ Rest(a).calls \in Seq(Call)
      BY <1>1, <1>6, RestOK DEF Edit, Due
    <2>2. Send \o Rest(a).calls \in Seq(Call)
      BY <2>1, CallsAreLists, ConcatProperties
    <2>3. /\ longer \in Messenger /\ longer.thread = messenger[a].thread
          /\ longer.record = messenger[a].record
      BY <2>1, <2>2 DEF Messenger, Call
    <2>4. \/ messenger' = [messenger EXCEPT ![a] = Rest(a)]
          \/ messenger' = [messenger EXCEPT ![a] = longer]
      BY <1>6 DEF Edit, Becomes
    <2> HIDE DEF longer
    <2> QED
      BY <1>1, <1>3, <2>1, <2>3, <2>4
  <1>7. CASE EditFails(a) \/ PostRaises(a)
    <2> DEFINE m == [messenger[a] EXCEPT !.calls = <<>>]
    <2>1. m \in Messenger /\ m.thread = messenger[a].thread /\ m.record = messenger[a].record
      BY <1>1, BuiltOK, CallsAreLists DEF Messenger, Call
    <2>2. messenger' = [messenger EXCEPT ![a] = m]
      BY <1>7 DEF EditFails, PostRaises
    <2> HIDE DEF m
    <2> QED
      BY <1>1, <1>3, <2>1, <2>2
  <1>8. CASE Answer(a)
    <2> DEFINE m == [messenger[a] EXCEPT !.serving = FALSE]
    <2>1. m \in Messenger /\ m.thread = messenger[a].thread /\ m.record = messenger[a].record
      BY <1>1, BuiltOK DEF Messenger
    <2>2. messenger' = [messenger EXCEPT ![a] = m]
      BY <1>8 DEF Answer
    <2> HIDE DEF m
    <2> QED
      BY <1>1, <1>3, <2>1, <2>2
  <1> QED
    BY <1>4, <1>5, <1>6, <1>7, <1>8 DEF Sends

LEMMA NotifyOK ==
    ASSUME TypeOK, Notify
    PROVE  /\ TypeOK' /\ SameThread(Executor) /\ OnlyChanges(Executor)
           /\ UNCHANGED <<thread, reading, opened>>
  <1>1. PICK status : messenger' = [messenger EXCEPT ![Executor].calls = StatusCalls(status)]
    BY DEF Notify
  <1> DEFINE m == [messenger[Executor] EXCEPT !.calls = StatusCalls(status)]
  <1>2. Built(Executor) /\ Executor \in Actors
    BY PostIsActor DEF Notify, Quiet
  <1>3. /\ m \in Messenger /\ m.thread = messenger[Executor].thread
        /\ m.record = messenger[Executor].record
    BY <1>2, BuiltOK, CallsAreLists DEF Messenger, Call
  <1>4. messenger' = [messenger EXCEPT ![Executor] = m]
    BY <1>1
  <1>5. left' \in [builds : 0..MaxBuilds, notes : 0..MaxNotes, outages : 0..MaxOutages]
    BY SpendOK DEF Notify
  <1>6. UNCHANGED <<thread, reading, opened>>
    BY DEF Notify
  <1> HIDE DEF m
  <1>7. /\ messenger' \in [Actors -> Messenger \cup {None}]
        /\ messenger'[Executor] = m /\ OnlyChanges(Executor)
    BY <1>2, <1>3, <1>4, Changed
  <1> QED
    BY <1>2, <1>3, <1>5, <1>6, <1>7 DEF TypeOK, SameThread

-----------------------------------------------------------------------------
(***************************************************************************)
(* The other steps: an actor reads the entry, builds a messenger, opens a   *)
(* thread or posts to it, and stores the thread.                            *)
(***************************************************************************)
LEMMA PostNewOK ==
    ASSUME TypeOK, PostNew
    PROVE  /\ TypeOK' /\ reading'["post"] = 0
           /\ UNCHANGED <<thread, messenger, opened>>
  <1>1. reading' \in [Actors -> Nat \cup {None}] /\ reading'["post"] = 0
    BY PostIsActor DEF PostNew, TypeOK
  <1> QED
    BY <1>1 DEF PostNew, TypeOK

LEMMA ReadsOK ==
    ASSUME TypeOK, NEW a \in Actors, Reads(a)
    PROVE  /\ TypeOK' /\ OnlyChanges(a) /\ a # "post"
           /\ reading'["post"] = reading["post"]
           /\ a # "manager" => messenger'[a] = None
           /\ UNCHANGED <<thread, opened>>
  <1>1. thread \in Nat /\ a # "post" /\ UNCHANGED <<thread, opened, left>>
    BY DEF Reads, TypeOK
  <1>2. reading' \in [Actors -> Nat \cup {None}] /\ reading'["post"] = reading["post"]
    BY <1>1, PostIsActor DEF Reads, TypeOK
  <1> DEFINE m == IF a = "manager" THEN messenger[a] ELSE None
  <1>3. m \in Messenger \cup {None} /\ (a # "manager" => m = None)
    BY DEF TypeOK
  <1>4. messenger' = [messenger EXCEPT ![a] = m]
    BY DEF Reads
  <1> HIDE DEF m
  <1>5. /\ messenger' \in [Actors -> Messenger \cup {None}]
        /\ messenger'[a] = m /\ OnlyChanges(a)
    BY <1>3, <1>4, Changed
  <1> QED
    BY <1>1, <1>2, <1>3, <1>5 DEF TypeOK

LEMMA BuildOK ==
    ASSUME TypeOK, NEW a \in Actors, Build(a)
    PROVE  /\ TypeOK' /\ OnlyChanges(a)
           /\ reading[a] # None /\ (a # "manager" => ~Built(a))
           /\ messenger'[a].thread = reading[a] /\ ~messenger'[a].record
           /\ UNCHANGED <<thread, reading, opened>>
  <1>1. PICK calls \in Following(a) :
            messenger' = [messenger EXCEPT ![a] =
                [thread |-> reading[a],
                 calls |-> (IF reading[a] = 0 THEN <<"init">> ELSE <<>>) \o calls,
                 record |-> FALSE,
                 serving |-> a \in {"post", "cancel"}]]
    BY DEF Build
  <1> DEFINE all == (IF reading[a] = 0 THEN <<"init">> ELSE <<>>) \o calls
             m == [thread |-> reading[a], calls |-> all, record |-> FALSE,
                   serving |-> a \in {"post", "cancel"}]
  <1>2. all \in Seq(Call)
    BY <1>1, CallsAreLists, FollowingAreLists, ConcatProperties
  <1>3. /\ reading[a] \in Nat /\ reading[a] # None /\ (a # "manager" => ~Built(a))
        /\ UNCHANGED <<thread, reading, opened>>
    BY DEF Build, TypeOK
  <1>4. messenger' = [messenger EXCEPT ![a] = m]
    BY <1>1
  <1> HIDE DEF all
  <1>5. m \in Messenger /\ m.thread = reading[a] /\ m.record = FALSE
    BY <1>2, <1>3 DEF Messenger, Call
  <1> HIDE DEF m
  <1>6. /\ messenger' \in [Actors -> Messenger \cup {None}]
        /\ messenger'[a] = m /\ OnlyChanges(a)
    BY <1>4, <1>5, Changed
  <1>7. left' \in [builds : 0..MaxBuilds, notes : 0..MaxNotes, outages : 0..MaxOutages]
    BY SpendOK DEF Build
  <1> QED
    BY <1>3, <1>5, <1>6, <1>7 DEF TypeOK

LEMMA PostMessageOK ==
    ASSUME TypeOK, NEW a \in Actors, PostMessage(a)
    PROVE  /\ TypeOK' /\ OnlyChanges(a) /\ Built(a) /\ messenger'[a] \in Messenger
           /\ UNCHANGED <<thread, reading>>
           /\ \/ SameThread(a)
              \/ /\ messenger[a].thread = 0 /\ messenger'[a].thread # 0
                 /\ messenger'[a].record = (a \in Recorders)
  <1>1. /\ Built(a) /\ messenger[a].calls # <<>> /\ UNCHANGED <<thread, reading, left>>
        /\ opened \in Nat
    BY DEF PostMessage, Posting, Due, TypeOK
  <1>2. /\ Rest(a) \in Messenger /\ Rest(a).thread = messenger[a].thread
        /\ Rest(a).record = messenger[a].record
    BY <1>1, RestOK
  <1>3. CASE Posts(a)
    <2>1. messenger' = [messenger EXCEPT ![a] = Rest(a)] /\ opened' = opened
      BY <1>3 DEF Posts, Becomes
    <2>2. /\ messenger' \in [Actors -> Messenger \cup {None}]
          /\ messenger'[a] = Rest(a) /\ OnlyChanges(a)
      BY <1>2, <2>1, Changed
    <2> QED
      BY <1>1, <1>2, <2>1, <2>2 DEF TypeOK, SameThread
  <1>4. CASE Opens(a)
    <2> DEFINE m == [Rest(a) EXCEPT !.thread = opened + 1, !.record = a \in Recorders]
    <2>1. /\ messenger' = [messenger EXCEPT ![a] = m] /\ opened' = opened + 1
          /\ messenger[a].thread = 0
      BY <1>4 DEF Opens, Becomes
    <2>2. m \in Messenger /\ m.thread = opened + 1 /\ m.record = (a \in Recorders)
      <3> DEFINE n == [Rest(a) EXCEPT !.thread = opened + 1]
      <3>1. n \in Messenger /\ n.thread = opened + 1
        BY <1>1, <1>2 DEF Messenger
      <3>2. m = [n EXCEPT !.record = a \in Recorders]
        OBVIOUS
      <3>3. (a \in Recorders) \in BOOLEAN
        OBVIOUS
      <3> HIDE DEF n, m
      <3> QED
        BY <3>1, <3>2, <3>3 DEF Messenger
    <2> HIDE DEF m
    <2>3. /\ messenger' \in [Actors -> Messenger \cup {None}]
          /\ messenger'[a] = m /\ OnlyChanges(a)
      BY <2>1, <2>2, Changed
    <2>4. opened' \in Nat /\ opened + 1 # 0
      BY <1>1, <2>1
    <2> QED
      BY <1>1, <2>1, <2>2, <2>3, <2>4 DEF TypeOK
  <1> QED
    BY <1>3, <1>4 DEF PostMessage

LEMMA RecordOK ==
    ASSUME TypeOK, NEW a \in Actors, Record(a)
    PROVE  /\ TypeOK' /\ OnlyChanges(a) /\ Built(a) /\ messenger[a].record
           /\ thread' = messenger[a].thread
           /\ messenger'[a] \in Messenger
           /\ messenger'[a].thread = messenger[a].thread /\ ~messenger'[a].record
           /\ UNCHANGED <<reading, opened>>
  <1> DEFINE m == [messenger[a] EXCEPT !.record = FALSE]
  <1>1. /\ Built(a) /\ messenger[a].record /\ thread' = messenger[a].thread
        /\ messenger' = [messenger EXCEPT ![a] = m]
        /\ UNCHANGED <<reading, opened, left>>
    BY DEF Record
  <1>2. /\ messenger[a].thread \in Nat /\ m \in Messenger
        /\ m.thread = messenger[a].thread /\ m.record = FALSE
    BY <1>1, BuiltOK DEF Messenger
  <1> HIDE DEF m
  <1>3. /\ messenger' \in [Actors -> Messenger \cup {None}]
        /\ messenger'[a] = m /\ OnlyChanges(a)
    BY <1>1, <1>2, Changed
  <1> QED
    BY <1>1, <1>2, <1>3 DEF TypeOK

LEMMA TypesKept == TypeOK /\ [Next]_vars => TypeOK'
  <1> SUFFICES ASSUME TypeOK, [Next]_vars PROVE TypeOK'
    OBVIOUS
  <1>1. CASE UNCHANGED vars
    BY <1>1 DEF TypeOK, vars
  <1>2. CASE PostNew
    BY <1>2, PostNewOK
  <1>3. CASE Notify
    BY <1>3, NotifyOK
  <1>4. ASSUME NEW a \in Actors, ActorStep(a) PROVE TypeOK'
    BY <1>4, SendsOK, ReadsOK, BuildOK, PostMessageOK, RecordOK DEF ActorStep, Sends
  <1> QED
    BY <1>1, <1>2, <1>3, <1>4 DEF Next

LEMMA InitTyped == Init => TypeOK
  BY SlackAssumption DEF Init, TypeOK

(***************************************************************************)
(* Every variable keeps its type: what a messenger still has to send is a   *)
(* list of calls it knows, and what it stores is a thread.                  *)
(***************************************************************************)
THEOREM TypeCorrect == Spec => []TypeOK
  BY InitTyped, TypesKept, PTL DEF Spec

-----------------------------------------------------------------------------
(***************************************************************************)
(* With background threads only the messenger of post_job() stores a        *)
(* thread, and it is built once, from the entry new() has returned.  A      *)
(* thread it has not stored yet leaves the entry without one.               *)
(***************************************************************************)
PostReadsNew == reading["post"] \in {None, 0}

NothingStoredBefore == ~Built("post") => thread = 0

StoredOnce == Built("post") /\ messenger["post"].record => thread = 0

CancelStoresNothing == Built("cancel") => ~messenger["cancel"].record

IInv == /\ TypeOK
        /\ PostReadsNew /\ NothingStoredBefore /\ StoredOnce /\ CancelStoresNothing
        /\ OneThreadForTheJob

LEMMA InThreads ==
    ASSUME ~Managed
    PROVE  /\ Actors = {"post", "cancel"} /\ Recorders = {"post"} /\ Executor = "post"
  BY DEF Actors, Recorders, Executor

LEMMA InitInvariant == Init => IInv
  BY PostIsActor, InitTyped
  DEF Init, IInv, PostReadsNew, NothingStoredBefore, StoredOnce, CancelStoresNothing,
      OneThreadForTheJob, Built

\* A messenger that knows of no other thread than before disturbs nothing.
LEMMA SameThreadKeeps ==
    ASSUME ~Managed, IInv, TypeOK', NEW a \in Actors, SameThread(a), OnlyChanges(a),
           UNCHANGED <<thread, reading>>
    PROVE  IInv' /\ (thread # 0 => thread' = thread)
  <1>1. \A b \in {"post", "cancel"} :
            /\ Built(b)' => Built(b)
            /\ Built(b) => /\ messenger'[b].thread = messenger[b].thread
                           /\ messenger'[b].record = messenger[b].record
    BY InThreads DEF SameThread, OnlyChanges, Built
  <1>2. Built("post") => Built("post")'
    BY InThreads, NoMessenger DEF SameThread, OnlyChanges, Built
  <1> QED
    BY <1>1, <1>2
    DEF IInv, PostReadsNew, NothingStoredBefore, StoredOnce, CancelStoresNothing,
        OneThreadForTheJob

LEMMA NextInvariant ==
    ASSUME ~Managed, IInv, [Next]_vars
    PROVE  IInv' /\ (thread # 0 => thread' = thread)
  <1>1. TypeOK' /\ TypeOK
    BY TypesKept DEF IInv
  <1>2. CASE UNCHANGED vars
    BY <1>1, <1>2
    DEF vars, IInv, PostReadsNew, NothingStoredBefore, StoredOnce, CancelStoresNothing,
        OneThreadForTheJob, Built
  <1>3. CASE PostNew
    BY <1>1, <1>3, PostNewOK
    DEF IInv, PostReadsNew, NothingStoredBefore, StoredOnce, CancelStoresNothing,
        OneThreadForTheJob, Built
  <1>4. CASE Notify
    BY <1>1, <1>4, NotifyOK, PostIsActor, SameThreadKeeps
  <1>5. ASSUME NEW a \in Actors, ActorStep(a)
        PROVE  IInv' /\ (thread # 0 => thread' = thread)
    <2>1. a \in {"post", "cancel"}
      BY InThreads
    <2>2. CASE Sends(a)
      BY <1>1, <2>2, SendsOK, SameThreadKeeps
    <2>3. CASE Reads(a)
      <3>1. /\ a = "cancel" /\ messenger'["cancel"] = None
            /\ messenger'["post"] = messenger["post"]
            /\ reading'["post"] = reading["post"] /\ thread' = thread
        BY <1>1, <2>1, <2>3, ReadsOK, PostIsActor DEF OnlyChanges
      <3> QED
        BY <1>1, <3>1
        DEF IInv, PostReadsNew, NothingStoredBefore, StoredOnce, CancelStoresNothing,
            OneThreadForTheJob, Built
    <2>4. CASE Build(a)
      <3>1. /\ messenger'[a].thread = reading[a] /\ ~messenger'[a].record
            /\ UNCHANGED <<thread, reading>> /\ OnlyChanges(a)
            /\ reading[a] # None /\ ~Built(a)
        BY <1>1, <2>1, <2>4, BuildOK
      <3>2. CASE a = "cancel"
        <4>1. messenger'["post"] = messenger["post"]
          BY <3>1, <3>2, PostIsActor DEF OnlyChanges
        <4> QED
          BY <1>1, <3>1, <3>2, <4>1
          DEF IInv, PostReadsNew, NothingStoredBefore, StoredOnce, CancelStoresNothing,
              OneThreadForTheJob, Built
      <3>3. CASE a = "post"
        <4>1. messenger'["cancel"] = messenger["cancel"]
          BY <3>1, <3>3, PostIsActor DEF OnlyChanges
        <4>2. thread = 0 /\ reading["post"] = 0
          BY <3>1, <3>3 DEF IInv, NothingStoredBefore, PostReadsNew
        <4> QED
          BY <1>1, <3>1, <3>3, <4>1, <4>2
          DEF IInv, PostReadsNew, NothingStoredBefore, StoredOnce, CancelStoresNothing,
              OneThreadForTheJob, Built
      <3> QED
        BY <2>1, <3>2, <3>3
    <2>5. CASE PostMessage(a)
      <3>1. /\ OnlyChanges(a) /\ Built(a) /\ messenger'[a] \in Messenger
            /\ UNCHANGED <<thread, reading>>
        BY <1>1, <2>5, PostMessageOK
      <3>2. CASE SameThread(a)
        BY <1>1, <3>1, <3>2, SameThreadKeeps
      <3>3. ASSUME messenger[a].thread = 0, messenger'[a].thread # 0,
                   messenger'[a].record = (a \in Recorders)
            PROVE  IInv' /\ (thread # 0 => thread' = thread)
        <4>1. CASE a = "cancel"
          <5>1. messenger'["post"] = messenger["post"] /\ ~messenger'["cancel"].record
            BY <3>1, <3>3, <4>1, PostIsActor, InThreads DEF OnlyChanges
          <5> QED
            BY <1>1, <3>1, <5>1
            DEF IInv, PostReadsNew, NothingStoredBefore, StoredOnce, CancelStoresNothing,
                OneThreadForTheJob, Built
        <4>2. CASE a = "post"
          <5>1. messenger'["cancel"] = messenger["cancel"]
            BY <3>1, <4>2, PostIsActor DEF OnlyChanges
          <5>2. messenger'["post"].record /\ messenger'["post"].thread # 0
            BY <3>3, <4>2, InThreads
          <5>3. thread = 0
            BY <3>1, <3>3, <4>2 DEF IInv, OneThreadForTheJob
          <5> QED
            BY <1>1, <3>1, <5>1, <5>2, <5>3
            DEF IInv, PostReadsNew, NothingStoredBefore, StoredOnce, CancelStoresNothing,
                OneThreadForTheJob, Built
        <4> QED
          BY <2>1, <4>1, <4>2
      <3> QED
        BY <1>1, <2>5, <3>2, <3>3, PostMessageOK
    <2>6. CASE Record(a)
      <3>1. /\ OnlyChanges(a) /\ Built(a) /\ messenger[a].record
            /\ thread' = messenger[a].thread
            /\ messenger'[a] \in Messenger
            /\ messenger'[a].thread = messenger[a].thread /\ ~messenger'[a].record
            /\ UNCHANGED reading
        BY <1>1, <2>6, RecordOK
      <3>2. a = "post" /\ thread = 0
        BY <2>1, <3>1 DEF IInv, CancelStoresNothing, StoredOnce
      <3>3. messenger'["cancel"] = messenger["cancel"]
        BY <3>1, <3>2, PostIsActor DEF OnlyChanges
      <3>4. messenger'["post"] # None
        BY <3>1, <3>2, NoMessenger
      <3> QED
        BY <1>1, <3>1, <3>2, <3>3, <3>4
        DEF IInv, PostReadsNew, NothingStoredBefore, StoredOnce, CancelStoresNothing,
            OneThreadForTheJob, Built
    <2> QED
      BY <1>5, <2>2, <2>3, <2>4, <2>5, <2>6 DEF ActorStep, Sends
  <1> QED
    BY <1>2, <1>3, <1>4, <1>5 DEF Next

(***************************************************************************)
(* With background threads everything the execution says goes to the thread *)
(* the registry names, whichever messages are lost and however many         *)
(* cancellations open threads of their own in between.                      *)
(***************************************************************************)
THEOREM OneThread == ~Managed => (Spec => []OneThreadForTheJob)
  <1> SUFFICES ASSUME ~Managed PROVE Spec => []OneThreadForTheJob
    OBVIOUS
  <1>1. IInv /\ [Next]_vars => IInv'
    BY NextInvariant
  <1>2. IInv => OneThreadForTheJob
    BY DEF IInv
  <1> QED
    BY <1>1, <1>2, InitInvariant, PTL DEF Spec

(***************************************************************************)
(* ... and the identifier of the thread is set only once, as the comment in *)
(* _send() says.                                                            *)
(***************************************************************************)
THEOREM ThreadStays == ~Managed => (Spec => ThreadSetOnce)
  <1> SUFFICES ASSUME ~Managed PROVE Spec => ThreadSetOnce
    OBVIOUS
  <1>1. IInv /\ [Next]_vars => IInv'
    BY NextInvariant
  <1>2. IInv /\ [Next]_vars => [thread # 0 => thread' = thread]_vars
    BY NextInvariant
  <1> QED
    BY <1>1, <1>2, InitInvariant, PTL DEF Spec, ThreadSetOnce
=============================================================================
