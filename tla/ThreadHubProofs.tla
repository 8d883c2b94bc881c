-------------------------- MODULE ThreadHubProofs --------------------------
(***************************************************************************)
(* Proofs about ThreadHub: the types, for every number of jobs, threads,    *)
(* restarts and failing calls; and that no job is forgotten, as long as the *)
(* registry is not shared memory and answers.                               *)
(***************************************************************************)
EXTENDS ThreadHub, PartsProofs, FiniteSetTheorems

IType == TypeOK /\ RunOK

LEMMA HeadTail ==
    ASSUME NEW q \in Seq(Jobs), q # <<>>
    PROVE  /\ Head(q) \in Jobs
           /\ Tail(q) \in Seq(Jobs)
           /\ 1 \in DOMAIN q /\ q[1] = Head(q)
           /\ \A i \in DOMAIN q : i # 1 => i - 1 \in DOMAIN Tail(q) /\ Tail(q)[i - 1] = q[i]
  OBVIOUS

LEMMA AssignPendingType ==
    ASSUME StatusHandlerTypeOK, ApiTypeOK, NEW j \in Jobs, AssignPending(j)
    PROVE  StatusHandlerTypeOK' /\ ApiTypeOK'
  <1>1. db' \in [Jobs -> Entry]
    <2> DEFINE e == [db[j] EXCEPT !.status = "pending"]
    <2>1. e \in Entry
      BY DEF StatusHandlerTypeOK, Entry, Status
    <2>2. db' = [db EXCEPT ![j] = e] \/ db' = db
      BY DEF AssignPending
    <2> HIDE DEF e
    <2> QED
      BY <2>1, <2>2 DEF StatusHandlerTypeOK
  <1> QED
    BY <1>1 DEF AssignPending, StatusHandlerTypeOK, ApiTypeOK, Request, ApiStages, NoRequest

LEMMA AnnounceFailsOK ==
    ASSUME StatusHandlerTypeOK, RunOK, NEW j \in Jobs, AnnounceFails(j)
    PROVE  /\ StatusHandlerTypeOK'
           /\ RunOK'
           /\ \A i \in Jobs \ {j} : run'[i] = run[i] /\ db'[i] = db[i]
           /\ Exists(j) => Exists(j)'
           /\ run'[j].pc # "idle"
           /\ Busy(j)
  <1>1. Busy(j) /\ run[j].note \in Notes
    BY DEF AnnounceFails, Cleared, Busy, RunOK
  <1> DEFINE e == Written(db[j], run[j].note)
  <1>2. e \in Entry /\ e.status = Given(WrittenStatus(run[j].note), db[j].status)
    BY <1>1, WrittenType DEF StatusHandlerTypeOK
  <1>3. db' = [db EXCEPT ![j] = e] /\ Fault /\ ObserverRaises(j)
    BY DEF AnnounceFails
  <1> HIDE DEF e
  <1>4. WrittenStatus(run[j].note) \in Status \cup {None} /\ "absent" \notin Status
    BY <1>1, WrittenStatusType DEF Status
  <1> QED
    BY <1>1, <1>2, <1>3, <1>4, FaultOK, ObserverRaisesOK DEF StatusHandlerTypeOK, Exists, Given

(***************************************************************************)
(* Every variable has its type in every reachable state, and an execution   *)
(* under way has a note to deliver.                                         *)
(***************************************************************************)
LEMMA InitType == Init => IType
  <1> SUFFICES ASSUME Init PROVE IType
    OBVIOUS
  <1>1. StatusHandlerTypeOK
    BY MaxFaultsAssumption DEF Init, StatusHandlerTypeOK, AbsentEntry, Entry, Ages
  <1>2. RunOK /\ JobRunTypeOK
    BY RestingType DEF Init, JobRunInit, RunOK, JobRunTypeOK, Busy
  <1>3. ApiTypeOK
    BY DEF Init, ApiInit, NoRequest, ApiTypeOK, Request, ApiStages
  <1>4. queue \in Seq(Jobs)
    BY DEF Init
  <1> QED
    BY <1>1, <1>2, <1>3, <1>4 DEF IType, TypeOK

LEMMA NextType == IType /\ [Next]_vars => IType'
  <1> SUFFICES ASSUME IType, [Next]_vars PROVE IType'
    OBVIOUS
  <1> USE DEF IType, TypeOK
  <1>1. ASSUME NEW j \in Jobs, RunStep(j) PROVE IType'
    BY <1>1, JobRunStepOK DEF RunStep, RunOK, ApiTypeOK
  <1>2. ASSUME NEW j \in Jobs, RequestStep(j) PROVE IType'
    BY <1>2, ApiStepOK DEF RequestStep, RunOK, JobRunTypeOK, Busy
  <1>3. ASSUME NEW j \in Jobs, Submit(j) PROVE IType'
    <2>1. queue' \in Seq(Jobs)
      BY <1>3 DEF Submit
    <2> QED
      BY <1>3, <2>1 DEF Submit, StatusHandlerTypeOK, RunOK, JobRunTypeOK, Busy,
                        ApiTypeOK, Request, ApiStages
  <1>4. ASSUME NEW j \in Jobs, AssignPending(j) PROVE IType'
    BY <1>4, AssignPendingType DEF AssignPending, RunOK, JobRunTypeOK, Busy
  <1>5. CASE PoolStart
    <2>1. Head(queue) \in Jobs /\ queue' \in Seq(Jobs)
      BY <1>5, HeadTail DEF PoolStart
    <2>2. RunOK'
      BY <1>5, <2>1, StartRunOK DEF PoolStart
    <2> QED
      BY <1>5, <2>1, <2>2 DEF PoolStart, StatusHandlerTypeOK, RunOK, ApiTypeOK
  <1>6. ASSUME NEW j \in Jobs, PoolFinish(j) PROVE IType'
    BY <1>6, RestingType, RunOKChange DEF PoolFinish, StatusHandlerTypeOK, RunOK, ApiTypeOK
  <1>7. CASE Shutdown
    BY <1>7 DEF Shutdown, StatusHandlerTypeOK, RunOK, JobRunTypeOK, Busy,
                ApiTypeOK, Request, ApiStages, NoRequest
  <1>8. CASE UNCHANGED vars
    BY <1>8 DEF vars, StatusHandlerTypeOK, RunOK, JobRunTypeOK, Busy, ApiTypeOK
  <1>9. ASSUME NEW j \in Jobs, AnnounceFails(j) PROVE IType'
    BY <1>9, AnnounceFailsOK DEF AnnounceFails, RunOK, ApiTypeOK
  <1>10. ASSUME NEW j \in Jobs, SubmitFails(j) PROVE IType'
    BY <1>10, FaultOK DEF SubmitFails, StatusHandlerTypeOK, RunOK, JobRunTypeOK, Busy,
                          ApiTypeOK, Request, ApiStages, NoRequest
  <1> QED
    BY <1>1, <1>2, <1>3, <1>4, <1>5, <1>6, <1>7, <1>8, <1>9, <1>10 DEF Next

(***************************************************************************)
(* Every variable has its type in every reachable state.                    *)
(***************************************************************************)
THEOREM TypeCorrect == Spec => []TypeOK
  <1>1. IType => TypeOK
    BY DEF IType
  <1> QED
    BY <1>1, InitType, NextType, PTL DEF Spec

-----------------------------------------------------------------------------
(***************************************************************************)
(* No job is forgotten but by a call that fails.  What makes the invariant  *)
(* inductive: a result is only handed over for a job that is settled, so    *)
(* that the execution may end with it.                                      *)
(***************************************************************************)
ResultIsLast ==
    \A j \in Jobs : Busy(j) /\ run[j].note = "result" => db[j].status \in Terminal

IForgotten ==
    /\ IType
    /\ ResultIsLast
    /\ IsFiniteSet(Forgotten)
    /\ ForgottenByFailuresOnly

\* What a step may do: forget nothing, or one job with a call that fails.
ForgetsLittle ==
    \/ faults' = faults /\ Forgotten' \subseteq Forgotten
    \/ Fault /\ \E j \in Jobs : Forgotten' \subseteq Forgotten \cup {j}

LEMMA InitForgotten == Init => IForgotten
  <1> SUFFICES ASSUME Init PROVE IForgotten
    OBVIOUS
  <1>1. IType
    BY InitType
  <1>2. \A j \in Jobs : ~Exists(j) /\ ~Busy(j)
    BY RestingType DEF Init, AbsentEntry, Exists, JobRunInit, Busy
  <1>3. Forgotten = {} /\ faults = MaxFaults
    BY <1>2 DEF Init, Forgotten
  <1> QED
    BY <1>1, <1>2, <1>3, FS_EmptySet, MaxFaultsAssumption
    DEF IForgotten, ResultIsLast, ForgottenByFailuresOnly

LEMMA CountKept ==
    ASSUME IForgotten, IType', ForgetsLittle
    PROVE  IsFiniteSet(Forgotten)' /\ ForgottenByFailuresOnly'
  <1>1. faults \in Nat /\ faults' \in Nat
    BY MaxFaultsAssumption DEF IForgotten, IType, TypeOK, StatusHandlerTypeOK
  <1>2. Cardinality(Forgotten) \in Nat /\ Cardinality(Forgotten) + faults <= MaxFaults
    BY FS_CardinalityType DEF IForgotten, ForgottenByFailuresOnly
  <1>3. CASE faults' = faults /\ Forgotten' \subseteq Forgotten
    <2>1. /\ IsFiniteSet(Forgotten') /\ Cardinality(Forgotten') \in Nat
          /\ Cardinality(Forgotten') <= Cardinality(Forgotten)
      BY <1>3, FS_Subset, FS_CardinalityType DEF IForgotten
    <2> QED
      BY <1>1, <1>2, <1>3, <2>1, MaxFaultsAssumption DEF ForgottenByFailuresOnly
  <1>4. ASSUME Fault, NEW j \in Jobs, Forgotten' \subseteq Forgotten \cup {j}
        PROVE  IsFiniteSet(Forgotten)' /\ ForgottenByFailuresOnly'
    <2>1. /\ IsFiniteSet(Forgotten \cup {j})
          /\ Cardinality(Forgotten \cup {j}) <= Cardinality(Forgotten) + 1
          /\ Cardinality(Forgotten \cup {j}) \in Nat
      BY <1>2, FS_AddElement, FS_CardinalityType DEF IForgotten
    <2>2. /\ IsFiniteSet(Forgotten') /\ Cardinality(Forgotten') \in Nat
          /\ Cardinality(Forgotten') <= Cardinality(Forgotten \cup {j})
      BY <1>4, <2>1, FS_Subset, FS_CardinalityType
    <2>3. faults' = faults - 1
      BY <1>4 DEF Fault
    <2> QED
      BY <1>1, <1>2, <2>1, <2>2, <2>3, MaxFaultsAssumption DEF ForgottenByFailuresOnly
  <1> QED
    BY <1>3, <1>4 DEF ForgetsLittle

\* Only the job a step is about may be forgotten by it.
LEMMA OthersRemembered ==
    ASSUME NEW j \in Jobs,
           \A i \in Jobs \ {j} : (Exists(i)' => Exists(i)) /\ db'[i].status = db[i].status
                                 /\ (InHand(i) => InHand(i)')
    PROVE  /\ Forgotten' \subseteq Forgotten \cup {j}
           /\ InHand(j)' \/ db'[j].status \in Terminal \/ ~Exists(j)'
                => Forgotten' \subseteq Forgotten
  BY DEF Forgotten

\* A step of an execution ends it with the job settled, or by a failed call.
LEMMA RunStepForgets ==
    ASSUME IForgotten, NEW j \in Jobs, RunStep(j) \/ AnnounceFails(j)
    PROVE  ResultIsLast' /\ ForgetsLittle
  <1> USE DEF IForgotten, IType, TypeOK
  <1>1. /\ \A i \in Jobs \ {j} : run'[i] = run[i] /\ db'[i] = db[i]
        /\ Busy(j)
    BY JobRunStepOK, AnnounceFailsOK DEF RunStep
  <1>2. api' = api /\ queue' = queue
    BY DEF RunStep, AnnounceFails
  <1>3. \A i \in Jobs \ {j} :
            /\ Busy(i)' = Busy(i) /\ Exists(i)' = Exists(i)
            /\ db'[i].status = db[i].status /\ run'[i].note = run[i].note
    BY <1>1 DEF Busy, Exists
  <1>4. run[j].note \in Notes
    BY <1>1 DEF RunOK
  <1>5. /\ Busy(j)' /\ run'[j].note = "result" => db'[j].status \in Terminal
        /\ \/ faults' = faults /\ (Busy(j)' \/ db'[j].status \in Terminal)
           \/ Fault
    <2>1. CASE CheckPasses(j)
      <3>1. run'[j] = [run[j] EXCEPT !.pc = "checked"] /\ db' = db /\ faults' = faults
        BY <2>1 DEF CheckPasses, RunOK, JobRunTypeOK
      <3>2. Busy(j)' /\ run'[j].note = run[j].note
        BY <3>1 DEF Busy, RunOK, JobRunTypeOK, Run
      <3> QED
        BY <1>1, <3>1, <3>2 DEF ResultIsLast
    <2>2. CASE CheckRaises(j)
      <3>1. run'[j] = [run[j] EXCEPT !.note = "cancelled"] /\ run[j].pc = "notify"
            /\ faults' = faults
        BY <2>2 DEF CheckRaises, RunOK, JobRunTypeOK
      <3>2. Busy(j)' /\ run'[j].note = "cancelled"
        BY <3>1 DEF Busy, RunOK, JobRunTypeOK, Run
      <3> QED
        BY <3>1, <3>2
    <2>3. CASE Write(j)
      <3>1. db'[j].status = Given(WrittenStatus(run[j].note), db[j].status)
        BY <2>3, WriteOK
      <3>2. Delivered(j) /\ faults' = faults
        BY <2>3 DEF Write
      <3>3. /\ Busy(j)' \/ run[j].note \in {"result", "failed", "cancelled", "rejected"}
            /\ Busy(j)' /\ run'[j].note = "result" => run[j].note = "done"
        BY <1>4, <3>2, DeliveredOK
      <3>4. run[j].note \in {"done", "failed", "cancelled", "rejected"}
              => db'[j].status \in Terminal
        BY <3>1, NoneAssumption DEF WrittenStatus, Given, Status, Terminal
      <3>5. run[j].note = "result" => db'[j].status = db[j].status
        BY <3>1 DEF WrittenStatus, Given, Status
      <3> QED
        BY <1>1, <3>2, <3>3, <3>4, <3>5 DEF ResultIsLast
    <2>4. CASE Drop(j)
      <3>1. Delivered(j) /\ run[j].note = "progress" /\ faults' = faults
        BY <2>4 DEF Drop, MayDrop
      <3> QED
        BY <1>4, <3>1, DeliveredOK
    <2>5. CASE NotifyFails(j) \/ AnnounceFails(j)
      <3>1. Fault /\ (ObserverRaises(j) \/ LeavesUnreported(j)) /\ RunOK
        BY <2>5 DEF NotifyFails, AnnounceFails
      <3> QED
        BY <3>1, ObserverRaisesOK DEF Busy
    <2>6. CASE RateLimitElapses(j)
      <3>1. run'[j] = [run[j] EXCEPT !.recent = FALSE] /\ db' = db /\ faults' = faults
        BY <2>6 DEF RateLimitElapses, RunOK, JobRunTypeOK
      <3>2. run'[j].pc = run[j].pc /\ run'[j].note = run[j].note
        BY <3>1 DEF RunOK, JobRunTypeOK, Run
      <3> QED
        BY <1>1, <3>1, <3>2 DEF ResultIsLast, Busy
    <2> QED
      BY <2>1, <2>2, <2>3, <2>4, <2>5, <2>6 DEF RunStep, JobRunStep, Updating
  <1>6. ResultIsLast'
    BY <1>3, <1>5 DEF ResultIsLast
  <1>7. \A i \in Jobs \ {j} : (Exists(i)' => Exists(i)) /\ db'[i].status = db[i].status
                              /\ (InHand(i) => InHand(i)')
    BY <1>2, <1>3 DEF InHand, InQueue
  <1>8. ForgetsLittle
    BY <1>5, <1>7, OthersRemembered DEF ForgetsLittle, InHand
  <1> QED
    BY <1>6, <1>8

\* A request creates a job it is about to submit, or settles it.
LEMMA RequestStepForgets ==
    ASSUME IForgotten, NEW j \in Jobs, RequestStep(j)
    PROVE  ResultIsLast' /\ ForgetsLittle
  <1> USE DEF IForgotten, IType, TypeOK
  <1>1. /\ \A i \in Jobs \ {j} : db'[i] = db[i]
        /\ api.pc \in {"idle", "cancel"}
        /\ \/ db'[j] = db[j]
           \/ db'[j].status = "cancelled"
           \/ db'[j].status = "pending" /\ ~Exists(j) /\ api' = [pc |-> "submit", job |-> j]
    BY ApiStepOK DEF RequestStep
  <1>2. run' = run /\ queue' = queue
    BY DEF RequestStep
  <1>3. \A i \in Jobs : api # [pc |-> "submit", job |-> i]
    BY <1>1
  <1>4. ResultIsLast'
    <2>1. Busy(j) /\ run[j].note = "result" => Exists(j)
      BY DEF ResultIsLast, Exists, Terminal
    <2> QED
      BY <1>1, <1>2, <2>1 DEF ResultIsLast, Busy, Terminal
  <1>5. \A i \in Jobs \ {j} : (Exists(i)' => Exists(i)) /\ db'[i].status = db[i].status
                              /\ (InHand(i) => InHand(i)')
    BY <1>1, <1>2, <1>3 DEF InHand, Exists, InQueue, Busy
  <1>6. CASE faults' = faults
    <2>1. CASE db'[j] = db[j]
      BY <1>1, <1>4, <1>2, <1>3, <1>6, <2>1 DEF ForgetsLittle, Forgotten, InHand, Exists, InQueue, Busy
    <2>2. CASE db'[j].status = "cancelled"
      BY <1>4, <1>5, <1>6, <2>2, OthersRemembered DEF ForgetsLittle, Terminal
    <2>3. CASE api' = [pc |-> "submit", job |-> j]
      BY <1>4, <1>5, <1>6, <2>3, OthersRemembered DEF ForgetsLittle, InHand
    <2> QED
      BY <1>1, <2>1, <2>2, <2>3
  <1>7. faults' = faults \/ Fault
    BY DEF RequestStep, ApiStep, PostNew, CancelRead, CancelWrite, CancelFails
  <1> QED
    BY <1>4, <1>5, <1>6, <1>7, OthersRemembered DEF ForgetsLittle

\* The pool takes a job out of its queue only to execute it.
LEMMA PoolStartForgets ==
    ASSUME IForgotten, PoolStart
    PROVE  ResultIsLast' /\ ForgetsLittle
  <1> USE DEF IForgotten, IType, TypeOK
  <1>0. PICK h \in Jobs : h = Head(queue)
    BY HeadTail DEF PoolStart
  <1>1. /\ queue # <<>> /\ queue' = Tail(queue) /\ db' = db /\ api' = api
        /\ StartRun(h) /\ faults' = faults
    BY <1>0 DEF PoolStart
  <1>2. \A k \in DOMAIN queue :
            queue[k] # h => k - 1 \in DOMAIN Tail(queue) /\ Tail(queue)[k - 1] = queue[k]
    BY <1>0, <1>1, HeadTail
  <1>3. /\ Busy(h)' /\ run'[h].note # "result"
        /\ \A i \in Jobs \ {h} : run'[i] = run[i]
    BY <1>1, StartRunOK DEF Busy
  <1>4. \A i \in Jobs \ {h} : InQueue(i) => InQueue(i)'
    <2> SUFFICES ASSUME NEW i \in Jobs \ {h}, InQueue(i) PROVE InQueue(i)'
      OBVIOUS
    <2>1. PICK k \in DOMAIN queue : queue[k] = i
      BY DEF InQueue
    <2>2. k - 1 \in DOMAIN Tail(queue) /\ Tail(queue)[k - 1] = i
      BY <1>2, <2>1
    <2> QED
      BY <1>1, <2>2 DEF InQueue
  <1>5. ResultIsLast'
    BY <1>1, <1>3 DEF ResultIsLast, Busy
  <1>6. \A i \in Jobs \ {h} : (Exists(i)' => Exists(i)) /\ db'[i].status = db[i].status
                              /\ (InHand(i) => InHand(i)')
    BY <1>1, <1>3, <1>4 DEF InHand, Exists, Busy
  <1> QED
    BY <1>1, <1>3, <1>5, <1>6, OthersRemembered DEF ForgetsLittle, InHand

LEMMA NextForgotten == ~SharedEntries /\ IForgotten /\ [Next]_vars => IForgotten'
  <1> SUFFICES ASSUME ~SharedEntries, IForgotten, [Next]_vars PROVE IForgotten'
    OBVIOUS
  <1> USE DEF IForgotten, IType, TypeOK
  <1>1. IType'
    BY NextType
  <1>2. ASSUME NEW j \in Jobs, Submit(j) PROVE ResultIsLast' /\ ForgetsLittle
    <2>1. queue' = Append(queue, j) /\ api = [pc |-> "submit", job |-> j]
          /\ db' = db /\ run' = run /\ faults' = faults
      BY <1>2 DEF Submit
    <2>2. \A i \in Jobs : InQueue(i) \/ i = j => InQueue(i)'
      <3>1. DOMAIN queue = 1..Len(queue) /\ DOMAIN queue' = 1..(Len(queue) + 1)
        BY <2>1
      <3>2. queue'[Len(queue) + 1] = j /\ \A k \in DOMAIN queue : queue'[k] = queue[k]
        BY <2>1
      <3> QED
        BY <3>1, <3>2 DEF InQueue
    <2> QED
      BY <2>1, <2>2 DEF ResultIsLast, ForgetsLittle, Forgotten, InHand, Busy, Exists
  <1>3. ASSUME NEW j \in Jobs, SubmitFails(j) PROVE ResultIsLast' /\ ForgetsLittle
    <2>1. \A i \in Jobs \ {j} : api # [pc |-> "submit", job |-> i]
      BY <1>3 DEF SubmitFails
    <2>2. \A i \in Jobs \ {j} : (Exists(i)' => Exists(i)) /\ db'[i].status = db[i].status
                                /\ (InHand(i) => InHand(i)')
      BY <1>3, <2>1 DEF SubmitFails, Exists, InHand, InQueue, Busy
    <2> QED
      BY <1>3, <2>2, OthersRemembered DEF SubmitFails, ForgetsLittle, ResultIsLast, Busy
  <1>4. ASSUME faults' = faults, db' = db, queue' = queue,
               \A i \in Jobs : (Busy(i)' <=> Busy(i)) /\ (Busy(i)' => run'[i] = run[i]),
               \A i \in Jobs : api = [pc |-> "submit", job |-> i] => api' = api
        PROVE  ResultIsLast' /\ ForgetsLittle
    BY <1>4 DEF ResultIsLast, ForgetsLittle, Forgotten, InHand, InQueue, Exists
  <1>5. ASSUME NEW j \in Jobs, AssignPending(j) PROVE ResultIsLast' /\ ForgetsLittle
    BY <1>4, <1>5 DEF AssignPending, Busy
  <1>6. ASSUME NEW j \in Jobs, PoolFinish(j) PROVE ResultIsLast' /\ ForgetsLittle
    <2>1. ~Busy(j) /\ ~Busy(j)' /\ \A i \in Jobs \ {j} : run'[i] = run[i]
      BY <1>6, RestingType DEF PoolFinish, Busy, RunOK, JobRunTypeOK
    <2> QED
      BY <1>4, <1>6, <2>1 DEF PoolFinish, Busy
  <1>7. ASSUME Shutdown \/ UNCHANGED vars PROVE ResultIsLast' /\ ForgetsLittle
    BY <1>4, <1>7 DEF Shutdown, vars, Busy
  <1>8. ResultIsLast' /\ ForgetsLittle
    BY <1>2, <1>3, <1>5, <1>6, <1>7, RunStepForgets, RequestStepForgets, PoolStartForgets
    DEF Next
  <1> QED
    BY <1>1, <1>8, CountKept

(***************************************************************************)
(* With a registry that is not shared memory, every job that looks pending  *)
(* or running though it is neither in the pool nor about to be submitted    *)
(* has a failed call of its own to show for it: for every number of jobs,   *)
(* threads, restarts and failures.                                          *)
(***************************************************************************)
THEOREM FailuresForgetAtMostOne == ~SharedEntries => (Spec => []ForgottenByFailuresOnly)
  <1> SUFFICES ASSUME ~SharedEntries PROVE Spec => []ForgottenByFailuresOnly
    OBVIOUS
  <1>1. IForgotten => ForgottenByFailuresOnly
    BY DEF IForgotten
  <1> QED
    BY <1>1, InitForgotten, NextForgotten, PTL DEF Spec

(***************************************************************************)
(* If no call fails, then, with a registry that is not shared memory, every *)
(* job that is not settled is in the pool or about to be submitted.         *)
(***************************************************************************)
Reliable == ~SharedEntries /\ MaxFaults = 0

LEMMA NoneForgotten == Reliable /\ IForgotten => NoJobForgotten
  <1> SUFFICES ASSUME Reliable, IForgotten PROVE NoJobForgotten
    OBVIOUS
  <1>1. faults \in Nat /\ Cardinality(Forgotten) \in Nat /\ IsFiniteSet(Forgotten)
    BY FS_CardinalityType, MaxFaultsAssumption
    DEF IForgotten, IType, TypeOK, StatusHandlerTypeOK
  <1>2. Cardinality(Forgotten) = 0
    BY <1>1 DEF IForgotten, ForgottenByFailuresOnly, Reliable
  <1> QED
    BY <1>1, <1>2, FS_EmptySet DEF NoJobForgotten

THEOREM NothingForgotten == Reliable => (Spec => []NoJobForgotten)
  <1> SUFFICES ASSUME Reliable PROVE Spec => []NoJobForgotten
    OBVIOUS
  <1> QED
    BY InitForgotten, NextForgotten, NoneForgotten, PTL DEF Spec, Reliable

-----------------------------------------------------------------------------
(***************************************************************************)
(* Every job is executed at most once.  What makes the invariant inductive: *)
(* a job that waits in the queue, or is about to, is an accepted one that   *)
(* waits there once and has not been executed.                              *)
(***************************************************************************)
Waits(j) == Exists(j) /\ run[j].pc = "idle"

QueueOK ==
    /\ \A k \in DOMAIN queue : Waits(queue[k])
    /\ \A k, l \in DOMAIN queue : queue[k] = queue[l] => k = l

SubmitOK ==
    \A j \in Jobs : api = [pc |-> "submit", job |-> j] => Waits(j) /\ ~InQueue(j)

ExecutedExist == \A j \in Jobs : run[j].pc # "idle" => Exists(j)

IOnce == IType /\ QueueOK /\ SubmitOK /\ ExecutedExist

LEMMA QueuedAreJobs == TypeOK => \A k \in DOMAIN queue : queue[k] \in Jobs
  BY DEF TypeOK

LEMMA InitOnce == Init => IOnce
  <1> SUFFICES ASSUME Init PROVE IOnce
    OBVIOUS
  <1>1. IType
    BY InitType
  <1>2. \A j \in Jobs : run[j].pc = "idle"
    BY RestingType DEF Init, JobRunInit
  <1>3. DOMAIN queue = {} /\ api.pc = "idle"
    BY DEF Init, ApiInit, NoRequest
  <1> QED
    BY <1>1, <1>2, <1>3 DEF IOnce, QueueOK, SubmitOK, ExecutedExist

\* The life of one job changes with its entry and its execution.
LEMMA LifeChange ==
    ASSUME NEW j \in Jobs,
           \A i \in Jobs \ {j} : run'[i] = run[i] /\ Exists(i)' = Exists(i)
    PROVE  Life' = [Life EXCEPT ![j] = LifeOf(j)']
  <1>1. \A i \in Jobs \ {j} : LifeOf(i)' = LifeOf(i)
    BY DEF LifeOf, Running
  <1> QED
    BY <1>1 DEF Life

LEMMA WorkingIsRunning == ExecutedExist => Lifecycle!Working = Running
  BY DEF ExecutedExist, Lifecycle!Working, Life, LifeOf, Running

\* The execution of a job goes on, or comes to its end.
LEMMA RunStepOnce ==
    ASSUME IOnce, NEW j \in Jobs, RunStep(j) \/ AnnounceFails(j) \/ PoolFinish(j)
    PROVE  /\ QueueOK' /\ SubmitOK' /\ ExecutedExist'
           /\ Life' = Life \/ Lifecycle!Next
  <1> USE DEF IOnce, IType
  <1>1. /\ \A i \in Jobs \ {j} : run'[i] = run[i] /\ Exists(i)' = Exists(i)
        /\ Exists(j) => Exists(j)'
        /\ run[j].pc # "idle" /\ run[j].pc # "finished" /\ run'[j].pc # "idle"
        /\ api' = api /\ queue' = queue
    <2>1. CASE RunStep(j)
      BY <2>1, JobRunStepOK DEF RunStep, TypeOK, Busy, Exists
    <2>2. CASE AnnounceFails(j)
      BY <2>2, AnnounceFailsOK DEF AnnounceFails, TypeOK, Busy, Exists
    <2>3. CASE PoolFinish(j)
      BY <2>3, RestingType DEF PoolFinish, TypeOK, JobRunTypeOK, Exists
    <2> QED
      BY <2>1, <2>2, <2>3
  <1>2. Exists(j)
    BY <1>1 DEF ExecutedExist
  <1>3. \A i \in Jobs : Waits(i) => Waits(i)'
    BY <1>1 DEF Waits
  <1>4. QueueOK' /\ SubmitOK' /\ ExecutedExist'
    BY <1>1, <1>2, <1>3, QueuedAreJobs DEF QueueOK, SubmitOK, ExecutedExist, InQueue
  <1>5. LifeOf(j) = "working" /\ LifeOf(j)' \in {"working", "over"}
    BY <1>1, <1>2 DEF LifeOf, Running
  <1>6. Life' = [Life EXCEPT ![j] = LifeOf(j)'] /\ Life[j] = "working"
    BY <1>1, <1>5, LifeChange DEF Life
  <1>7. CASE LifeOf(j)' = "working"
    BY <1>4, <1>6, <1>7 DEF Life
  <1>8. CASE LifeOf(j)' = "over"
    BY <1>4, <1>6, <1>8 DEF Lifecycle!Next, Lifecycle!End, Lifecycle!Moves
  <1> QED
    BY <1>4, <1>5, <1>7, <1>8

\* A request accepts a job, or leaves the life of all jobs as it is.
LEMMA RequestStepOnce ==
    ASSUME IOnce, NEW j \in Jobs, RequestStep(j)
    PROVE  /\ QueueOK' /\ SubmitOK' /\ ExecutedExist'
           /\ Life' = Life \/ Lifecycle!Next
  <1> USE DEF IOnce, IType
  <1>1. /\ \A i \in Jobs \ {j} : db'[i] = db[i]
        /\ api.pc \in {"idle", "cancel"}
        /\ \/ db'[j] = db[j]
           \/ db'[j].status = "cancelled"
           \/ db'[j].status = "pending" /\ ~Exists(j) /\ api' = [pc |-> "submit", job |-> j]
    BY ApiStepOK DEF RequestStep, TypeOK
  <1>2. run' = run /\ queue' = queue
    BY DEF RequestStep
  <1>3. \A i \in Jobs : Exists(i) => Exists(i)'
    BY <1>1 DEF Exists
  <1>4. QueueOK' /\ ExecutedExist'
    BY <1>2, <1>3, QueuedAreJobs DEF QueueOK, Waits, ExecutedExist
  <1>5. SubmitOK'
    <2> SUFFICES ASSUME NEW i \in Jobs, api' = [pc |-> "submit", job |-> i]
                 PROVE  Waits(i)' /\ ~InQueue(i)'
      BY DEF SubmitOK
    <2>1. PostNew(j) /\ i = j
      BY DEF RequestStep, ApiStep, PostNew, CancelRead, CancelWrite, CancelFails, NoRequest
    <2>2. ~Exists(j) /\ Exists(j)'
      BY <2>1, NewOK DEF PostNew, New, TypeOK, Exists, NewEntry, AbsentEntry
    <2> QED
      BY <1>2, <2>1, <2>2 DEF Waits, ExecutedExist, InQueue, QueueOK
  <1>6. \A i \in Jobs \ {j} : run'[i] = run[i] /\ Exists(i)' = Exists(i)
    BY <1>1, <1>2 DEF Exists
  <1>7. Life' = [Life EXCEPT ![j] = LifeOf(j)'] /\ Life[j] = LifeOf(j)
    BY <1>6, LifeChange DEF Life
  <1>8. CASE Exists(j)
    <2>1. LifeOf(j)' = LifeOf(j)
      BY <1>2, <1>3, <1>8 DEF LifeOf, Running
    <2> QED
      BY <1>4, <1>5, <1>7, <2>1 DEF Life
  <1>9. CASE ~Exists(j)
    <2>1. LifeOf(j) = "none" /\ LifeOf(j)' \in {"none", "waiting"}
      BY <1>2, <1>9 DEF LifeOf, Running, ExecutedExist
    <2> QED
      BY <1>4, <1>5, <1>7, <2>1
      DEF Life, Lifecycle!Next, Lifecycle!Accept, Lifecycle!Moves
  <1> QED
    BY <1>8, <1>9

\* The request hands the job to the pool, or fails to; or it assigns to the entry.
LEMMA SubmitOnce ==
    ASSUME IOnce, NEW j \in Jobs, Submit(j) \/ SubmitFails(j) \/ AssignPending(j)
    PROVE  /\ QueueOK' /\ SubmitOK' /\ ExecutedExist'
           /\ Life' = Life \/ Lifecycle!Next
  <1> USE DEF IOnce, IType
  <1>1. /\ run' = run
        /\ \A i \in Jobs : Exists(i) => Exists(i)'
        /\ \A i \in Jobs \ {j} : Exists(i)' = Exists(i)
        /\ \A i \in Jobs : api' # [pc |-> "submit", job |-> i]
    <2>1. db' = db \/ db' = [db EXCEPT ![j].status = "pending"]
      BY DEF Submit, SubmitFails, AssignPending
    <2>2. run' = run /\ api'.pc # "submit"
      BY DEF Submit, SubmitFails, AssignPending, NoRequest, TypeOK, ApiTypeOK, Request
    <2>3. /\ db'[j].status \in {db[j].status, "pending"}
          /\ \A i \in Jobs \ {j} : db'[i].status = db[i].status
      <3>1. db \in [Jobs -> Entry]
        BY DEF TypeOK, StatusHandlerTypeOK
      <3>2. db[j] \in Entry
        BY <3>1
      <3> QED
        BY <2>1, <3>1, <3>2 DEF Entry
    <2> QED
      BY <2>2, <2>3 DEF Exists
  <1>2. SubmitOK' /\ ExecutedExist'
    BY <1>1 DEF SubmitOK, ExecutedExist
  <1>3. QueueOK'
    <2>1. CASE queue' = queue
      BY <1>1, <2>1, QueuedAreJobs DEF QueueOK, Waits
    <2>2. CASE Submit(j)
      <3>1. queue' = Append(queue, j) /\ Waits(j) /\ ~InQueue(j)
        BY <2>2 DEF Submit, SubmitOK
      <3>2. /\ DOMAIN queue = 1..Len(queue) /\ DOMAIN queue' = 1..(Len(queue) + 1)
            /\ queue'[Len(queue) + 1] = j
            /\ \A k \in DOMAIN queue : queue'[k] = queue[k]
            /\ Len(queue) \in Nat
        BY <3>1 DEF TypeOK
      <3>3. \A k \in DOMAIN queue : queue[k] # j
        BY <3>1 DEF InQueue
      <3> QED
        BY <1>1, <3>1, <3>2, <3>3, QueuedAreJobs DEF QueueOK, Waits
    <2> QED
      BY <2>1, <2>2 DEF SubmitFails, AssignPending
  <1>4. Life' = [Life EXCEPT ![j] = LifeOf(j)'] /\ Life[j] = LifeOf(j)
    BY <1>1, LifeChange DEF Life
  <1>5. CASE Exists(j) \/ ~Exists(j)'
    <2>1. LifeOf(j)' = LifeOf(j)
      BY <1>1, <1>5 DEF LifeOf, Running
    <2> QED
      BY <1>2, <1>3, <1>4, <2>1 DEF Life
  <1>6. CASE ~Exists(j) /\ Exists(j)'
    <2>1. LifeOf(j) = "none" /\ LifeOf(j)' = "waiting"
      BY <1>1, <1>6 DEF LifeOf, Running, ExecutedExist
    <2> QED
      BY <1>2, <1>3, <1>4, <2>1 DEF Lifecycle!Next, Lifecycle!Accept, Lifecycle!Moves
  <1> QED
    BY <1>5, <1>6

\* The pool starts a job that waited, if a thread is free.
LEMMA PoolStartOnce ==
    ASSUME IOnce, PoolStart
    PROVE  /\ QueueOK' /\ SubmitOK' /\ ExecutedExist'
           /\ Lifecycle!Next
  <1> USE DEF IOnce, IType
  <1>1. PICK h \in Jobs : h = Head(queue)
    BY HeadTail DEF PoolStart, TypeOK
  <1>2. /\ queue # <<>> /\ queue' = Tail(queue) /\ db' = db /\ api' = api
        /\ StartRun(h) /\ Cardinality(Running) < MaxParallel
    BY <1>1 DEF PoolStart
  <1>3. 1 \in DOMAIN queue /\ queue[1] = h
    BY <1>1, <1>2, HeadTail DEF TypeOK
  <1>4. Waits(h)
    BY <1>3 DEF QueueOK
  <1>5. run'[h].pc = "notify" /\ \A i \in Jobs \ {h} : run'[i] = run[i]
    BY <1>2, StartRunOK
  <1>6. /\ DOMAIN queue = 1..Len(queue) /\ DOMAIN queue' = 1..(Len(queue) - 1)
        /\ \A k \in DOMAIN queue' : k + 1 \in DOMAIN queue /\ queue'[k] = queue[k + 1]
        /\ Len(queue) \in Nat
    BY <1>2 DEF TypeOK
  <1>7. \A i \in Jobs : Exists(i)' = Exists(i)
    BY <1>2 DEF Exists
  <1>8. \A k \in DOMAIN queue' : queue[k + 1] \in Jobs \ {h}
    BY <1>3, <1>6, QueuedAreJobs DEF QueueOK
  <1>9. QueueOK'
    <2>1. \A k \in DOMAIN queue' :
              run'[queue'[k]].pc = "idle" /\ db'[queue'[k]].status # "absent"
      BY <1>2, <1>5, <1>6, <1>8 DEF QueueOK, Waits, Exists
    <2>2. \A k, l \in DOMAIN queue' : queue'[k] = queue'[l] => k = l
      BY <1>6 DEF QueueOK
    <2> QED
      BY <2>1, <2>2 DEF QueueOK, Waits, Exists
  <1>10. SubmitOK'
    <2> SUFFICES ASSUME NEW i \in Jobs, api' = [pc |-> "submit", job |-> i]
                 PROVE  Waits(i)' /\ ~InQueue(i)'
      BY DEF SubmitOK
    <2>1. Waits(i) /\ ~InQueue(i)
      BY <1>2 DEF SubmitOK
    <2>2. i # h
      BY <1>3, <2>1 DEF InQueue
    <2> QED
      BY <1>5, <1>6, <1>7, <2>1, <2>2 DEF Waits, InQueue
  <1>11. ExecutedExist'
    BY <1>4, <1>5, <1>7 DEF ExecutedExist, Waits
  <1>12. LifeOf(h) = "waiting" /\ LifeOf(h)' = "working"
    BY <1>4, <1>5, <1>7 DEF LifeOf, Running, Waits
  <1>13. Life' = [Life EXCEPT ![h] = "working"] /\ Life[h] = "waiting"
    BY <1>5, <1>7, <1>12, LifeChange DEF Life
  <1>14. Lifecycle!Room
    <2>1. Lifecycle!Working = Running
      BY WorkingIsRunning
    <2>2. Lifecycle!Room <=> Cardinality(Lifecycle!Working) < MaxParallel
      BY DEF Lifecycle!Room, Cardinality, Lifecycle!Cardinality, IsFiniteSet,
             Lifecycle!IsFiniteSet
    <2> QED
      BY <1>2, <2>1, <2>2
  <1>15. Lifecycle!Start(h)
    BY <1>13, <1>14 DEF Lifecycle!Start, Lifecycle!Moves
  <1> QED
    BY <1>9, <1>10, <1>11, <1>15 DEF Lifecycle!Next

LEMMA NextOnce == IOnce /\ [Next]_vars => IOnce' /\ [Lifecycle!Next]_Life
  <1> SUFFICES ASSUME IOnce, [Next]_vars PROVE IOnce' /\ [Lifecycle!Next]_Life
    OBVIOUS
  <1>1. IType'
    BY NextType DEF IOnce
  <1>2. ASSUME Shutdown \/ UNCHANGED vars
        PROVE  QueueOK' /\ SubmitOK' /\ ExecutedExist' /\ Life' = Life
    <2>1. db' = db /\ run' = run /\ queue' = queue
          /\ \A i \in Jobs : api' = [pc |-> "submit", job |-> i] => api' = api
      BY <1>2 DEF Shutdown, vars, NoRequest
    <2>2. \A i \in Jobs : LifeOf(i)' = LifeOf(i) /\ Exists(i)' = Exists(i)
      BY <2>1 DEF LifeOf, Running, Exists
    <2> QED
      BY <2>1, <2>2, QueuedAreJobs
      DEF IOnce, IType, QueueOK, SubmitOK, ExecutedExist, Waits, InQueue, Life
  <1> QED
    BY <1>1, <1>2, RunStepOnce, RequestStepOnce, SubmitOnce, PoolStartOnce DEF Next, IOnce

(***************************************************************************)
(* The hub with background threads is a JobLifecycle: each accepted job is  *)
(* executed at most once, by at most MaxParallel threads at a time, however *)
(* many jobs there are, however they are cancelled and whatever calls fail. *)
(***************************************************************************)
THEOREM ImplementsLifecycle == Spec => ExecutedAtMostOnce
  <1>1. Init => Lifecycle!Init
    <2> SUFFICES ASSUME Init PROVE Lifecycle!Init
      OBVIOUS
    <2>1. \A j \in Jobs : LifeOf(j) = "none"
      BY RestingType DEF Init, JobRunInit, LifeOf, Exists, AbsentEntry, Running
    <2> QED
      BY <2>1 DEF Lifecycle!Init, Life
  <1> QED
    BY <1>1, InitOnce, NextOnce, PTL DEF Spec, ExecutedAtMostOnce, Lifecycle!Spec

-----------------------------------------------------------------------------
(***************************************************************************)
(* A stored result is served.  What makes the invariant inductive: the      *)
(* result is the last thing an execution reports, after it has reported the *)
(* job as done, and the job is executed once only (IOnce).                  *)
(***************************************************************************)
Served(status) == status \in {"done", "cancelled"}

ResultsOK ==
    \A j \in Jobs :
        /\ Busy(j) /\ run[j].note = "result" => Served(db[j].status)
        /\ db[j].result => run[j].pc = "finished" /\ Served(db[j].status)

IResults == IOnce /\ ResultsOK

\* A report that may still fail to be announced comes before the result.
LEMMA AnnounceResults ==
    ASSUME IResults, NEW j \in Jobs, AnnounceFails(j)
    PROVE  /\ db'[j].result => db[j].result
           /\ Busy(j)' => run'[j].note # "result"
  <1>1. Busy(j) /\ run[j].note \in Notes /\ run[j].note # "result"
    BY DEF AnnounceFails, Cleared, Busy, IResults, IOnce, IType, RunOK, Announced
  <1> DEFINE e == Written(db[j], run[j].note)
  <1>2. e.result = db[j].result
    BY <1>1, WrittenType DEF IResults, IOnce, IType, TypeOK, StatusHandlerTypeOK
  <1>3. db' = [db EXCEPT ![j] = e]
    BY DEF AnnounceFails
  <1> HIDE DEF e
  <1>4. db'[j].result = db[j].result
    BY <1>2, <1>3 DEF IResults, IOnce, IType, TypeOK, StatusHandlerTypeOK
  <1>5. Busy(j)' => run'[j].note = "failed"
    BY ObserverRaisesOK DEF AnnounceFails, Busy, IResults, IOnce, IType
  <1> QED
    BY <1>4, <1>5

LEMMA RunStepResults ==
    ASSUME IResults, NEW j \in Jobs, RunStep(j) \/ AnnounceFails(j)
    PROVE  ResultsOK'
  <1> USE DEF IResults, IOnce, IType, TypeOK
  <1>1. /\ \A i \in Jobs \ {j} : run'[i] = run[i] /\ db'[i] = db[i]
        /\ Busy(j)
    BY JobRunStepOK, AnnounceFailsOK DEF RunStep
  <1>2. run[j].note \in Notes /\ ~db[j].result
    BY <1>1 DEF RunOK, ResultsOK, Busy
  <1>3. /\ Busy(j)' /\ run'[j].note = "result" => Served(db'[j].status)
        /\ db'[j].result => run'[j].pc = "finished" /\ Served(db'[j].status)
    <2>1. CASE CheckPasses(j) \/ CheckRaises(j) \/ RateLimitElapses(j)
      <3>1. db' = db /\ (run'[j].note = run[j].note \/ run'[j].note = "cancelled")
        BY <2>1 DEF CheckPasses, CheckRaises, RateLimitElapses, RunOK, JobRunTypeOK, Run
      <3> QED
        BY <1>1, <1>2, <3>1 DEF ResultsOK
    <2>2. CASE Write(j)
      <3>1. /\ db'[j].status = Given(WrittenStatus(run[j].note), db[j].status)
            /\ db'[j].result = db[j].result \/ run[j].note = "result"
        BY <2>2, WriteOK
      <3>2. /\ Busy(j)' /\ run'[j].note = "result" => run[j].note = "done"
            /\ run[j].note = "result" => run'[j].pc = "finished"
        BY <1>2, <2>2, DeliveredOK DEF Write
      <3>3. run[j].note = "done" => db'[j].status = "done"
        BY <3>1, NoneAssumption DEF WrittenStatus, Given, Status
      <3>4. run[j].note = "result" => db'[j].status = db[j].status
        BY <3>1 DEF WrittenStatus, Given, Status
      <3> QED
        BY <1>1, <1>2, <3>1, <3>2, <3>3, <3>4 DEF ResultsOK, Served
    <2>3. CASE Drop(j)
      <3>1. Delivered(j) /\ run[j].note = "progress" /\ db' = db
        BY <2>3 DEF Drop, MayDrop
      <3> QED
        BY <1>2, <3>1, DeliveredOK
    <2>4. CASE NotifyFails(j)
      BY <1>2, <2>4, ObserverRaisesOK DEF NotifyFails, Busy
    <2>5. CASE AnnounceFails(j)
      BY <1>2, <2>5, AnnounceResults
    <2> QED
      BY <2>1, <2>2, <2>3, <2>4, <2>5 DEF RunStep, JobRunStep, Updating
  <1> QED
    BY <1>1, <1>3 DEF ResultsOK, Busy

LEMMA NextResults == ~SharedEntries /\ IResults /\ [Next]_vars => IResults'
  <1> SUFFICES ASSUME ~SharedEntries, IResults, [Next]_vars PROVE IResults'
    OBVIOUS
  <1> USE DEF IResults, IOnce, IType, TypeOK
  <1>1. IOnce'
    BY NextOnce
  <1>2. ASSUME NEW j \in Jobs, RequestStep(j) PROVE ResultsOK'
    <2>1. /\ \A i \in Jobs \ {j} : db'[i] = db[i]
          /\ \/ db'[j] = db[j]
             \/ db'[j].status = "cancelled" /\ db'[j].result = db[j].result
             \/ ~db'[j].result /\ ~Exists(j)
      BY <1>2, ApiStepOK DEF RequestStep
    <2>2. run' = run
      BY <1>2 DEF RequestStep
    <2>3. Busy(j) /\ run[j].note = "result" => Exists(j)
      BY DEF ResultsOK, Served, Exists
    <2> QED
      BY <2>1, <2>2, <2>3 DEF ResultsOK, Busy, Served
  <1>3. ASSUME PoolStart PROVE ResultsOK'
    <2>1. PICK h \in Jobs : h = Head(queue)
      BY <1>3, HeadTail DEF PoolStart
    <2>2. queue # <<>> /\ 1 \in DOMAIN queue /\ queue[1] = h
      BY <1>3, <2>1, HeadTail DEF PoolStart
    <2>3. ~db[h].result
      BY <2>1, <2>2 DEF QueueOK, Waits, ResultsOK
    <2>4. StartRun(h) /\ db' = db
      BY <1>3, <2>1 DEF PoolStart
    <2>5. run'[h].note # "result" /\ \A i \in Jobs \ {h} : run'[i] = run[i]
      BY <2>4, StartRunOK
    <2> QED
      BY <2>3, <2>4, <2>5 DEF ResultsOK, Busy
  <1>4. ASSUME NEW j \in Jobs, PoolFinish(j) PROVE ResultsOK'
    <2>1. /\ run'[j].pc = "finished" /\ run[j].pc = "raised" /\ db' = db
          /\ \A i \in Jobs \ {j} : run'[i] = run[i]
      BY <1>4, RestingType DEF PoolFinish, RunOK, JobRunTypeOK
    <2> QED
      BY <2>1 DEF ResultsOK, Busy
  <1>5. ASSUME db' = db /\ run' = run PROVE ResultsOK'
    BY <1>5 DEF ResultsOK, Busy
  <1>6. ASSUME NEW j \in Jobs, Submit(j) \/ SubmitFails(j) \/ AssignPending(j)
        PROVE  ResultsOK'
    BY <1>5, <1>6 DEF Submit, SubmitFails, AssignPending
  <1>7. ASSUME Shutdown \/ UNCHANGED vars PROVE ResultsOK'
    BY <1>5, <1>7 DEF Shutdown, vars
  <1> QED
    BY <1>1, <1>2, <1>3, <1>4, <1>6, <1>7, RunStepResults DEF Next

(***************************************************************************)
(* With a registry that is not shared memory, a result that is stored is    *)
(* served, or belongs to a job cancelled after it was done: however often   *)
(* execute() starts over, whatever calls fail and whoever cancels.          *)
(***************************************************************************)
THEOREM ResultsServed == ~SharedEntries => (Spec => []ResultOnlyAfterDone)
  <1> SUFFICES ASSUME ~SharedEntries PROVE Spec => []ResultOnlyAfterDone
    OBVIOUS
  <1>1. Init => IResults
    <2> SUFFICES ASSUME Init PROVE IResults
      OBVIOUS
    <2>1. \A j \in Jobs : ~db[j].result /\ ~Busy(j)
      BY RestingType DEF Init, AbsentEntry, JobRunInit, Busy
    <2> QED
      BY <2>1, InitOnce DEF IResults, ResultsOK
  <1>2. IResults /\ [Next]_vars => IResults'
    BY NextResults
  <1>3. IResults => ResultOnlyAfterDone
    BY DEF IResults, ResultsOK, Served, ResultOnlyAfterDone, ResultsResponse
  <1> QED
    BY <1>1, <1>2, <1>3, PTL DEF Spec

-----------------------------------------------------------------------------
(***************************************************************************)
(* A cancellation holds outside the DBUpdater's window.  A job still in the *)
(* hands of post_job() has not been cancelled, since the server handles one *)
(* request at a time; so nothing is assigned to a cancelled entry.          *)
(***************************************************************************)
Posted(j) == api.pc \in {"submit", "created"} /\ api.job = j

PostedNotCancelled ==
    \A j \in Jobs : Posted(j) =>
        db[j].status # "cancelled" /\ (Busy(j) => run[j].note # "cancelled")

ICancelled == IOnce /\ PostedNotCancelled

(***************************************************************************)
(* What becomes of the job: it waits; or its next note is about to find the *)
(* cancellation; or what is still to be reported does not say that it ran.  *)
(***************************************************************************)
NeverRuns(j) ==
    \/ run[j].pc = "idle" /\ db[j].status = "cancelled"
    \/ run[j].pc = "notify" /\ NeedsCheck(j) /\ db[j].status = "cancelled"
    \/ run[j].pc \in {"notify", "checked"} /\ run[j].note \in {"rejected", "cancelled", "failed"}
    \/ run[j].pc \in {"finished", "raised"}

CancelKept(j) ==
    /\ db[j].status \in {"cancelled", "failed"}
    /\ ~Posted(j)
    /\ NeverRuns(j)

\* A report changes the status to what it reports.
LEMMA ReportedStatus ==
    ASSUME IType, NEW j \in Jobs, Write(j) \/ AnnounceFails(j)
    PROVE  /\ Cleared(j) /\ run[j].note \in Notes
           /\ db'[j].status = Given(WrittenStatus(run[j].note), db[j].status)
           /\ run[j].note # "cancelled" /\ db[j].status # "cancelled"
                => db'[j].status # "cancelled"
           /\ run[j].note \in {"rejected", "cancelled", "failed"}
                => db'[j].status \in {"cancelled", "failed"}
                   /\ run'[j].pc \in {"finished", "raised"}
           /\ Busy(j)' => run'[j].note # "cancelled"
  <1> USE DEF IType, TypeOK
  <1>1. Cleared(j) /\ run[j].note \in Notes
    BY DEF Write, AnnounceFails, Cleared, RunOK, Busy
  <1>2. db'[j].status = Given(WrittenStatus(run[j].note), db[j].status)
    <2>1. db' = [db EXCEPT ![j] = Written(@, run[j].note)]
      BY DEF Write, AnnounceFails
    <2> DEFINE e == Written(db[j], run[j].note)
    <2>2. e.status = Given(WrittenStatus(run[j].note), db[j].status)
      BY <1>1, WrittenType DEF StatusHandlerTypeOK
    <2>3. db' = [db EXCEPT ![j] = e]
      BY <2>1
    <2> HIDE DEF e
    <2> QED
      BY <2>2, <2>3 DEF StatusHandlerTypeOK
  <1>3. /\ WrittenStatus(run[j].note) = "cancelled" => run[j].note = "cancelled"
        /\ run[j].note \in {"rejected", "cancelled", "failed"}
             => WrittenStatus(run[j].note) \in {"cancelled", "failed"}
    BY NoneAssumption DEF WrittenStatus, Status
  <1>4. /\ run[j].note \in {"rejected", "cancelled", "failed"}
             => run'[j].pc \in {"finished", "raised"}
        /\ Busy(j)' => run'[j].note # "cancelled"
    <2>1. CASE Write(j)
      BY <1>1, <2>1, DeliveredOK DEF Write
    <2>2. CASE AnnounceFails(j)
      BY <2>2, ObserverRaisesOK DEF AnnounceFails, Busy
    <2> QED
      BY <2>1, <2>2
  <1> QED
    BY <1>1, <1>2, <1>3, <1>4, NoneAssumption DEF Given, Status

LEMMA RunStepCancelled ==
    ASSUME ICancelled, NEW j \in Jobs, RunStep(j) \/ AnnounceFails(j)
    PROVE  /\ PostedNotCancelled'
           /\ \A i \in Jobs : CancelKept(i) => CancelKept(i)'
  <1> USE DEF ICancelled, IOnce, IType, TypeOK
  <1>1. /\ \A i \in Jobs \ {j} : run'[i] = run[i] /\ db'[i] = db[i]
        /\ Busy(j)
    BY JobRunStepOK, AnnounceFailsOK DEF RunStep
  <1>2. api' = api
    BY DEF RunStep, AnnounceFails
  <1>3. \A i \in Jobs \ {j} : CancelKept(i) => CancelKept(i)'
    BY <1>1, <1>2 DEF CancelKept, NeverRuns, NeedsCheck, Posted
  <1>4. /\ Posted(j) => db'[j].status # "cancelled" /\ (Busy(j)' => run'[j].note # "cancelled")
        /\ CancelKept(j) => CancelKept(j)'
    <2>1. CASE CheckPasses(j) \/ RateLimitElapses(j)
      <3>1. /\ db' = db /\ run'[j].note = run[j].note
            /\ \/ run'[j].pc = "checked" /\ db[j].status # "cancelled"
               \/ run'[j].pc = "notify" /\ run[j].pc = "notify" /\ run[j].recent
        BY <2>1 DEF CheckPasses, RateLimitElapses, RunOK, JobRunTypeOK, Run
      <3> QED
        BY <1>1, <1>2, <3>1 DEF PostedNotCancelled, CancelKept, NeverRuns, NeedsCheck, Posted, Busy
    <2>2. CASE CheckRaises(j)
      <3>1. /\ db' = db /\ db[j].status = "cancelled" /\ run'[j].note = "cancelled"
            /\ run'[j].pc = "notify"
        BY <2>2 DEF CheckRaises, RunOK, JobRunTypeOK, Run
      <3> QED
        BY <1>2, <3>1 DEF PostedNotCancelled, CancelKept, NeverRuns, NeedsCheck, Posted
    <2>3. CASE Write(j) \/ AnnounceFails(j)
      <3>1. CancelKept(j) => run[j].note \in {"rejected", "cancelled", "failed"}
        BY <1>1, <2>3, ReportedStatus DEF CancelKept, NeverRuns, Cleared, NeedsCheck, Busy
      <3> QED
        BY <1>1, <1>2, <2>3, <3>1, ReportedStatus
        DEF PostedNotCancelled, CancelKept, NeverRuns, NeedsCheck, Posted
    <2>4. CASE Drop(j)
      <3>1. Delivered(j) /\ run[j].note = "progress" /\ db' = db /\ run[j].recent
        BY <2>4 DEF Drop, MayDrop
      <3>2. Busy(j)' => run'[j].note # "cancelled"
        BY <1>1, <3>1, DeliveredOK DEF RunOK
      <3>3. ~CancelKept(j)
        BY <1>1, <3>1 DEF CancelKept, NeverRuns, NeedsCheck, Busy
      <3> QED
        BY <1>1, <1>2, <3>1, <3>2, <3>3 DEF PostedNotCancelled, Posted
    <2>5. CASE NotifyFails(j)
      <3>1. db' = db /\ (ObserverRaises(j) \/ LeavesUnreported(j)) /\ RunOK
        BY <2>5 DEF NotifyFails
      <3>2. \/ run'[j].pc \in {"finished", "raised"}
            \/ /\ run'[j].pc = "notify"
               /\ run'[j].note = "failed"
        BY <3>1, ObserverRaisesOK
      <3> QED
        BY <1>1, <1>2, <3>1, <3>2
        DEF PostedNotCancelled, CancelKept, NeverRuns, NeedsCheck, Posted, Busy
    <2> QED
      BY <2>1, <2>2, <2>3, <2>4, <2>5 DEF RunStep, JobRunStep, Updating
  <1>5. PostedNotCancelled'
    BY <1>1, <1>2, <1>4 DEF PostedNotCancelled, Posted, Busy
  <1> QED
    BY <1>3, <1>4, <1>5

LEMMA RequestStepCancelled ==
    ASSUME ICancelled, NEW j \in Jobs, RequestStep(j)
    PROVE  /\ PostedNotCancelled'
           /\ \A i \in Jobs : CancelKept(i) => CancelKept(i)'
  <1> USE DEF ICancelled, IOnce, IType, TypeOK
  <1>1. run' = run
    BY DEF RequestStep
  <1>2. \/ /\ db'[j].status = "pending" /\ ~Exists(j) /\ run[j].pc = "idle"
           /\ \A i \in Jobs \ {j} : db'[i] = db[i]
           /\ api' = [pc |-> "submit", job |-> j]
        \/ /\ \A i \in Jobs : db'[i] = db[i] \/ db'[i].status = "cancelled"
           /\ api'.pc \in {"idle", "cancel"}
    <2>1. CASE PostNew(j)
      <3>1. db'[j].status = "pending" /\ \A i \in Jobs \ {j} : db'[i] = db[i]
        BY <2>1, NewOK DEF PostNew, NewEntry, AbsentEntry
      <3>2. ~Exists(j) /\ api' = [pc |-> "submit", job |-> j]
        BY <2>1 DEF PostNew, New
      <3> QED
        BY <3>1, <3>2 DEF ExecutedExist
    <2>2. CASE CancelRead(j) \/ CancelFails(j)
      BY <2>2 DEF CancelRead, CancelFails, NoRequest
    <2>3. CASE CancelWrite(j)
      <3>1. SetStatus(j, "cancelled") /\ "cancelled" \in Status
        BY <2>3 DEF CancelWrite, Status
      <3> QED
        BY <2>3, <3>1, SetStatusOK DEF CancelWrite, NoRequest
    <2> QED
      BY <2>1, <2>2, <2>3 DEF RequestStep, ApiStep
  <1>3. PostedNotCancelled'
    BY <1>1, <1>2 DEF PostedNotCancelled, Posted, Busy
  <1>4. ASSUME NEW i \in Jobs, CancelKept(i) PROVE CancelKept(i)'
    <2>1. Exists(i)
      BY <1>4 DEF CancelKept, Exists
    <2>2. ~Posted(i)' /\ (db'[i] = db[i] \/ db'[i].status = "cancelled")
      BY <1>2, <2>1 DEF Posted
    <2> QED
      BY <1>1, <1>4, <2>2 DEF CancelKept, NeverRuns, NeedsCheck
  <1> QED
    BY <1>3, <1>4

LEMMA PoolStartCancelled ==
    ASSUME ICancelled, PoolStart
    PROVE  /\ PostedNotCancelled'
           /\ \A i \in Jobs : CancelKept(i) => CancelKept(i)'
  <1> USE DEF ICancelled, IOnce, IType, TypeOK
  <1>1. PICK h \in Jobs : h = Head(queue)
    BY HeadTail DEF PoolStart
  <1>2. StartRun(h) /\ db' = db /\ api' = api
    BY <1>1 DEF PoolStart
  <1>3. run[h].pc = "idle"
    BY <1>1, HeadTail DEF PoolStart, QueueOK, Waits
  <1>4. /\ run'[h].pc = "notify" /\ run'[h].note \in {"parsing", "rejected"}
        /\ ~run'[h].recent
        /\ \A i \in Jobs \ {h} : run'[i] = run[i]
    BY <1>2, StartRunOK DEF StartRun, RunOK, JobRunTypeOK
  <1>5. PostedNotCancelled'
    BY <1>2, <1>3, <1>4 DEF PostedNotCancelled, Posted, Busy
  <1>6. \A i \in Jobs : CancelKept(i) => CancelKept(i)'
    BY <1>2, <1>3, <1>4 DEF CancelKept, NeverRuns, NeedsCheck, Posted
  <1> QED
    BY <1>5, <1>6

LEMMA NextCancelled ==
    ASSUME ICancelled, [Next]_vars
    PROVE  ICancelled' /\ \A i \in Jobs : CancelKept(i) => CancelKept(i)'
  <1> USE DEF ICancelled, IOnce, IType, TypeOK
  <1> DEFINE Goal == PostedNotCancelled' /\ \A i \in Jobs : CancelKept(i) => CancelKept(i)'
  <1>1. IOnce'
    BY NextOnce
  <1>2. ASSUME NEW j \in Jobs, Submit(j) PROVE Goal
    <2>1. db' = db /\ run' = run /\ api = [pc |-> "submit", job |-> j]
          /\ api' = [pc |-> "created", job |-> j]
      BY <1>2 DEF Submit
    <2>2. \A i \in Jobs : Posted(i)' <=> Posted(i)
      BY <2>1 DEF Posted
    <2> QED
      BY <2>1, <2>2 DEF PostedNotCancelled, CancelKept, NeverRuns, NeedsCheck, Busy
  <1>3. ASSUME NEW j \in Jobs, SubmitFails(j) \/ AssignPending(j) PROVE Goal
    <2>1. /\ run' = run /\ api'.pc = "idle" /\ Posted(j)
          /\ \A i \in Jobs \ {j} : db'[i].status = db[i].status
      BY <1>3 DEF SubmitFails, AssignPending, NoRequest, Posted, StatusHandlerTypeOK
    <2>2. PostedNotCancelled'
      BY <2>1 DEF PostedNotCancelled, Posted
    <2>3. \A i \in Jobs : CancelKept(i) => i # j
      BY <2>1 DEF CancelKept
    <2> QED
      BY <2>1, <2>2, <2>3 DEF CancelKept, NeverRuns, NeedsCheck, Posted
  <1>4. ASSUME NEW j \in Jobs, PoolFinish(j) PROVE Goal
    <2>1. /\ run'[j].pc = "finished" /\ run[j].pc = "raised" /\ db' = db /\ api' = api
          /\ \A i \in Jobs \ {j} : run'[i] = run[i]
      BY <1>4, RestingType DEF PoolFinish, RunOK, JobRunTypeOK
    <2> QED
      BY <2>1 DEF PostedNotCancelled, CancelKept, NeverRuns, NeedsCheck, Posted, Busy
  <1>5. ASSUME Shutdown \/ UNCHANGED vars PROVE Goal
    <2>1. /\ db' = db /\ run' = run
          /\ \A i \in Jobs : Posted(i)' <=> Posted(i)
      BY <1>5 DEF Shutdown, vars, NoRequest, Posted
    <2> QED
      BY <2>1 DEF PostedNotCancelled, CancelKept, NeverRuns, NeedsCheck, Busy
  <1> QED
    BY <1>1, <1>2, <1>3, <1>4, <1>5, RunStepCancelled, RequestStepCancelled, PoolStartCancelled
    DEF Next

(***************************************************************************)
(* A cancellation holds, whatever calls fail afterwards, and with either    *)
(* registry, unless it comes while a report is on its way that has found    *)
(* the job not cancelled or need not look: the status is "cancelled" for    *)
(* good, or "failed".  A job cancelled in the queue, above all, never runs. *)
(***************************************************************************)
THEOREM CancellationKept == Spec => CancelHolds
  <1> SUFFICES ASSUME NEW j \in Jobs
               PROVE  Spec => [](db[j].status = "cancelled" /\ ~Cleared(j)
                                   => [](db[j].status \in {"cancelled", "failed"}))
    BY DEF CancelHolds
  <1>1. Init => ICancelled
    BY InitOnce DEF Init, ApiInit, NoRequest, ICancelled, PostedNotCancelled, Posted
  <1>2. ICancelled /\ [Next]_vars => ICancelled'
    BY NextCancelled
  <1>3. ICancelled /\ db[j].status = "cancelled" /\ ~Cleared(j) => CancelKept(j)
    <2> SUFFICES ASSUME ICancelled, db[j].status = "cancelled", ~Cleared(j)
                 PROVE  CancelKept(j)
      OBVIOUS
    <2>1. ~Posted(j)
      BY DEF ICancelled, PostedNotCancelled
    <2>2. run[j].pc \in {"idle", "notify", "checked", "finished", "raised"}
      BY DEF ICancelled, IOnce, IType, TypeOK, JobRunTypeOK, Run
    <2> QED
      BY <2>1, <2>2 DEF Cleared, CancelKept, NeverRuns
  <1>4. ICancelled /\ CancelKept(j) /\ [Next]_vars => CancelKept(j)'
    BY NextCancelled
  <1>5. CancelKept(j) => db[j].status \in {"cancelled", "failed"}
    BY DEF CancelKept
  <1> QED
    BY <1>1, <1>2, <1>3, <1>4, <1>5, PTL DEF Spec

-----------------------------------------------------------------------------
(***************************************************************************)
(* A job that is done or failed stays settled.  What makes the invariant    *)
(* inductive: what its execution may still report leaves it settled, and it *)
(* is not executed again (IOnce).                                           *)
(***************************************************************************)
LastNotes == {"result", "failed", "cancelled", "rejected"}

Ends(j) == run[j].pc # "idle" /\ (Busy(j) => run[j].note \in LastNotes)

Settled(j) == db[j].status \in Terminal /\ Ends(j)

FinishedEnds == \A j \in Jobs : db[j].status \in {"done", "failed"} => Ends(j)

IFinished == IOnce /\ FinishedEnds

LEMMA RunStepFinished ==
    ASSUME IFinished, NEW j \in Jobs, RunStep(j) \/ AnnounceFails(j)
    PROVE  FinishedEnds' /\ \A i \in Jobs : Settled(i) => Settled(i)'
  <1> USE DEF IFinished, IOnce, IType, TypeOK
  <1>1. /\ \A i \in Jobs \ {j} : run'[i] = run[i] /\ db'[i] = db[i]
        /\ Busy(j) /\ run'[j].pc # "idle" /\ run[j].pc # "idle"
    BY JobRunStepOK, AnnounceFailsOK DEF RunStep, Busy
  <1>2. run[j].note \in Notes
    BY <1>1 DEF RunOK
  <1>3. /\ db'[j].status \in {"done", "failed"} => Ends(j)'
        /\ Settled(j) => Settled(j)'
    <2>1. CASE CheckPasses(j) \/ CheckRaises(j) \/ RateLimitElapses(j)
      <3>1. db' = db /\ (run'[j].note = run[j].note \/ run'[j].note = "cancelled")
        BY <2>1 DEF CheckPasses, CheckRaises, RateLimitElapses, RunOK, JobRunTypeOK, Run
      <3> QED
        BY <1>1, <3>1 DEF FinishedEnds, Settled, Ends, LastNotes
    <2>2. CASE Write(j)
      <3>1. db'[j].status = Given(WrittenStatus(run[j].note), db[j].status)
        BY <2>2, ReportedStatus
      <3>2. /\ Busy(j)' => run[j].note \notin LastNotes
            /\ Busy(j)' /\ run[j].note = "done" => run'[j].note = "result"
        BY <1>2, <2>2, DeliveredOK DEF Write, LastNotes, Busy
      <3>3. CASE run[j].note \in LastNotes
        <4>1. WrittenStatus(run[j].note) \in {None, "failed", "cancelled"}
          BY <3>3 DEF LastNotes, WrittenStatus, Status
        <4> QED
          BY <1>1, <3>1, <3>2, <3>3, <4>1 DEF Settled, Ends, Given, Terminal
      <3>4. CASE run[j].note = "done"
        BY <1>1, <3>2, <3>4 DEF Settled, Ends, LastNotes
      <3>5. CASE run[j].note \notin LastNotes \cup {"done"}
        <4>1. WrittenStatus(run[j].note) \notin {"done", "failed"}
          BY <3>5, NoneAssumption DEF LastNotes, WrittenStatus, Status
        <4>2. ~Ends(j)
          BY <1>1, <3>5 DEF Ends
        <4> QED
          BY <3>1, <4>1, <4>2 DEF FinishedEnds, Settled, Given
      <3> QED
        BY <3>3, <3>4, <3>5
    <2>3. CASE Drop(j)
      <3>1. run[j].note = "progress" /\ db' = db
        BY <2>3 DEF Drop, MayDrop
      <3> QED
        BY <1>1, <3>1 DEF FinishedEnds, Settled, Ends, LastNotes
    <2>4. CASE NotifyFails(j) \/ AnnounceFails(j)
      <3>1. (ObserverRaises(j) \/ LeavesUnreported(j)) /\ RunOK
        BY <2>4 DEF NotifyFails, AnnounceFails
      <3>2. Ends(j)'
        BY <1>1, <3>1, ObserverRaisesOK DEF Ends, Busy, LastNotes
      <3>3. Settled(j) => db'[j].status \in Terminal
        <4>1. CASE NotifyFails(j)
          BY <4>1 DEF NotifyFails, Settled
        <4>2. CASE AnnounceFails(j)
          BY <1>1, <4>2, ReportedStatus
          DEF Settled, Ends, LastNotes, AnnounceFails, Announced, Terminal
        <4> QED
          BY <2>4, <4>1, <4>2
      <3> QED
        BY <3>2, <3>3 DEF Settled
    <2> QED
      BY <2>1, <2>2, <2>3, <2>4 DEF RunStep, JobRunStep, Updating
  <1> QED
    BY <1>1, <1>3 DEF FinishedEnds, Settled, Ends, Busy

LEMMA NextFinished ==
    ASSUME ~SharedEntries, IFinished, [Next]_vars
    PROVE  IFinished' /\ \A i \in Jobs : Settled(i) => Settled(i)'
  <1> USE DEF IFinished, IOnce, IType, TypeOK
  <1> DEFINE Goal == FinishedEnds' /\ \A i \in Jobs : Settled(i) => Settled(i)'
  <1>1. IOnce'
    BY NextOnce
  <1>2. ASSUME NEW j \in Jobs, RequestStep(j) PROVE Goal
    <2>1. /\ run' = run
          /\ \A i \in Jobs \ {j} : db'[i] = db[i]
          /\ \/ db'[j] = db[j]
             \/ db'[j].status = "cancelled"
             \/ db'[j].status = "pending" /\ ~Exists(j)
      BY <1>2, ApiStepOK DEF RequestStep
    <2> QED
      BY <2>1 DEF FinishedEnds, Settled, Ends, Busy, Terminal, Exists
  <1>3. ASSUME PoolStart PROVE Goal
    <2>1. PICK h \in Jobs : h = Head(queue)
      BY <1>3, HeadTail DEF PoolStart
    <2>2. StartRun(h) /\ db' = db
      BY <1>3, <2>1 DEF PoolStart
    <2>3. run[h].pc = "idle"
      BY <1>3, <2>1, HeadTail DEF PoolStart, QueueOK, Waits
    <2>4. \A i \in Jobs \ {h} : run'[i] = run[i]
      BY <2>2, StartRunOK
    <2> QED
      BY <2>2, <2>3, <2>4 DEF FinishedEnds, Settled, Ends, Busy
  <1>4. ASSUME NEW j \in Jobs, PoolFinish(j) PROVE Goal
    <2>1. /\ run'[j].pc = "finished" /\ run[j].pc = "raised" /\ db' = db
          /\ \A i \in Jobs \ {j} : run'[i] = run[i]
      BY <1>4, RestingType DEF PoolFinish, RunOK, JobRunTypeOK
    <2> QED
      BY <2>1 DEF FinishedEnds, Settled, Ends, Busy
  <1>5. ASSUME db' = db, run' = run PROVE Goal
    BY <1>5 DEF FinishedEnds, Settled, Ends, Busy
  <1>6. ASSUME NEW j \in Jobs, Submit(j) \/ SubmitFails(j) \/ AssignPending(j)
        PROVE  Goal
    BY <1>5, <1>6 DEF Submit, SubmitFails, AssignPending
  <1>7. ASSUME Shutdown \/ UNCHANGED vars PROVE Goal
    BY <1>5, <1>7 DEF Shutdown, vars
  <1> QED
    BY <1>1, <1>2, <1>3, <1>4, <1>6, <1>7, RunStepFinished DEF Next

(***************************************************************************)
(* With a registry that is not shared memory, a job that is done or failed  *)
(* never looks under way again: however often execute() starts over,        *)
(* whatever calls fail, and whenever a cancellation comes in.               *)
(***************************************************************************)
THEOREM FinishedIsFinal == ~SharedEntries => (Spec => FinishedForGood)
  <1> SUFFICES ASSUME ~SharedEntries, NEW j \in Jobs
               PROVE  Spec => [](db[j].status \in {"done", "failed"}
                                   => [](db[j].status \in Terminal))
    BY DEF FinishedForGood
  <1>1. Init => IFinished
    BY InitOnce DEF Init, IFinished, FinishedEnds, AbsentEntry
  <1>2. IFinished /\ [Next]_vars => IFinished'
    BY NextFinished
  <1>3. IFinished /\ db[j].status \in {"done", "failed"} => Settled(j)
    BY DEF IFinished, FinishedEnds, Settled, Terminal
  <1>4. IFinished /\ Settled(j) /\ [Next]_vars => Settled(j)'
    BY NextFinished
  <1>5. Settled(j) => db[j].status \in Terminal
    BY DEF Settled
  <1> QED
    BY <1>1, <1>2, <1>3, <1>4, <1>5, PTL DEF Spec

(***************************************************************************)
(* The status of a job whose execution is over says so, if the registry is  *)
(* not shared memory and answers: what the memory registry gets wrong comes *)
(* from the entry that submit() and the registry share, and from nothing    *)
(* else.                                                                    *)
(***************************************************************************)
THEOREM FinishedSaysSo == Reliable => (Spec => []FinishedJobIsSettled)
  <1> SUFFICES ASSUME Reliable PROVE Spec => []FinishedJobIsSettled
    OBVIOUS
  <1>1. IOnce /\ NoJobForgotten => FinishedJobIsSettled
    <2> SUFFICES ASSUME IOnce, NoJobForgotten, NEW j \in Jobs, run[j].pc = "finished"
                 PROVE  db[j].status \in Terminal
      BY DEF FinishedJobIsSettled
    <2>1. Exists(j) /\ ~Busy(j)
      BY DEF IOnce, ExecutedExist, Busy
    <2>2. ~InQueue(j) /\ api # [pc |-> "submit", job |-> j]
      BY DEF IOnce, QueueOK, SubmitOK, Waits, InQueue
    <2> QED
      BY <2>1, <2>2 DEF NoJobForgotten, Forgotten, InHand
  <1> QED
    BY <1>1, InitOnce, NextOnce, NothingForgotten, PTL DEF Spec

=============================================================================
