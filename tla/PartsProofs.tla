----------------------------- MODULE PartsProofs -----------------------------
(***************************************************************************)
(* Facts about the parts both hubs are composed of: the registry's set()    *)
(* and new(), the requests, and the steps of one execution.                 *)
(***************************************************************************)
EXTENDS JobRun, Api, TLAPS

\* The keyword arguments the callers of set() pass, None where they pass none.
GivenAttributes == [status : Status \cup {None},
                    submitted_to_k8s : BOOLEAN \cup {None},
                    k8s_attempts : Nat \cup {None},
                    dask_dashboard_link : {None, "url"},
                    result : BOOLEAN \cup {None}]

(***************************************************************************)
(* set() stores an entry again.                                             *)
(***************************************************************************)
LEMMA SetAttributesType ==
    ASSUME NEW entry \in Entry, NEW new \in GivenAttributes
    PROVE  SetAttributes(entry, new) \in Entry
  BY DEF Entry, Ages, GivenAttributes, SetAttributes, Given

LEMMA WithStatusType ==
    ASSUME NEW s \in Status \cup {None}
    PROVE  /\ WithStatus(s) \in GivenAttributes
           /\ WithStatus(s) = [NoAttributes EXCEPT !.status = s]
  BY DEF WithStatus, NoAttributes, GivenAttributes

LEMMA NoAttributesType == NoAttributes \in GivenAttributes
  BY DEF NoAttributes, GivenAttributes

(***************************************************************************)
(* set(job_id, status=s) changes nothing that submit() writes.              *)
(***************************************************************************)
LEMMA SetStatusOK ==
    ASSUME StatusHandlerTypeOK, NEW j \in Jobs, NEW s \in Status, SetStatus(j, s)
    PROVE  /\ db' \in [Jobs -> Entry]
           /\ \A i \in Jobs \ {j} : db'[i] = db[i]
           /\ db'[j].status = s
           /\ db'[j].submitted_to_k8s = db[j].submitted_to_k8s
           /\ db'[j].k8s_attempts = db[j].k8s_attempts
           /\ db'[j].result = db[j].result
           /\ db'[j].age = "recent"
  <1> DEFINE e == SetAttributes(db[j], WithStatus(s))
  <1>1. db[j] \in Entry
    BY DEF StatusHandlerTypeOK
  <1>2. e \in Entry
    BY <1>1, SetAttributesType, WithStatusType
  <1>3. s # None
    BY NoneAssumption
  <1>4. /\ e.status = s
        /\ e.submitted_to_k8s = db[j].submitted_to_k8s
        /\ e.k8s_attempts = db[j].k8s_attempts
        /\ e.result = db[j].result
        /\ e.age = "recent"
    BY <1>3 DEF SetAttributes, WithStatus, NoAttributes, Given
  <1>5. db' = [db EXCEPT ![j] = e]
    BY DEF SetStatus, Set
  <1> HIDE DEF e
  <1> QED
    BY <1>2, <1>4, <1>5 DEF StatusHandlerTypeOK

LEMMA NewOK ==
    ASSUME StatusHandlerTypeOK, NEW j \in Jobs, New(j)
    PROVE  /\ db' \in [Jobs -> Entry]
           /\ \A i \in Jobs \ {j} : db'[i] = db[i]
           /\ db'[j] = NewEntry
           /\ ~db'[j].submitted_to_k8s /\ db'[j].k8s_attempts = 0 /\ ~db'[j].result
           /\ db'[j].age = "recent"
  <1>1. /\ NewEntry \in Entry /\ ~NewEntry.submitted_to_k8s
        /\ NewEntry.k8s_attempts = 0 /\ ~NewEntry.result /\ NewEntry.age = "recent"
    BY DEF NewEntry, AbsentEntry, Entry, Status, Ages
  <1>2. db' = [db EXCEPT ![j] = NewEntry]
    BY DEF New
  <1> QED
    BY <1>1, <1>2 DEF StatusHandlerTypeOK

LEMMA FaultOK ==
    ASSUME StatusHandlerTypeOK, Fault
    PROVE  faults' \in 0..MaxFaults
  BY MaxFaultsAssumption DEF StatusHandlerTypeOK, Fault

-----------------------------------------------------------------------------
(***************************************************************************)
(* A request keeps the types and touches its own job only: it creates the   *)
(* job, cancels it, or leaves it alone; and it leaves no request between    *)
(* creating and submitting a job.                                           *)
(***************************************************************************)
LEMMA ApiStepOK ==
    ASSUME StatusHandlerTypeOK, ApiTypeOK, NEW j \in Jobs, ApiStep(j)
    PROVE  /\ StatusHandlerTypeOK'
           /\ ApiTypeOK'
           /\ \A i \in Jobs \ {j} : db'[i] = db[i]
           /\ api.pc \in {"idle", "cancel"}
           /\ db'[j].age \in {db[j].age, "recent"}
           /\ \/ db'[j] = db[j]
              \/ /\ db'[j].status = "cancelled"
                 /\ db'[j].submitted_to_k8s = db[j].submitted_to_k8s
                 /\ db'[j].k8s_attempts = db[j].k8s_attempts
                 /\ db'[j].result = db[j].result
                 /\ api = [pc |-> "cancel", job |-> j]
              \/ /\ ~db'[j].submitted_to_k8s
                 /\ db'[j].k8s_attempts = 0
                 /\ ~db'[j].result
                 /\ db'[j].status = "pending"
                 /\ ~Exists(j)
                 /\ api' = [pc |-> "submit", job |-> j]
  <1>1. CASE PostNew(j)
    <2>1. NewEntry.status = "pending"
      BY DEF NewEntry, AbsentEntry
    <2> QED
      BY <1>1, <2>1, NewOK
      DEF PostNew, StatusHandlerTypeOK, ApiTypeOK, Request, ApiStages, New
  <1>2. CASE CancelRead(j)
    BY <1>2 DEF CancelRead, StatusHandlerTypeOK, ApiTypeOK, Request, ApiStages
  <1>3. CASE CancelWrite(j)
    <2>1. SetStatus(j, "cancelled") /\ "cancelled" \in Status
      BY <1>3 DEF CancelWrite, Status
    <2> QED
      BY <1>3, <2>1, SetStatusOK
      DEF CancelWrite, StatusHandlerTypeOK, ApiTypeOK, Request, ApiStages, NoRequest
  <1>4. CASE CancelFails(j)
    BY <1>4, FaultOK
    DEF CancelFails, StatusHandlerTypeOK, ApiTypeOK, Request, ApiStages, NoRequest
  <1> QED
    BY <1>1, <1>2, <1>3, <1>4 DEF ApiStep

-----------------------------------------------------------------------------
(***************************************************************************)
(* A report is stored as an entry, and leaves alone what only submit()      *)
(* writes.                                                                  *)
(***************************************************************************)
LEMMA WrittenStatusType ==
    ASSUME NEW note \in Notes
    PROVE  WrittenStatus(note) \in Status \cup {None}
  BY DEF Notes, ExecuteNotes, WrittenStatus, Status

LEMMA AttributesType ==
    ASSUME NEW note \in Notes
    PROVE  /\ Attributes(note) \in GivenAttributes
           /\ Attributes(note).submitted_to_k8s = None
           /\ Attributes(note).k8s_attempts = None
           /\ Attributes(note).status = WrittenStatus(note)
           /\ Attributes(note).result = None \/ note = "result"
  BY WrittenStatusType DEF Attributes, WithStatus, NoAttributes, GivenAttributes

LEMMA WrittenType ==
    ASSUME NEW entry \in Entry, NEW note \in Notes
    PROVE  /\ Written(entry, note) \in Entry
           /\ Written(entry, note).submitted_to_k8s = entry.submitted_to_k8s
           /\ Written(entry, note).k8s_attempts = entry.k8s_attempts
           /\ Written(entry, note).status = Given(WrittenStatus(note), entry.status)
           /\ Written(entry, note).result = entry.result \/ note = "result"
           /\ Written(entry, note).age = "recent"
  <1>1. SetAttributes(entry, NoAttributes) \in Entry
    BY SetAttributesType, NoAttributesType
  <1>2. Written(entry, note) \in Entry
    BY <1>1, SetAttributesType, AttributesType DEF Written
  <1>3. SetAttributes(entry, NoAttributes).submitted_to_k8s = entry.submitted_to_k8s
        /\ SetAttributes(entry, NoAttributes).k8s_attempts = entry.k8s_attempts
        /\ SetAttributes(entry, NoAttributes).status = entry.status
        /\ SetAttributes(entry, NoAttributes).result = entry.result
    BY DEF SetAttributes, NoAttributes, Given
  <1>4. \A e : /\ SetAttributes(e, Attributes(note)).submitted_to_k8s = e.submitted_to_k8s
               /\ SetAttributes(e, Attributes(note)).k8s_attempts = e.k8s_attempts
               /\ SetAttributes(e, Attributes(note)).status
                    = Given(WrittenStatus(note), e.status)
               /\ SetAttributes(e, Attributes(note)).result = e.result \/ note = "result"
               /\ SetAttributes(e, Attributes(note)).age = "recent"
    BY AttributesType DEF SetAttributes, Given
  <1> QED
    BY <1>2, <1>3, <1>4 DEF Written

-----------------------------------------------------------------------------
(***************************************************************************)
(* An execution under way always has a note to deliver: what makes the type *)
(* of "run" inductive.                                                      *)
(***************************************************************************)
RunOK == JobRunTypeOK /\ \A j \in Jobs : Busy(j) => run[j].note \in Notes

LEMMA RestingType == \A pc \in {"idle", "finished", "raised"} :
                        Resting(pc) \in Run /\ Resting(pc).pc = pc
  BY RetriesAssumption DEF Resting, Run

LEMMA RunOKChange ==
    ASSUME RunOK, NEW j \in Jobs, NEW r \in Run,
           r.pc \in {"notify", "checked"} => r.note \in Notes,
           run' = [run EXCEPT ![j] = r]
    PROVE  /\ RunOK'
           /\ run'[j] = r
           /\ \A i \in Jobs \ {j} : run'[i] = run[i]
  BY DEF RunOK, JobRunTypeOK, Busy

LEMMA StartRunOK ==
    ASSUME RunOK, NEW j \in Jobs, StartRun(j)
    PROVE  /\ RunOK'
           /\ run'[j].pc = "notify"
           /\ \A i \in Jobs \ {j} : run'[i] = run[i]
           /\ run'[j].note \in {"parsing", "rejected"}
  <1>1. PICK note \in {"parsing", "rejected"} :
            run' = [run EXCEPT ![j] = [pc |-> "notify", note |-> note,
                                       recent |-> FALSE, retries |-> Retries]]
    BY DEF StartRun
  <1> DEFINE r == [pc |-> "notify", note |-> note, recent |-> FALSE, retries |-> Retries]
  <1>2. r \in Run /\ r.note \in Notes /\ r.pc = "notify"
    BY RetriesAssumption DEF Run, Notes, ExecuteNotes
  <1>3. RunOK'
    BY <1>1, <1>2, RunOKChange
  <1> QED
    BY <1>1, <1>2, <1>3 DEF RunOK, JobRunTypeOK

(***************************************************************************)
(* After a note the execution has another one to deliver, or it is over;    *)
(* and it is over only after the result or a report that settles the job.   *)
(***************************************************************************)
LEMMA ProceedType ==
    ASSUME NEW r \in Run, NEW note \in Notes, note = "retrying" => r.retries > 0
    PROVE  /\ Proceed(r, note) \in Run
           /\ Proceed(r, note).pc = "notify"
           /\ Proceed(r, note).note = note
  <1>1. (IF note = "retrying" THEN r.retries - 1 ELSE r.retries) \in 0..Retries
    BY RetriesAssumption DEF Run
  <1>2. (r.recent \/ r.note \in {"running", "progress"}) \in BOOLEAN
    OBVIOUS
  <1> QED
    BY <1>1, <1>2 DEF Proceed, Run

LEMMA DeliveredOK ==
    ASSUME RunOK, NEW j \in Jobs, run[j].note \in Notes, Delivered(j)
    PROVE  /\ RunOK'
           /\ \A i \in Jobs \ {j} : run'[i] = run[i]
           /\ run'[j].pc # "idle"
           /\ Busy(j)' \/ run[j].note \in {"result", "failed", "cancelled", "rejected"}
           /\ Busy(j)' /\ run'[j].note = "result" => run[j].note = "done"
           /\ Busy(j)' => run'[j].note # "cancelled"
           /\ Busy(j)' /\ run[j].note = "done" => run'[j].note = "result"
           /\ run[j].note \in {"result", "failed", "cancelled"} => run'[j].pc = "finished"
           /\ run[j].note = "rejected" => run'[j].pc = "raised"
  <1>1. run[j] \in Run
    BY DEF RunOK, JobRunTypeOK
  <1>2. ASSUME NEW note \in Notes, ExecuteGoesOn(run[j], note),
               RunBecomes(j, Proceed(run[j], note))
        PROVE  /\ RunOK' /\ Busy(j)' /\ run'[j].note \notin {"result", "cancelled"}
               /\ \A i \in Jobs \ {j} : run'[i] = run[i]
               /\ run[j].note \notin {"done", "result", "failed", "cancelled", "rejected"}
    <2>1. /\ note \notin {"result", "cancelled"}
          /\ run[j].note \notin {"done", "result", "failed", "cancelled", "rejected"}
      BY <1>2, ReportedAssumption DEF ExecuteGoesOn, ExecuteNotes, ExecuteOrder, Executing
    <2>2. note = "retrying" => run[j].retries > 0
      BY <1>2 DEF ExecuteGoesOn, ExecuteOrder, Initializing
    <2> DEFINE r == Proceed(run[j], note)
    <2>3. r \in Run /\ r.pc = "notify" /\ r.note = note
      BY <1>1, <2>2, ProceedType
    <2>4. run' = [run EXCEPT ![j] = r]
      BY <1>2 DEF RunBecomes
    <2> HIDE DEF r
    <2> QED
      BY <2>1, <2>3, <2>4, RunOKChange DEF Busy
  <1>3. ASSUME run[j].note = "done", RunBecomes(j, Proceed(run[j], "result"))
        PROVE  /\ RunOK' /\ Busy(j)' /\ run'[j].note = "result"
               /\ \A i \in Jobs \ {j} : run'[i] = run[i]
    <2>1. "result" \in Notes
      BY DEF Notes
    <2> DEFINE r == Proceed(run[j], "result")
    <2>2. r \in Run /\ r.pc = "notify" /\ r.note = "result"
      BY <1>1, <2>1, ProceedType
    <2>3. run' = [run EXCEPT ![j] = r]
      BY <1>3 DEF RunBecomes
    <2> HIDE DEF r
    <2> QED
      BY <2>1, <2>2, <2>3, RunOKChange DEF Busy
  <1>4. ASSUME NEW pc \in {"finished", "raised"}, RunBecomes(j, Resting(pc))
        PROVE  /\ RunOK' /\ ~Busy(j)' /\ run'[j].pc = pc
               /\ \A i \in Jobs \ {j} : run'[i] = run[i]
    BY <1>4, RestingType, RunOKChange DEF RunBecomes, Busy
  <1> QED
    BY <1>2, <1>3, <1>4 DEF Delivered, Busy

-----------------------------------------------------------------------------
(***************************************************************************)
(* A step of an execution keeps the types, touches its own job only, and    *)
(* leaves alone the fields that submit() writes.                            *)
(***************************************************************************)
LEMMA WriteOK ==
    ASSUME StatusHandlerTypeOK, RunOK, NEW j \in Jobs, Write(j)
    PROVE  /\ StatusHandlerTypeOK'
           /\ \A i \in Jobs \ {j} : db'[i] = db[i]
           /\ db'[j].submitted_to_k8s = db[j].submitted_to_k8s
           /\ db'[j].k8s_attempts = db[j].k8s_attempts
           /\ db'[j].status = Given(WrittenStatus(run[j].note), db[j].status)
           /\ db'[j].result = db[j].result \/ run[j].note = "result"
           /\ db'[j].age = "recent"
           /\ Exists(j) => Exists(j)'
  <1>1. run[j].note \in Notes
    BY DEF Write, Cleared, RunOK, Busy
  <1>2. db[j] \in Entry
    BY DEF StatusHandlerTypeOK
  <1> DEFINE e == Written(db[j], run[j].note)
  <1>3. /\ e \in Entry
        /\ e.submitted_to_k8s = db[j].submitted_to_k8s
        /\ e.k8s_attempts = db[j].k8s_attempts
        /\ e.status = Given(WrittenStatus(run[j].note), db[j].status)
        /\ e.result = db[j].result \/ run[j].note = "result"
        /\ e.age = "recent"
    BY <1>1, <1>2, WrittenType
  <1>4. db' = [db EXCEPT ![j] = e] /\ faults' = faults
    BY DEF Write
  <1> HIDE DEF e
  <1>5. WrittenStatus(run[j].note) \in Status \cup {None} /\ "absent" \notin Status
    BY <1>1, WrittenStatusType DEF Status
  <1> QED
    BY <1>3, <1>4, <1>5 DEF StatusHandlerTypeOK, Exists, Given

LEMMA ObserverRaisesOK ==
    ASSUME RunOK, NEW j \in Jobs, ObserverRaises(j) \/ LeavesUnreported(j)
    PROVE  /\ RunOK'
           /\ \A i \in Jobs \ {j} : run'[i] = run[i]
           /\ \/ run'[j].pc \in {"finished", "raised"}
              \/ run'[j].pc = "notify" /\ run'[j].note = "failed"
           /\ run[j].note \in {"failed", "result", "cancelled", "rejected"}
                => run'[j].pc \in {"finished", "raised"}
  <1>1. run[j] \in Run
    BY DEF RunOK, JobRunTypeOK
  <1>2. ASSUME NEW pc \in {"finished", "raised"}, RunBecomes(j, Resting(pc))
        PROVE  RunOK' /\ (\A i \in Jobs \ {j} : run'[i] = run[i]) /\ run'[j].pc = pc
    BY <1>2, RestingType, RunOKChange DEF RunBecomes
  <1>3. ASSUME run' = [run EXCEPT ![j].pc = "notify", ![j].note = "failed"]
        PROVE  RunOK' /\ (\A i \in Jobs \ {j} : run'[i] = run[i])
               /\ run'[j].pc = "notify" /\ run'[j].note = "failed"
    <2> DEFINE r == [run[j] EXCEPT !.pc = "notify", !.note = "failed"]
    <2>1. r \in Run /\ r.note = "failed" /\ r.note \in Notes /\ r.pc = "notify"
      BY <1>1 DEF Run, Notes, ExecuteNotes
    <2>2. run' = [run EXCEPT ![j] = r]
      BY <1>3
    <2> HIDE DEF r
    <2> QED
      BY <2>1, <2>2, RunOKChange
  <1> QED
    BY <1>2, <1>3 DEF ObserverRaises, LeavesUnreported, Executing

LEMMA JobRunStepOK ==
    ASSUME StatusHandlerTypeOK, RunOK, NEW j \in Jobs, JobRunStep(j)
    PROVE  /\ StatusHandlerTypeOK'
           /\ RunOK'
           /\ \A i \in Jobs \ {j} : run'[i] = run[i] /\ db'[i] = db[i]
           /\ db'[j].submitted_to_k8s = db[j].submitted_to_k8s
           /\ db'[j].k8s_attempts = db[j].k8s_attempts
           /\ db'[j].age \in {db[j].age, "recent"}
           /\ Exists(j) => Exists(j)'
           /\ run'[j].pc # "idle"
           /\ Busy(j)
  <1>1. run[j] \in Run
    BY DEF RunOK, JobRunTypeOK
  <1>2. CASE CheckPasses(j)
    <2> DEFINE r == [run[j] EXCEPT !.pc = "checked"]
    <2>1. r \in Run /\ r.pc = "checked" /\ r.note = run[j].note
      BY <1>1 DEF Run
    <2>2. run' = [run EXCEPT ![j] = r] /\ Busy(j) /\ run[j].note \in Notes
      BY <1>2 DEF CheckPasses, Busy, RunOK
    <2> HIDE DEF r
    <2> QED
      BY <1>2, <2>1, <2>2, RunOKChange DEF CheckPasses, StatusHandlerTypeOK, Exists
  <1>3. CASE CheckRaises(j)
    <2> DEFINE r == [run[j] EXCEPT !.note = "cancelled"]
    <2>1. r \in Run /\ r.note \in Notes /\ r.pc = run[j].pc
      BY <1>1 DEF Run, Notes
    <2>2. run' = [run EXCEPT ![j] = r] /\ run[j].pc = "notify" /\ Busy(j)
      BY <1>3 DEF CheckRaises, Busy
    <2> HIDE DEF r
    <2> QED
      BY <1>3, <2>1, <2>2, RunOKChange DEF CheckRaises, StatusHandlerTypeOK, Exists
  <1>4. CASE Write(j)
    <2>1. Busy(j) /\ run[j].note \in Notes /\ Delivered(j)
      BY <1>4 DEF Write, Cleared, Busy, RunOK
    <2> QED
      BY <1>4, <2>1, DeliveredOK, WriteOK
  <1>5. CASE Drop(j)
    <2>1. Busy(j) /\ run[j].note \in Notes /\ Delivered(j)
      BY <1>5 DEF Drop, Cleared, Busy, RunOK
    <2> QED
      BY <1>5, <2>1, DeliveredOK DEF Drop, StatusHandlerTypeOK, Exists
  <1>6. CASE NotifyFails(j)
    <2>1. /\ StatusHandlerTypeOK' /\ db' = db /\ Busy(j)
          /\ ObserverRaises(j) \/ LeavesUnreported(j)
      BY <1>6, FaultOK DEF NotifyFails, StatusHandlerTypeOK
    <2> QED
      BY <2>1, ObserverRaisesOK DEF Exists
  <1>7. CASE RateLimitElapses(j)
    <2> DEFINE r == [run[j] EXCEPT !.recent = FALSE]
    <2>1. r \in Run /\ r.pc = run[j].pc /\ r.note = run[j].note
      BY <1>1 DEF Run
    <2>2. run' = [run EXCEPT ![j] = r] /\ run[j].pc = "notify" /\ Busy(j) /\ run[j].note \in Notes
      BY <1>7 DEF RateLimitElapses, Busy, RunOK
    <2> HIDE DEF r
    <2> QED
      BY <1>7, <2>1, <2>2, RunOKChange DEF RateLimitElapses, StatusHandlerTypeOK, Exists
  <1> QED
    BY <1>2, <1>3, <1>4, <1>5, <1>6, <1>7 DEF JobRunStep, Updating

=============================================================================
