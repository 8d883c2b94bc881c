--------------------------- MODULE K8sLimitsProofs ---------------------------
(***************************************************************************)
(* Proofs about K8sHub: what a failed call or a crash may hide from the     *)
(* manager, and, where nothing goes wrong, that stalled jobs are noticed,   *)
(* launches are counted, and the limit of parallel jobs holds, although the *)
(* manager judges by old readings.                                          *)
(***************************************************************************)
EXTENDS K8sHubProofs

\* What may go wrong in a step: a call fails, or a process dies.
CallFails == Fault /\ UNCHANGED crashes
Dies == crashes > 0 /\ crashes' = crashes - 1 /\ UNCHANGED faults

(***************************************************************************)
(* The rounds of a manager, by what they do to its record.                  *)
(***************************************************************************)
Silent == UNCHANGED <<db, kjob>>

\* The round is over, or the process dies.
RoundEnds(m) ==
    /\ mgr[m].pc \in {"loop", "stalled"} \/ Dies
    /\ mgr'[m] = Sleeping /\ Silent

RoundBegins(m) ==
    /\ mgr[m].pc = "sleep"
    /\ mgr'[m].pc = "loop" /\ mgr'[m].phase = "retry" /\ mgr'[m].cur = None
    /\ mgr'[m].snap = [j \in Jobs |-> Read(db[j])]
    /\ mgr'[m].todo = RunningJobs(mgr'[m].snap)
    /\ Silent

QueueBegins(m) ==
    /\ mgr[m].pc = "loop" /\ mgr[m].phase = "retry"
    /\ mgr'[m].pc = "loop" /\ mgr'[m].phase = "submit" /\ mgr'[m].cur = mgr[m].cur
    /\ mgr'[m].snap = mgr[m].snap
    /\ mgr'[m].todo = QueuedJobs(mgr[m].snap)
    /\ mgr'[m].count = Cardinality(RunningJobs(mgr[m].snap))
    /\ Silent

SamePhase(m) ==
    /\ mgr'[m].phase = mgr[m].phase
    /\ mgr'[m].todo \subseteq mgr[m].todo

\* The job at hand is done with, or there is none and one is passed over.
GoesOn(m) ==
    /\ mgr[m].pc # "sleep" /\ mgr[m].pc # "record" /\ (mgr[m].pc = "report" => CallFails)
    /\ mgr'[m].pc = "loop" /\ SamePhase(m)
    /\ \/ mgr'[m].cur = None
       \/ mgr[m].pc = "loop" /\ mgr'[m].cur = mgr[m].cur
    /\ mgr'[m].snap = mgr[m].snap
    /\ \/ (mgr[m].pc = "create" => CallFails) /\ mgr'[m].count = mgr[m].count
       \/ mgr[m].pc = "create" /\ kjob[mgr[m].cur].state # "none"
    /\ Silent

\* A job is taken up.
TakesUp(m) ==
    /\ mgr[m].pc = "loop"
    /\ mgr'[m].cur \in mgr[m].todo /\ SamePhase(m)
    /\ mgr'[m].snap = mgr[m].snap /\ mgr'[m].count = mgr[m].count
    /\ \/ mgr'[m].pc = "stalled" /\ mgr[m].phase = "retry"
       \/ mgr'[m].pc = "create" /\ mgr[m].phase = "submit" /\ mgr[m].count < MaxParallel
    /\ Silent

StaysAt(m) ==
    /\ SamePhase(m)
    /\ mgr'[m].cur = mgr[m].cur /\ mgr'[m].snap = mgr[m].snap /\ mgr'[m].count = mgr[m].count

GoesToRetry(m) ==
    /\ \/ mgr[m].pc = "stalled" /\ mgr'[m].pc = "retry" /\ kjob[mgr[m].cur].state # "active"
       \/ mgr[m].pc = "retry" /\ mgr'[m].pc = "retrying"
    /\ StaysAt(m) /\ Silent

Restarts(m) ==
    /\ mgr[m].pc = "retrying" /\ mgr'[m].pc = "create"
    /\ StaysAt(m)
    /\ db' = [db EXCEPT ![mgr[m].cur] = Written(@, "retrying")]
    /\ UNCHANGED kjob

GivesUp(m) ==
    /\ mgr[m].pc = "retry" /\ mgr'[m].pc = "loop"
    /\ SamePhase(m) /\ mgr[m].cur \notin mgr'[m].todo
    /\ mgr'[m].cur = None /\ mgr'[m].count = mgr[m].count
    /\ mgr'[m].snap = [mgr[m].snap EXCEPT ![mgr[m].cur] = NotRead]
    /\ SetStatus(mgr[m].cur, "failed")
    /\ UNCHANGED kjob

Launches(m) ==
    /\ mgr[m].pc = "create" /\ mgr'[m].pc = "record"
    /\ StaysAt(m) /\ Create(mgr[m].cur)
    /\ UNCHANGED db

Records(m) ==
    /\ mgr[m].pc = "record" /\ mgr'[m].pc = "loop"
    /\ SamePhase(m) /\ mgr[m].cur \notin mgr'[m].todo
    /\ mgr'[m].cur = None
    /\ mgr'[m].count = IF mgr[m].phase = "submit" THEN mgr[m].count + 1 ELSE mgr[m].count
    /\ mgr'[m].snap = [mgr[m].snap EXCEPT ![mgr[m].cur] = Read(db'[mgr[m].cur])]
    /\ Set(mgr[m].cur, SubmittedAttributes(mgr[m].snap[mgr[m].cur].k8s_attempts))
    /\ UNCHANGED kjob

\* What is left out is what needs a failure: reports of failures.
ReportsFailure(m) ==
    \/ mgr[m].pc \in {"create", "record"} /\ mgr'[m].pc = "report" /\ StaysAt(m)
         /\ CallFails /\ Silent
    \/ mgr[m].pc = "report" /\ mgr'[m].pc = "loop" /\ SamePhase(m)
         /\ mgr'[m].cur = None /\ mgr'[m].snap = mgr[m].snap /\ mgr'[m].count = mgr[m].count
         /\ SetStatus(mgr[m].cur, "failed") /\ UNCHANGED kjob

LEMMA ContinueFields ==
    ASSUME NEW r \in Round
    PROVE  /\ Continue(r) \in Round
           /\ Continue(r).pc = "loop" /\ Continue(r).cur = None
           /\ Continue(r).phase = r.phase /\ Continue(r).todo = r.todo \ {r.cur}
           /\ Continue(r).snap = r.snap /\ Continue(r).count = r.count
  BY DEF Continue, Round

LEMMA CountedFields ==
    ASSUME NEW r \in Round
    PROVE  /\ Counted(r) \in Round
           /\ Counted(r).pc = r.pc /\ Counted(r).cur = r.cur
           /\ Counted(r).phase = r.phase /\ Counted(r).todo = r.todo
           /\ Counted(r).snap = r.snap
           /\ Counted(r).count = IF r.phase = "submit" THEN r.count + 1 ELSE r.count
  BY DEF Counted, Round

LEMMA MgrToOK ==
    ASSUME IInv, NEW m \in Managers, NEW r, MgrTo(m, r)
    PROVE  mgr'[m] = r /\ \A n \in Managers \ {m} : mgr'[n] = mgr[n]
  BY DEF IInv, TypeOK, ManagerTypeOK, MgrTo

\* Every step of a manager is one of these, and leaves the other rounds alone.
LEMMA ManagerEffect ==
    ASSUME IInv, NEW m \in Managers, ManagerStep(m)
    PROVE  /\ UNCHANGED <<run, kills, api>>
           /\ \A n \in Managers \ {m} : mgr'[n] = mgr[n]
           /\ \/ RoundEnds(m) \/ RoundBegins(m) \/ QueueBegins(m)
              \/ GoesOn(m) \/ TakesUp(m) \/ GoesToRetry(m) \/ Restarts(m) \/ GivesUp(m)
              \/ Launches(m) \/ Records(m) \/ ReportsFailure(m)
  <1>1. mgr[m] \in Round
    BY DEF IInv, TypeOK, ManagerTypeOK
  <1>2. ASSUME NEW r, MgrTo(m, r) PROVE mgr'[m] = r /\ \A n \in Managers \ {m} : mgr'[n] = mgr[n]
    BY <1>2, MgrToOK
  <1>3. UNCHANGED <<run, kills, api>> /\ \A n \in Managers \ {m} : mgr'[n] = mgr[n]
    BY <1>2
    DEF ManagerStep, ManagerWorks, ManagerFails, StaysHere, Fetch, AskCluster, AskRaises,
        RetryExhausted, RetryCheck, RetryWrite, CreateJob, CreateExists, Record, Report,
        StartSubmit, CleanEnds, SubmitDone, NotStalled, Stalled, DashboardError, SubmitPick,
        ObserversFail, SubmitFails, ReportFails, Crash
  <1> SUFFICES \/ RoundEnds(m) \/ RoundBegins(m) \/ QueueBegins(m)
               \/ GoesOn(m) \/ TakesUp(m) \/ GoesToRetry(m) \/ Restarts(m) \/ GivesUp(m)
               \/ Launches(m) \/ Records(m) \/ ReportsFailure(m)
    BY <1>3
  <1>4. CASE AskRaises(m) \/ CleanEnds(m) \/ SubmitDone(m) \/ Crash(m)
             \/ \E j \in Jobs : DashboardError(m, j)
    BY <1>2, <1>4
    DEF AskRaises, CleanEnds, SubmitDone, Crash, DashboardError, Turn, RetriesDone,
        RoundEnds, Dies, Silent
  <1>5. CASE Fetch(m)
    <2> DEFINE snap == [j \in Jobs |-> Read(db[j])]
               r == [Sleeping EXCEPT !.pc = "loop", !.snap = snap, !.todo = RunningJobs(snap)]
    <2>1. mgr'[m] = r /\ mgr[m].pc = "sleep" /\ Silent
      BY <1>2, <1>5 DEF Fetch, Silent
    <2> HIDE DEF snap
    <2>2. /\ r.pc = "loop" /\ r.phase = "retry" /\ r.cur = None
          /\ r.snap = snap /\ r.todo = RunningJobs(snap)
      BY DEF Sleeping
    <2> QED
      BY <2>1, <2>2 DEF RoundBegins, snap
  <1>6. CASE StartSubmit(m)
    <2> DEFINE r == [mgr[m] EXCEPT !.phase = "submit",
                               !.todo = QueuedJobs(mgr[m].snap),
                               !.count = Cardinality(RunningJobs(mgr[m].snap))]
    <2>1. mgr'[m] = r
      BY <1>2, <1>6 DEF StartSubmit
    <2>2. /\ r.pc = mgr[m].pc /\ r.phase = "submit" /\ r.cur = mgr[m].cur
          /\ r.snap = mgr[m].snap /\ r.todo = QueuedJobs(mgr[m].snap)
          /\ r.count = Cardinality(RunningJobs(mgr[m].snap))
      BY <1>1 DEF Round
    <2> HIDE DEF r
    <2> QED
      BY <1>6, <2>1, <2>2 DEF StartSubmit, RetriesDone, QueueBegins, Silent
  <1>7. CASE \/ AskCluster(m) /\ ~IsFailedOrGone(mgr[m].cur, mgr[m].snap[mgr[m].cur].submitted_to_k8s)
             \/ RetryCheck(m) /\ db[mgr[m].cur].status = "cancelled"
             \/ ObserversFail(m) \/ ReportFails(m)
    <2>1. /\ mgr'[m] = Continue(mgr[m]) /\ Silent
          /\ mgr[m].pc \in {"stalled", "retry", "retrying", "create", "report"}
          /\ mgr[m].pc \in {"create", "report"} => CallFails
      BY <1>2, <1>7
      DEF AskCluster, RetryCheck, ObserversFail, ReportFails, CallFails, StaysHere, Silent
    <2> QED
      BY <1>1, <2>1, ContinueFields DEF GoesOn, SamePhase
  <1>8. CASE CreateExists(m)
    <2>1. mgr'[m] = Continue(Counted(mgr[m])) /\ Silent
          /\ mgr[m].pc = "create" /\ kjob[mgr[m].cur].state # "none"
      BY <1>2, <1>8 DEF CreateExists, AlreadyExists, Silent
    <2> QED
      BY <1>1, <2>1, CountedFields, ContinueFields DEF GoesOn, SamePhase
  <1>9. CASE \E j \in Jobs : NotStalled(m, j)
    <2>1. PICK j \in Jobs : NotStalled(m, j)
      BY <1>9
    <2> DEFINE r == [mgr[m] EXCEPT !.todo = @ \ {j}]
    <2>2. mgr'[m] = r /\ Silent /\ mgr[m].pc = "loop"
      BY <1>2, <2>1 DEF NotStalled, Turn, Silent
    <2>3. /\ r.pc = mgr[m].pc /\ r.phase = mgr[m].phase /\ r.cur = mgr[m].cur
          /\ r.snap = mgr[m].snap /\ r.todo \subseteq mgr[m].todo /\ r.count = mgr[m].count
      BY <1>1 DEF Round
    <2> HIDE DEF r
    <2> QED
      BY <2>2, <2>3 DEF GoesOn, SamePhase
  <1>10. CASE \E j \in Jobs : Stalled(m, j) \/ SubmitPick(m, j)
    <2>1. PICK j \in Jobs : Stalled(m, j) \/ SubmitPick(m, j)
      BY <1>10
    <2>2. PICK pc \in {"stalled", "create"} :
              /\ MgrTo(m, [mgr[m] EXCEPT !.pc = pc, !.cur = j])
              /\ mgr[m].pc = "loop" /\ j \in mgr[m].todo /\ Silent
              /\ \/ pc = "stalled" /\ mgr[m].phase = "retry"
                 \/ pc = "create" /\ mgr[m].phase = "submit" /\ mgr[m].count < MaxParallel
      BY <2>1 DEF Stalled, SubmitPick, Turn, Silent
    <2> DEFINE r == [mgr[m] EXCEPT !.pc = pc, !.cur = j]
    <2>3. mgr'[m] = r
      BY <1>2, <2>2
    <2>4. /\ r.pc = pc /\ r.phase = mgr[m].phase /\ r.cur = j
          /\ r.snap = mgr[m].snap /\ r.todo = mgr[m].todo /\ r.count = mgr[m].count
      BY <1>1 DEF Round
    <2> HIDE DEF r
    <2> QED
      BY <2>2, <2>3, <2>4 DEF TakesUp, SamePhase
  <1>11. ASSUME NEW pc \in {"retry", "retrying", "create", "record", "report"},
                MgrTo(m, [mgr[m] EXCEPT !.pc = pc])
         PROVE  mgr'[m].pc = pc /\ StaysAt(m)
    <2> DEFINE r == [mgr[m] EXCEPT !.pc = pc]
    <2>1. mgr'[m] = r
      BY <1>2, <1>11
    <2>2. /\ r.pc = pc /\ r.phase = mgr[m].phase /\ r.cur = mgr[m].cur
          /\ r.snap = mgr[m].snap /\ r.todo = mgr[m].todo /\ r.count = mgr[m].count
      BY <1>1 DEF Round
    <2> HIDE DEF r
    <2> QED
      BY <2>1, <2>2 DEF StaysAt, SamePhase
  <1>12. CASE \/ AskCluster(m) /\ IsFailedOrGone(mgr[m].cur, mgr[m].snap[mgr[m].cur].submitted_to_k8s)
              \/ RetryCheck(m) /\ db[mgr[m].cur].status # "cancelled"
    BY <1>11, <1>12 DEF AskCluster, IsFailedOrGone, RetryCheck, GoesToRetry, Silent
  <1>13. CASE RetryWrite(m)
    BY <1>11, <1>13 DEF RetryWrite, Restarts
  <1>14. CASE CreateJob(m)
    BY <1>11, <1>14 DEF CreateJob, Launches
  <1>15. CASE SubmitFails(m)
    BY <1>11, <1>15 DEF SubmitFails, ReportsFailure, CallFails, StaysHere, Silent
  <1>16. CASE Report(m)
    <2>1. /\ mgr'[m] = Continue(mgr[m]) /\ mgr[m].pc = "report"
          /\ SetStatus(mgr[m].cur, "failed") /\ UNCHANGED kjob
      BY <1>2, <1>16 DEF Report
    <2> QED
      BY <1>1, <2>1, ContinueFields DEF ReportsFailure, SamePhase
  <1>17. CASE RetryExhausted(m)
    <2>1. mgr[m].cur \in Jobs
      BY <1>17 DEF RetryExhausted, IInv, RoundsOK, RoundOK
    <2> DEFINE r == [mgr[m] EXCEPT !.snap[mgr[m].cur] = NotRead]
    <2>2. NotRead \in Reading
      BY DEF NotRead, Reading
    <2>3. /\ r \in Round /\ r.cur = mgr[m].cur /\ r.phase = mgr[m].phase
          /\ r.todo = mgr[m].todo /\ r.count = mgr[m].count
          /\ r.snap = [mgr[m].snap EXCEPT ![mgr[m].cur] = NotRead]
      BY <1>1, <2>1, <2>2 DEF Round
    <2>4. mgr'[m] = Continue(r)
      BY <1>2, <1>17 DEF RetryExhausted
    <2> HIDE DEF r
    <2> QED
      BY <1>17, <2>3, <2>4, ContinueFields DEF RetryExhausted, GivesUp, SamePhase
  <1>18. CASE Record(m)
    <2>1. mgr[m].cur \in Jobs
      BY <1>18 DEF Record, IInv, RoundsOK, RoundOK
    <2>2. Read(db'[mgr[m].cur]) \in Reading
      <3>1. /\ mgr[m].snap[mgr[m].cur].k8s_attempts \in Nat
            /\ mgr[m].snap[mgr[m].cur].k8s_attempts <= RetryTimes
        BY <1>1, <1>18, <2>1 DEF Record, IInv, RoundsOK, RoundOK, Round, Reading
      <3>2. db' \in [Jobs -> Entry] /\ EntriesOK'
        BY <1>18, <2>1, <3>1, RecordedOK DEF Record
      <3> QED
        BY <2>1, <3>2, ReadType DEF EntriesOK
    <2> DEFINE r == [mgr[m] EXCEPT !.snap[mgr[m].cur] = Read(db'[mgr[m].cur])]
    <2>3. /\ r \in Round /\ r.cur = mgr[m].cur /\ r.phase = mgr[m].phase
          /\ r.todo = mgr[m].todo /\ r.count = mgr[m].count
          /\ r.snap = [mgr[m].snap EXCEPT ![mgr[m].cur] = Read(db'[mgr[m].cur])]
      BY <1>1, <2>1, <2>2 DEF Round
    <2>4. mgr'[m] = Continue(Counted(r))
      BY <1>2, <1>18 DEF Record
    <2> HIDE DEF r
    <2>5. /\ mgr'[m].pc = "loop" /\ mgr'[m].cur = None /\ mgr'[m].phase = r.phase
          /\ mgr'[m].todo = r.todo \ {r.cur} /\ mgr'[m].snap = r.snap
          /\ mgr'[m].count = IF r.phase = "submit" THEN r.count + 1 ELSE r.count
      BY <2>3, <2>4, CountedFields, ContinueFields
    <2> QED
      BY <1>18, <2>3, <2>5 DEF Record, Records, SamePhase
  <1> QED
    BY <1>4, <1>5, <1>6, <1>7, <1>8, <1>9, <1>10, <1>12, <1>13, <1>14, <1>15, <1>16,
       <1>17, <1>18
    DEF ManagerStep, ManagerWorks, ManagerFails

-----------------------------------------------------------------------------
(***************************************************************************)
(* What a reading tells, and what the manager's writes do to an entry.      *)
(***************************************************************************)
LEMMA ReadTells ==
    ASSUME NEW entry \in Entry
    PROVE  /\ Read(entry).kind \in {"active", "queued", "other"}
           /\ Read(entry).kind = "active" => HasActiveStatus(entry)
           /\ Read(entry).kind = "queued" => IsQueued(entry)
           /\ Read(entry).kind # "other" => Read(entry).k8s_attempts = entry.k8s_attempts
           /\ HasActiveStatus(entry) /\ entry.age # "expired" => Read(entry).kind = "active"
           /\ HasActiveStatus(entry) \/ IsQueued(entry) => entry.status # "absent"
           /\ ~(HasActiveStatus(entry) /\ IsQueued(entry))
  <1>1. /\ HasActiveStatus(entry) \/ IsQueued(entry) => entry.status # "absent"
        /\ ~(HasActiveStatus(entry) /\ IsQueued(entry))
    BY DEF HasActiveStatus, IsQueued
  <1>2. CASE HasActiveStatus(entry) /\ entry.age # "expired"
    BY <1>1, <1>2 DEF Read, Open
  <1>3. CASE ~HasActiveStatus(entry) /\ IsQueued(entry) /\ entry.age # "expired"
    BY <1>1, <1>3 DEF Read, Open
  <1>4. CASE entry.age = "expired" \/ (~HasActiveStatus(entry) /\ ~IsQueued(entry))
    BY <1>1, <1>4 DEF Read, Open, NotRead
  <1> QED
    BY <1>2, <1>3, <1>4

LEMMA CurIsJob ==
    ASSUME IInv, NEW m \in Managers, mgr[m].pc \notin {"sleep", "loop"}
    PROVE  mgr[m].cur \in Jobs
  BY DEF IInv, RoundsOK, RoundOK

LEMMA RestartsWrites ==
    ASSUME IInv, NEW m \in Managers, Restarts(m), NEW j \in Jobs, j = mgr[m].cur
    PROVE  /\ \A i \in Jobs \ {j} : db'[i] = db[i]
           /\ db'[j].status = "retrying" /\ db'[j].age = "recent"
           /\ db'[j].submitted_to_k8s = db[j].submitted_to_k8s
           /\ db'[j].k8s_attempts = db[j].k8s_attempts
           /\ db' \in [Jobs -> Entry]
  <1> DEFINE e == Written(db[j], "retrying")
  <1>1. db[j] \in Entry /\ "retrying" \in Notes
    BY DEF IInv, TypeOK, StatusHandlerTypeOK, Notes, ExecuteNotes
  <1>2. WrittenStatus("retrying") = "retrying" /\ "retrying" # None
    BY NoneAssumption DEF WrittenStatus, Status
  <1>3. /\ e \in Entry /\ e.status = "retrying" /\ e.age = "recent"
        /\ e.submitted_to_k8s = db[j].submitted_to_k8s
        /\ e.k8s_attempts = db[j].k8s_attempts
    BY <1>1, <1>2, WrittenType DEF Given
  <1>4. db' = [db EXCEPT ![j] = e]
    BY DEF Restarts
  <1> HIDE DEF e
  <1> QED
    BY <1>3, <1>4 DEF IInv, TypeOK, StatusHandlerTypeOK

LEMMA RecordWrites ==
    ASSUME IInv, NEW j \in Jobs, NEW n \in Nat, Set(j, SubmittedAttributes(n))
    PROVE  /\ \A i \in Jobs \ {j} : db'[i] = db[i]
           /\ db'[j].status = db[j].status /\ db'[j].age = "recent"
           /\ db'[j].submitted_to_k8s
           /\ db'[j].k8s_attempts = n + 1
  <1> DEFINE e == SetAttributes(db[j], SubmittedAttributes(n))
  <1>1. n + 1 # None /\ TRUE # None
    <2>1. n + 1 \in Nat /\ TRUE \in BOOLEAN
      OBVIOUS
    <2> QED
      BY <2>1, NoneAssumption
  <1>2. /\ e.status = db[j].status /\ e.age = "recent" /\ e.submitted_to_k8s = TRUE
        /\ e.k8s_attempts = n + 1
    BY <1>1 DEF SetAttributes, SubmittedAttributes, NoAttributes, Given
  <1>3. db' = [db EXCEPT ![j] = e]
    BY DEF Set
  <1> HIDE DEF e
  <1> QED
    BY <1>2, <1>3 DEF IInv, TypeOK, StatusHandlerTypeOK

\* ... in a round, by what the round has read.
LEMMA RecordsWrites ==
    ASSUME IInv, NEW m \in Managers, Records(m), NEW j \in Jobs, j = mgr[m].cur
    PROVE  /\ \A i \in Jobs \ {j} : db'[i] = db[i]
           /\ db'[j].status = db[j].status /\ db'[j].age = "recent"
           /\ db'[j].submitted_to_k8s
           /\ db'[j].k8s_attempts = mgr[m].snap[j].k8s_attempts + 1
           /\ db' \in [Jobs -> Entry]
  <1>1. mgr[m].snap[j].k8s_attempts \in Nat /\ mgr[m].snap[j].k8s_attempts <= RetryTimes
    BY DEF Records, IInv, RoundsOK, RoundOK, Round, Reading
  <1> QED
    BY <1>1, RecordWrites, RecordedOK DEF Records

\* A report of a failure, by a manager that gives up a job.
LEMMA FailureWrites ==
    ASSUME IInv, NEW j \in Jobs, SetStatus(j, "failed")
    PROVE  /\ \A i \in Jobs \ {j} : db'[i] = db[i]
           /\ db'[j].status = "failed" /\ db'[j].age = "recent"
           /\ db'[j].submitted_to_k8s = db[j].submitted_to_k8s
           /\ db'[j].k8s_attempts = db[j].k8s_attempts
           /\ db' \in [Jobs -> Entry]
  <1>1. "failed" \in Status
    BY DEF Status
  <1> QED
    BY <1>1, SetStatusOK DEF IInv, TypeOK

(***************************************************************************)
(* Every step but those of the managers is about one job, and leaves the    *)
(* rounds alone.                                                            *)
(***************************************************************************)
JobStep(j) == PodsStep(j) \/ RequestStep(j) \/ SubmitStep(j) \/ AgeStep(j) \/ ExpiryStep(j)

LEMMA RunRests ==
    ASSUME IInv, NEW j \in Jobs, NEW pc \in {"idle", "raised"},
           run' = [run EXCEPT ![j] = Resting(pc)]
    PROVE  run'[j].pc = pc /\ \A i \in Jobs \ {j} : run'[i] = run[i]
  BY RestsOK

LEMMA KJobChange ==
    ASSUME IInv, NEW j \in Jobs, PodFailure(j) \/ PodDone(j) \/ Removed(j)
    PROVE  /\ \A i \in Jobs \ {j} : kjob'[i] = kjob[i]
           /\ kjob'[j].launches = kjob[j].launches
           /\ PodFailure(j) \/ PodDone(j) => kjob'[j].state # "none"
           /\ Removed(j) => kjob'[j].state = "none"
  <1>1. kjob \in [Jobs -> KJob]
    BY DEF IInv, TypeOK, KubernetesTypeOK
  <1>2. ASSUME PodFailure(j)
        PROVE  /\ \A i \in Jobs \ {j} : kjob'[i] = kjob[i]
               /\ kjob'[j].launches = kjob[j].launches /\ kjob'[j].state # "none"
    <2> DEFINE st == IF kjob[j].failures < RetryTimes THEN "active" ELSE "failed"
               k == [kjob[j] EXCEPT !.failures = kjob[j].failures + 1, !.state = st]
    <2>1. k.launches = kjob[j].launches /\ k.state # "none"
      BY <1>1 DEF KJob
    <2>2. kjob' = [kjob EXCEPT ![j] = k]
      BY <1>2 DEF PodFailure
    <2> HIDE DEF k
    <2> QED
      BY <1>1, <2>1, <2>2
  <1>3. ASSUME PodDone(j)
        PROVE  /\ \A i \in Jobs \ {j} : kjob'[i] = kjob[i]
               /\ kjob'[j].launches = kjob[j].launches /\ kjob'[j].state # "none"
    <2> DEFINE k == [kjob[j] EXCEPT !.state = "complete"]
    <2>1. k.launches = kjob[j].launches /\ k.state # "none"
      BY <1>1 DEF KJob
    <2>2. kjob' = [kjob EXCEPT ![j] = k]
      BY <1>3 DEF PodDone
    <2> HIDE DEF k
    <2> QED
      BY <1>1, <2>1, <2>2
  <1>4. ASSUME Removed(j)
        PROVE  /\ \A i \in Jobs \ {j} : kjob'[i] = kjob[i]
               /\ kjob'[j].launches = kjob[j].launches /\ kjob'[j].state = "none"
    <2> DEFINE k == [kjob[j] EXCEPT !.state = "none", !.failures = 0]
    <2>1. k.launches = kjob[j].launches /\ k.state = "none"
      BY <1>1 DEF KJob
    <2>2. kjob' = [kjob EXCEPT ![j] = k]
      BY <1>4 DEF Removed
    <2> HIDE DEF k
    <2> QED
      BY <1>1, <2>1, <2>2
  <1> QED
    BY <1>2, <1>3, <1>4

LEMMA CreateChange ==
    ASSUME IInv, NEW j \in Jobs, Create(j)
    PROVE  /\ \A i \in Jobs \ {j} : kjob'[i] = kjob[i]
           /\ kjob[j].state = "none" /\ kjob'[j].state = "active"
           /\ kjob'[j].launches <= kjob[j].launches + 1
  <1>1. kjob \in [Jobs -> KJob] /\ kjob[j].launches \in Nat
    BY MaxLaunchesAssumption DEF IInv, TypeOK, KubernetesTypeOK, KJob
  <1> DEFINE k == [state |-> "active", failures |-> 0,
                   launches |-> LaunchCount(kjob[j].launches)]
  <1>2. k.state = "active" /\ k.launches <= kjob[j].launches + 1
    BY <1>1, MaxLaunchesAssumption DEF LaunchCount
  <1>3. kjob' = [kjob EXCEPT ![j] = k]
    BY DEF Create
  <1> HIDE DEF k
  <1> QED
    BY <1>1, <1>2, <1>3 DEF Create

\* A manager leaves all jobs alone but the one it is at.
LEMMA OneJobAtATime ==
    ASSUME IInv, NEW m \in Managers, ManagerStep(m), NEW j \in Jobs, j = mgr[m].cur
    PROVE  \A i \in Jobs \ {j} : db'[i] = db[i] /\ kjob'[i] = kjob[i]
  <1>1. CASE Silent
    BY <1>1 DEF Silent
  <1>2. CASE Restarts(m)
    BY <1>2, RestartsWrites DEF Restarts
  <1>3. CASE Launches(m)
    BY <1>3, CreateChange DEF Launches
  <1>4. CASE GivesUp(m) \/ ReportsFailure(m)
    BY <1>4, FailureWrites DEF Silent, GivesUp, ReportsFailure
  <1>5. CASE Records(m)
    BY <1>5, RecordsWrites DEF Records
  <1> QED
    BY <1>1, <1>2, <1>3, <1>4, <1>5, ManagerEffect
    DEF RoundEnds, RoundBegins, QueueBegins, GoesOn, TakesUp, GoesToRetry

LEMMA PodsStepOthers ==
    ASSUME IInv, NEW j \in Jobs, PodsStep(j)
    PROVE  /\ \A i \in Jobs \ {j} : db'[i] = db[i] /\ run'[i] = run[i] /\ kjob'[i] = kjob[i]
           /\ Exists(j) => Exists(j)'
           /\ db'[j].submitted_to_k8s = db[j].submitted_to_k8s
           /\ db'[j].k8s_attempts = db[j].k8s_attempts
           /\ db'[j].age \in {db[j].age, "recent"}
           /\ kjob'[j].launches = kjob[j].launches
           /\ \/ kjob'[j].state = "none" /\ db' = db /\ run' = run
              \/ kjob[j].state = "active" /\ kjob'[j].state # "none"
           /\ UNCHANGED <<mgr, crashes, api>>
  <1>1. UNCHANGED <<mgr, crashes, api>>
    BY DEF PodsStep
  <1>2. run[j].pc # "idle" => kjob[j].state = "active"
    BY DEF IInv, ClusterOK
  <1>3. CASE PodStart(j) \/ PodSetupFails(j)
    <2>1. \A i \in Jobs \ {j} : run'[i] = run[i]
      BY <1>3, StartRunOK, RunRests DEF PodStart, PodSetupFails, IInv
    <2> QED
      BY <1>1, <1>3, <2>1 DEF PodStart, PodSetupFails, PodWaiting, Exists
  <1>4. CASE PodDeclines(j) \/ PodFinished(j)
    <2>1. PodDone(j) /\ kjob[j].state = "active" /\ db' = db
      BY <1>2, <1>4 DEF PodDeclines, PodFinished, PodWaiting
    <2>2. \A i \in Jobs \ {j} : run'[i] = run[i]
      BY <2>1, RunRests DEF PodDone
    <2> QED
      BY <1>1, <2>1, <2>2, KJobChange DEF Exists
  <1>5. CASE PodReadFails(j) \/ PodKilled(j) \/ PodRaisedUnreported(j)
    <2>1. PodFailure(j) /\ kjob[j].state = "active" /\ db' = db
      BY <1>2, <1>5 DEF PodReadFails, PodKilled, PodRaisedUnreported, PodWaiting
    <2>2. \A i \in Jobs \ {j} : run'[i] = run[i]
      BY <1>5, RunRests DEF PodReadFails, PodKilled, PodRaisedUnreported
    <2> QED
      BY <1>1, <2>1, <2>2, KJobChange DEF Exists
  <1>6. CASE PodRaised(j)
    <2>1. PodFailure(j) /\ kjob[j].state = "active" /\ SetStatus(j, "failed")
      BY <1>2, <1>6 DEF PodRaised
    <2>2. \A i \in Jobs \ {j} : run'[i] = run[i]
      BY <1>6, RunRests DEF PodRaised
    <2> QED
      BY <1>1, <2>1, <2>2, KJobChange, FailureWrites DEF Exists
  <1>7. CASE Removed(j)
    BY <1>1, <1>7, KJobChange DEF Removed, Exists
  <1>8. CASE JobRunStep(j) /\ UNCHANGED <<kjob, kills>>
    <2>1. kjob[j].state = "active"
      BY <1>2, <1>8, JobRunStepOK DEF IInv, TypeOK, Busy
    <2> QED
      BY <1>1, <1>8, <2>1, JobRunStepOK DEF IInv, TypeOK
  <1> QED
    BY <1>3, <1>4, <1>5, <1>6, <1>7, <1>8 DEF PodsStep, ClusterStep, PodStep

-----------------------------------------------------------------------------
(***************************************************************************)
(* Everybody knows only jobs that exist: a round those it has read as       *)
(* active, or as queued, according to its phase; a request the job it has   *)
(* created; the cluster those it was asked to run.                          *)
(***************************************************************************)
Handled(phase) == IF phase = "retry" THEN "active" ELSE "queued"

KnownRound(m) ==
    /\ \A j \in Jobs : mgr[m].snap[j].kind # "other" => Exists(j)
    /\ \A j \in mgr[m].todo : mgr[m].snap[j].kind = Handled(mgr[m].phase)
    /\ mgr[m].pc \notin {"sleep", "loop"} =>
          mgr[m].snap[mgr[m].cur].kind = Handled(mgr[m].phase)
    /\ mgr[m].pc \in {"stalled", "retry", "retrying"} => mgr[m].phase = "retry"
    /\ mgr[m].pc \in {"sleep", "loop"} => mgr[m].cur = None

KnownJobs ==
    \A j \in Jobs : /\ api.job = j => Exists(j)
                    /\ kjob[j].state # "none" => Exists(j)
                    /\ ~Exists(j) => ~db[j].submitted_to_k8s

Known == KnownJobs /\ \A m \in Managers : KnownRound(m)

\* A round that did not move knows what it knew.
LEMMA KnownStays ==
    ASSUME NEW m \in Managers, KnownRound(m), mgr'[m] = mgr[m],
           \A j \in Jobs : Exists(j) => Exists(j)'
    PROVE  KnownRound(m)'
  BY DEF KnownRound

LEMMA RoundFields ==
    ASSUME IInv, NEW m \in Managers
    PROVE  /\ mgr[m].snap \in [Jobs -> Reading] /\ mgr[m].todo \subseteq Jobs
           /\ mgr[m].count \in Nat /\ mgr[m].phase \in {"retry", "submit"}
           /\ mgr[m] \in Round
  BY DEF IInv, TypeOK, ManagerTypeOK, Round

LEMMA ManagerKnown ==
    ASSUME IInv, Known, NEW m \in Managers, ManagerStep(m)
    PROVE  Known'
  <1>1. KnownRound(m) /\ IInv' /\ db \in [Jobs -> Entry]
    BY ManagerStepOK DEF Known, IInv, TypeOK, StatusHandlerTypeOK
  <1>2. mgr[m].snap \in [Jobs -> Reading] /\ mgr[m].todo \subseteq Jobs
    BY RoundFields
  <1>3. ASSUME \A j \in Jobs : /\ Exists(j) => Exists(j)'
                               /\ kjob'[j].state # "none" => Exists(j)
                               /\ ~Exists(j) => db'[j] = db[j],
               KnownRound(m)', api' = api
        PROVE  Known'
    <2>1. \A n \in Managers \ {m} : mgr'[n] = mgr[n]
      BY ManagerEffect
    <2>2. \A n \in Managers : KnownRound(n)'
      BY <1>3, <2>1, KnownStays DEF Known
    <2>3. KnownJobs'
      BY <1>3 DEF Known, KnownJobs, Exists
    <2> QED
      BY <2>2, <2>3 DEF Known
  <1>4. UNCHANGED api
    BY ManagerEffect
  <1>5. ASSUME Silent
        PROVE  \A j \in Jobs : /\ Exists(j) => Exists(j)'
                               /\ kjob'[j].state # "none" => Exists(j)
                               /\ ~Exists(j) => db'[j] = db[j]
    BY <1>5 DEF Silent, Exists, Known, KnownJobs
  <1>6. CASE RoundEnds(m)
    <2>1. KnownRound(m)'
      BY <1>6 DEF RoundEnds, KnownRound, Sleeping, NotRead
    <2> QED
      BY <1>3, <1>4, <1>5, <1>6, <2>1 DEF RoundEnds
  <1>7. CASE RoundBegins(m)
    <2>1. \A j \in Jobs : Read(db[j]).kind # "other" => Exists(j)
      BY <1>1, ReadTells DEF Exists
    <2>2. KnownRound(m)'
      BY <1>7, <2>1 DEF RoundBegins, Silent, KnownRound, RunningJobs, Handled, Exists
    <2> QED
      BY <1>3, <1>4, <1>5, <1>7, <2>2 DEF RoundBegins
  <1>8. CASE QueueBegins(m) \/ GoesOn(m) \/ TakesUp(m) \/ GoesToRetry(m)
    <2>1. Silent
      BY <1>8 DEF QueueBegins, GoesOn, TakesUp, GoesToRetry
    <2>2. KnownRound(m)'
      BY <1>1, <1>8
      DEF QueueBegins, GoesOn, TakesUp, GoesToRetry, StaysAt, SamePhase, Silent, KnownRound,
          QueuedJobs, Handled, Exists
    <2> QED
      BY <1>3, <1>4, <1>5, <2>1, <2>2
  <1>9. CASE Restarts(m) \/ GivesUp(m) \/ Launches(m) \/ Records(m) \/ ReportsFailure(m)
    <2>1. mgr[m].pc \notin {"sleep", "loop"}
      BY <1>9 DEF Restarts, GivesUp, Launches, Records, ReportsFailure
    <2>2. PICK j \in Jobs : j = mgr[m].cur
      BY <2>1, CurIsJob
    <2>3. mgr[m].snap[j].kind = Handled(mgr[m].phase) /\ Exists(j)
      BY <1>1, <2>1, <2>2 DEF KnownRound, Handled
    <2>4. /\ \A i \in Jobs : Exists(i) => Exists(i)'
          /\ \A i \in Jobs \ {j} : db'[i] = db[i] /\ kjob'[i] = kjob[i]
      <3>1. \A i \in Jobs \ {j} : db'[i] = db[i] /\ kjob'[i] = kjob[i]
        BY <2>2, OneJobAtATime
      <3>2. Exists(j)'
        BY <1>9, <2>2, <2>3, RestartsWrites, FailureWrites, RecordsWrites
        DEF Exists, Restarts, GivesUp, Launches, Records, ReportsFailure, Silent
      <3> QED
        BY <3>1, <3>2 DEF Exists
    <2>5. KnownRound(m)'
      <3>1. CASE Restarts(m) \/ Launches(m) \/ ReportsFailure(m)
        BY <1>1, <2>4, <3>1
        DEF Restarts, Launches, ReportsFailure, StaysAt, SamePhase, KnownRound
      <3>2. CASE GivesUp(m) \/ Records(m)
        <4> DEFINE x == IF mgr[m].pc = "retry" THEN NotRead ELSE Read(db'[j])
        <4>1. /\ mgr'[m].pc = "loop" /\ SamePhase(m) /\ j \notin mgr'[m].todo
              /\ mgr'[m].cur = None /\ mgr'[m].snap = [mgr[m].snap EXCEPT ![j] = x]
          BY <2>2, <3>2 DEF GivesUp, Records
        <4>2. x.kind # "other" => Exists(j)'
          <5>1. db'[j] \in Entry
            BY <1>1 DEF IInv, TypeOK, StatusHandlerTypeOK
          <5> QED
            BY <2>3, <2>4, <5>1, ReadTells DEF NotRead
        <4> HIDE DEF x
        <4>3. mgr'[m].snap[j] = x /\ \A i \in Jobs \ {j} : mgr'[m].snap[i] = mgr[m].snap[i]
          BY <1>2, <4>1
        <4>4. \A i \in Jobs : mgr'[m].snap[i].kind # "other" => Exists(i)'
          BY <1>1, <2>4, <4>2, <4>3 DEF KnownRound
        <4>5. \A i \in mgr'[m].todo : mgr'[m].snap[i].kind = Handled(mgr'[m].phase)
          BY <1>1, <1>2, <4>1, <4>3 DEF KnownRound, SamePhase
        <4> QED
          BY <4>1, <4>4, <4>5 DEF KnownRound
      <3> QED
        BY <1>9, <3>1, <3>2
    <2> QED
      BY <1>3, <1>4, <2>3, <2>4, <2>5 DEF Known, KnownJobs
  <1> QED
    BY <1>6, <1>7, <1>8, <1>9, ManagerEffect

(***************************************************************************)
(* What the server's steps do to the entry of the job they are about.       *)
(***************************************************************************)
LEMMA SubmitStepOthers ==
    ASSUME IInv, NEW j \in Jobs, SubmitStep(j)
    PROVE  /\ \A i \in Jobs \ {j} : db'[i] = db[i] /\ kjob'[i] = kjob[i]
           /\ Exists(j) => Exists(j)'
           /\ db[j].submitted_to_k8s => db'[j].submitted_to_k8s
           /\ db'[j].age \in {db[j].age, "recent"}
           /\ api.job = j /\ api.pc \in {"submit", "record"}
           /\ \/ /\ NotifyPending(j) /\ kjob' = kjob
                 /\ db'[j].status = "pending"
                 /\ db'[j].submitted_to_k8s = db[j].submitted_to_k8s
                 /\ db'[j].k8s_attempts = db[j].k8s_attempts
              \/ ApiCreate(j) /\ db' = db
              \/ ApiCreateExists(j) /\ db' = db /\ kjob' = kjob
              \/ /\ ApiRecord(j) /\ kjob' = kjob
                 /\ db'[j].status = db[j].status /\ db'[j].submitted_to_k8s
              \/ /\ ApiSubmitFails(j) /\ kjob' = kjob /\ Fault
                 /\ db'[j].submitted_to_k8s = db[j].submitted_to_k8s
           /\ api' = NoRequest \/ (ApiCreate(j) /\ api'.pc = "record" /\ api'.job = j)
           /\ UNCHANGED <<run, mgr, crashes>>
  <1>1. CASE NotifyPending(j)
    <2>1. SetStatus(j, "pending") /\ "pending" \in Status
      BY <1>1 DEF NotifyPending, Status
    <2> QED
      BY <1>1, <2>1, SetStatusOK DEF NotifyPending, Handling, Exists, IInv, TypeOK
  <1>2. CASE ApiCreate(j)
    <2>1. api' = [pc |-> "record", job |-> j]
      BY <1>2 DEF ApiCreate, Handling
    <2> QED
      BY <1>2, <2>1, CreateChange DEF ApiCreate, Handling, Exists
  <1>3. CASE ApiCreateExists(j)
    BY <1>3 DEF ApiCreateExists, Handling, Exists
  <1>4. CASE ApiRecord(j)
    <2>1. NewEntry.k8s_attempts \in Nat
      BY DEF NewEntry, AbsentEntry
    <2> QED
      BY <1>4, <2>1, RecordWrites DEF ApiRecord, Handling, Exists
  <1>5. CASE ApiSubmitFails(j)
    <2>1. SetStatus(j, "failed") \/ UNCHANGED db
      BY <1>5 DEF ApiSubmitFails
    <2> QED
      BY <1>5, <2>1, FailureWrites DEF ApiSubmitFails, Handling, Exists
  <1> QED
    BY <1>1, <1>2, <1>3, <1>4, <1>5 DEF SubmitStep

LEMMA AgeStepOthers ==
    ASSUME IInv, NEW j \in Jobs, AgeStep(j) \/ ExpiryStep(j)
    PROVE  /\ \A i \in Jobs \ {j} : db'[i] = db[i]
           /\ db'[j].status = db[j].status
           /\ db'[j].submitted_to_k8s = db[j].submitted_to_k8s
           /\ db'[j].k8s_attempts = db[j].k8s_attempts
           /\ db'[j].age = "expired" => Expiring
           /\ UNCHANGED <<faults, run, kjob, kills, mgr, crashes, api>>
  <1> DEFINE e(age) == [db[j] EXCEPT !.age = age]
  <1>1. PICK age \in Ages : db' = [db EXCEPT ![j] = e(age)] /\ (age = "expired" => Expiring)
    BY DEF AgeStep, TimePasses, ExpiryStep, Expires, Ages
  <1>2. /\ e(age).status = db[j].status /\ e(age).age = age
        /\ e(age).submitted_to_k8s = db[j].submitted_to_k8s
        /\ e(age).k8s_attempts = db[j].k8s_attempts
    BY DEF IInv, TypeOK, StatusHandlerTypeOK, Entry
  <1>3. UNCHANGED <<faults, run, kjob, kills, mgr, crashes, api>>
    BY DEF AgeStep, TimePasses, ExpiryStep, Expires
  <1> HIDE DEF e
  <1> QED
    BY <1>1, <1>2, <1>3 DEF IInv, TypeOK, StatusHandlerTypeOK

LEMMA JobStepKnown ==
    ASSUME IInv, Known, NEW j \in Jobs, JobStep(j)
    PROVE  Known'
  <1>1. ASSUME mgr' = mgr, \A i \in Jobs : Exists(i) => Exists(i)', KnownJobs'
        PROVE  Known'
    BY <1>1, KnownStays DEF Known
  <1>2. CASE PodsStep(j)
    <2>1. kjob'[j].state # "none" => kjob[j].state # "none"
      BY <1>2, PodsStepOthers
    <2>2. KnownJobs'
      BY <1>2, <2>1, PodsStepOthers DEF Known, KnownJobs, Exists
    <2> QED
      BY <1>1, <1>2, <2>2, PodsStepOthers DEF Exists
  <1>3. CASE RequestStep(j)
    <2>1. /\ \A i \in Jobs \ {j} : db'[i] = db[i]
          /\ Exists(j) => Exists(j)'
          /\ db'[j] = db[j] \/ ~db'[j].submitted_to_k8s \/ Exists(j)'
      BY <1>3, ApiStepOK DEF RequestStep, Exists, IInv, TypeOK
    <2>2. api'.job = j => Exists(j)'
      <3>1. CASE PostNew(j)
        BY <3>1, NewOK DEF PostNew, Exists, NewEntry, AbsentEntry, IInv, TypeOK
      <3>2. CASE CancelRead(j)
        BY <3>2 DEF CancelRead, Cancellable, Exists
      <3>3. CASE CancelWrite(j) \/ CancelFails(j)
        BY <3>3, NoneIsNoJob DEF CancelWrite, CancelFails, NoRequest
      <3> QED
        BY <1>3, <3>1, <3>2, <3>3 DEF RequestStep, ApiStep
    <2>3. api'.job \in {j, None, api.job}
      BY <1>3 DEF RequestStep, ApiStep, PostNew, CancelRead, CancelWrite, CancelFails, NoRequest
    <2>4. UNCHANGED <<mgr, kjob>>
      BY <1>3 DEF RequestStep
    <2>5. ~Exists(j)' => ~db'[j].submitted_to_k8s
      BY <2>1 DEF Known, KnownJobs, Exists
    <2>6. KnownJobs'
      BY <2>1, <2>2, <2>3, <2>4, <2>5, NoneIsNoJob DEF Known, KnownJobs, Exists
    <2> QED
      BY <1>1, <2>1, <2>4, <2>6 DEF Exists
  <1>4. CASE SubmitStep(j)
    <2>1. Exists(j)
      BY <1>4, SubmitStepOthers DEF Known, KnownJobs
    <2>2. api'.job \in {j, None}
      BY <1>4, SubmitStepOthers DEF NoRequest
    <2>3. KnownJobs'
      BY <1>4, <2>1, <2>2, NoneIsNoJob, SubmitStepOthers DEF Known, KnownJobs, Exists
    <2> QED
      BY <1>1, <1>4, <2>3, SubmitStepOthers DEF Exists
  <1>5. CASE AgeStep(j) \/ ExpiryStep(j)
    <2>1. KnownJobs'
      BY <1>5, AgeStepOthers DEF Known, KnownJobs, Exists
    <2> QED
      BY <1>1, <1>5, <2>1, AgeStepOthers DEF Exists
  <1> QED
    BY <1>2, <1>3, <1>4, <1>5 DEF JobStep

LEMMA InitKnown == Init => Known
  <1> SUFFICES ASSUME Init PROVE Known
    OBVIOUS
  <1>1. \A m \in Managers : KnownRound(m)
    BY DEF Init, ManagerInit, Sleeping, NotRead, KnownRound
  <1>2. ~AbsentEntry.submitted_to_k8s /\ NewEntry.status # "absent"
    BY DEF NewEntry, AbsentEntry
  <1>3. KnownJobs
    BY <1>2, NoneIsNoJob
    DEF Init, KubernetesInit, NoKJob, ApiInit, NoRequest, KnownJobs, Exists
  <1> QED
    BY <1>1, <1>3 DEF Known

LEMMA NextKnown == IInv /\ Known /\ [Next]_vars => Known'
  <1> SUFFICES ASSUME IInv, Known, [Next]_vars PROVE Known'
    OBVIOUS
  <1>1. CASE ApiCrash \/ UNCHANGED vars
    <2>1. UNCHANGED <<db, kjob, mgr>> /\ api' \in {api, NoRequest}
      BY <1>1 DEF ApiCrash, vars
    <2> QED
      BY <2>1, NoneIsNoJob, KnownStays DEF Known, KnownJobs, NoRequest, Exists
  <1> QED
    BY <1>1, ManagerKnown, JobStepKnown DEF Next, JobStep

LEMMA KnownInvariance == Spec => [](IInv /\ Known)
  <1>1. Init => IInv /\ Known
    BY InitOK, InitKnown
  <1>2. IInv /\ Known /\ [Next]_vars => (IInv /\ Known)'
    BY NextOK, NextKnown
  <1> QED
    BY <1>1, <1>2, PTL DEF Spec

-----------------------------------------------------------------------------
(***************************************************************************)
(* A job is tracked as long as its Kubernetes job is recorded, or about to  *)
(* be, and the manager will notice once it is gone.  A call that fails or a *)
(* process that dies loses track of one job at most, the one it was at;     *)
(* nothing else loses track of any.                                         *)
(***************************************************************************)
RecordedBy(m, j) == mgr[m].pc = "record" /\ mgr[m].cur = j

BeingRecorded(j) == (\E m \in Managers : RecordedBy(m, j)) \/ Handling("record", j)

Tracked(j) ==
    /\ kjob[j].state # "none" => db[j].submitted_to_k8s \/ BeingRecorded(j)
    /\ HasActiveStatus(db[j]) /\ kjob[j].state = "none" =>
          db[j].submitted_to_k8s \/ Submitting(j)

Untracked == {j \in Jobs : ~Tracked(j)}

\* n: jobs out of track; f, c: failures and crashes that are left.
Within(n, f, c) == n + f + c <= MaxFaults + MaxCrashes

ITracked ==
    /\ IInv /\ Known
    /\ IsFiniteSet(Untracked)
    /\ Within(Cardinality(Untracked), faults, crashes)

\* What a step may do: lose track of no job, or of one where something fails.
KeepsTrack == \A i \in Jobs : Tracked(i) => Tracked(i)'

LosesLittle ==
    \/ KeepsTrack
    \/ /\ CallFails \/ Dies
       /\ \E j \in Jobs : \A i \in Jobs \ {j} : Tracked(i) => Tracked(i)'

\* A step leaves the track of the jobs alone that it has nothing to do with.
LEMMA OthersTracked ==
    ASSUME NEW i \in Jobs, db'[i] = db[i], kjob'[i] = kjob[i],
           BeingRecorded(i) => BeingRecorded(i)', Submitting(i) => Submitting(i)', Tracked(i)
    PROVE  Tracked(i)'
  BY DEF Tracked

LEMMA RecordingIsSubmitting ==
    ASSUME NEW j \in Jobs, BeingRecorded(j)
    PROVE  Submitting(j)
  BY DEF BeingRecorded, RecordedBy, Submitting

\* The job a manager is at, and whether it keeps track of it.
LEMMA ManagerTracks ==
    ASSUME IInv, Known, NEW m \in Managers, ManagerStep(m),
           NEW j \in Jobs, j = mgr[m].cur, mgr[m].pc \notin {"sleep", "loop"}, Tracked(j)
    PROVE  Tracked(j)' \/ CallFails \/ Dies
  <1>1. UNCHANGED api /\ \A n \in Managers \ {m} : mgr'[n] = mgr[n]
    BY ManagerEffect
  <1>2. Handling("record", j)' = Handling("record", j)
    BY <1>1 DEF Handling
  <1>3. /\ mgr[m].pc # "record" => (BeingRecorded(j) => BeingRecorded(j)')
        /\ mgr[m].pc \notin {"create", "record", "report"} => (Submitting(j) => Submitting(j)')
    BY <1>1, <1>2 DEF BeingRecorded, RecordedBy, Submitting
  <1>4. ASSUME Silent, mgr[m].pc \notin {"create", "record", "report"} PROVE Tracked(j)'
    BY <1>3, <1>4, OthersTracked DEF Silent
  <1>5. CASE RoundEnds(m)
    BY <1>4, <1>5 DEF RoundEnds
  <1>6. CASE GoesOn(m) \/ GoesToRetry(m)
    <2>1. CASE mgr[m].pc \notin {"create", "report"}
      BY <1>4, <1>6, <2>1 DEF GoesOn, GoesToRetry
    <2>2. CASE mgr[m].pc = "create"
      <3>1. (kjob[j].state # "none" /\ Silent) \/ CallFails
        BY <1>6, <2>2 DEF GoesOn, GoesToRetry
      <3> QED
        BY <1>3, <2>2, <3>1 DEF Silent, Tracked
    <2>3. CASE mgr[m].pc = "report"
      BY <1>6, <2>3 DEF GoesOn, GoesToRetry
    <2> QED
      BY <2>1, <2>2, <2>3
  <1>7. CASE Restarts(m)
    <2>1. /\ Submitting(j)' /\ kjob' = kjob /\ mgr[m].pc # "record"
          /\ db'[j].submitted_to_k8s = db[j].submitted_to_k8s
      BY <1>7, RestartsWrites DEF Restarts, StaysAt, Submitting
    <2> QED
      BY <1>3, <2>1 DEF Tracked
  <1>8. CASE GivesUp(m) \/ (ReportsFailure(m) /\ mgr[m].pc = "report")
    <2>1. /\ SetStatus(j, "failed") /\ kjob' = kjob /\ mgr[m].pc # "record"
      BY <1>8 DEF GivesUp, ReportsFailure
    <2>2. /\ ~HasActiveStatus(db'[j])
          /\ db'[j].submitted_to_k8s = db[j].submitted_to_k8s
      BY <2>1, FailureWrites DEF HasActiveStatus
    <2> QED
      BY <1>3, <2>1, <2>2 DEF Tracked
  <1>9. CASE Launches(m)
    BY <1>9, CreateChange DEF Launches, StaysAt, Tracked, BeingRecorded, RecordedBy
  <1>10. CASE Records(m)
    BY <1>10, RecordsWrites DEF Tracked
  <1>11. CASE ReportsFailure(m) /\ mgr[m].pc # "report"
    BY <1>11 DEF ReportsFailure
  <1> QED
    BY <1>5, <1>6, <1>7, <1>8, <1>9, <1>10, <1>11, ManagerEffect
    DEF RoundBegins, QueueBegins, TakesUp

LEMMA ManagerLoses ==
    ASSUME IInv, Known, NEW m \in Managers, ManagerStep(m)
    PROVE  LosesLittle
  <1>1. UNCHANGED api /\ \A n \in Managers \ {m} : mgr'[n] = mgr[n]
    BY ManagerEffect
  <1>2. \A i \in Jobs : Handling("record", i)' = Handling("record", i)
    BY <1>1 DEF Handling
  <1>3. ASSUME NEW i \in Jobs, i # mgr[m].cur
        PROVE  /\ BeingRecorded(i) => BeingRecorded(i)'
               /\ Submitting(i) => Submitting(i)'
    BY <1>1, <1>2, <1>3 DEF BeingRecorded, RecordedBy, Submitting
  <1>4. CASE mgr[m].pc \in {"sleep", "loop"}
    <2>1. Silent
      BY <1>4, ManagerEffect
      DEF RoundEnds, RoundBegins, QueueBegins, GoesOn, TakesUp, GoesToRetry, Restarts, GivesUp,
          Launches, Records, ReportsFailure
    <2>2. mgr[m].cur = None
      BY <1>4 DEF Known, KnownRound
    <2>3. KeepsTrack
      BY <1>3, <2>1, <2>2, NoneIsNoJob, OthersTracked DEF KeepsTrack, Silent
    <2> QED
      BY <2>3 DEF LosesLittle
  <1>5. CASE mgr[m].pc \notin {"sleep", "loop"}
    <2>1. PICK j \in Jobs : j = mgr[m].cur
      BY <1>5, CurIsJob
    <2>2. \A i \in Jobs \ {j} : db'[i] = db[i] /\ kjob'[i] = kjob[i]
      BY <2>1, OneJobAtATime
    <2>3. \A i \in Jobs \ {j} : Tracked(i) => Tracked(i)'
      BY <1>3, <2>1, <2>2, OthersTracked
    <2>4. Tracked(j) => Tracked(j)' \/ CallFails \/ Dies
      BY <1>5, <2>1, ManagerTracks
    <2> QED
      BY <2>3, <2>4 DEF LosesLittle, KeepsTrack
  <1> QED
    BY <1>4, <1>5

\* What the cluster and the server do to the job a step is about.
LEMMA PodsStepTracks ==
    ASSUME IInv, NEW j \in Jobs, PodsStep(j)
    PROVE  KeepsTrack
  <1>1. \A i \in Jobs : BeingRecorded(i)' = BeingRecorded(i) /\ Submitting(i)' = Submitting(i)
    BY PodsStepOthers DEF BeingRecorded, RecordedBy, Submitting, Handling
  <1>2. Tracked(j) => Tracked(j)'
    BY <1>1, PodsStepOthers, RecordingIsSubmitting DEF Tracked
  <1>3. \A i \in Jobs \ {j} : Tracked(i) => Tracked(i)'
    BY <1>1, PodsStepOthers, OthersTracked
  <1> QED
    BY <1>2, <1>3 DEF KeepsTrack

LEMMA ServerTracks ==
    ASSUME IInv, Known, NEW j \in Jobs,
           RequestStep(j) \/ SubmitStep(j) \/ AgeStep(j) \/ ExpiryStep(j), Tracked(j)
    PROVE  Tracked(j)' \/ CallFails
  <1>1. UNCHANGED mgr
    BY SubmitStepOthers, AgeStepOthers DEF RequestStep
  <1>2. ASSUME ~Handling("record", j) \/ api' = api
        PROVE  /\ BeingRecorded(j) => BeingRecorded(j)'
               /\ Submitting(j) => Submitting(j)'
    BY <1>1, <1>2 DEF BeingRecorded, RecordedBy, Submitting, Handling
  <1>3. CASE RequestStep(j)
    <2>1. ~HasActiveStatus(db'[j]) \/ db'[j] = db[j]
      BY <1>3, ApiStepOK DEF RequestStep, HasActiveStatus, IInv, TypeOK
    <2>2. ~Handling("record", j) /\ kjob' = kjob
      BY <1>3, ApiStepOK DEF RequestStep, Handling, IInv, TypeOK
    <2>3. kjob[j].state # "none" => db'[j].submitted_to_k8s = db[j].submitted_to_k8s
      BY <1>3, ApiStepOK DEF RequestStep, Known, KnownJobs, IInv, TypeOK
    <2> QED
      BY <1>2, <2>1, <2>2, <2>3 DEF Tracked
  <1>4. CASE NotifyPending(j)
    <2>1. ~Handling("record", j) /\ kjob' = kjob /\ SetStatus(j, "pending") /\ "pending" \in Status
      BY <1>4 DEF NotifyPending, Handling, Status
    <2>2. db'[j].status = "pending" /\ db'[j].submitted_to_k8s = db[j].submitted_to_k8s
      BY <2>1, SetStatusOK DEF IInv, TypeOK
    <2>3. HasActiveStatus(db'[j]) => db'[j].submitted_to_k8s
      BY <2>2 DEF HasActiveStatus
    <2> QED
      BY <1>2, <2>1, <2>2, <2>3 DEF Tracked
  <1>5. CASE ApiCreate(j)
    <2>1. api' = [pc |-> "record", job |-> j]
      BY <1>5 DEF ApiCreate, Handling
    <2> QED
      BY <2>1 DEF BeingRecorded, Submitting, Handling, Tracked
  <1>6. CASE ApiCreateExists(j)
    <2>1. UNCHANGED <<db, kjob>> /\ ~Handling("record", j)
      BY <1>6 DEF ApiCreateExists, Handling
    <2> QED
      BY <1>2, <2>1 DEF Tracked
  <1>7. CASE ApiRecord(j)
    <2>1. NewEntry.k8s_attempts \in Nat
      BY DEF NewEntry, AbsentEntry
    <2> QED
      BY <1>7, <2>1, RecordWrites DEF ApiRecord, Tracked
  <1>8. CASE ApiSubmitFails(j)
    BY <1>8 DEF ApiSubmitFails, CallFails
  <1>9. CASE AgeStep(j) \/ ExpiryStep(j)
    <2>1. /\ UNCHANGED <<kjob, api>> /\ HasActiveStatus(db'[j]) = HasActiveStatus(db[j])
          /\ db'[j].submitted_to_k8s = db[j].submitted_to_k8s
      BY <1>9, AgeStepOthers DEF HasActiveStatus
    <2> QED
      BY <1>2, <2>1 DEF Tracked
  <1> QED
    BY <1>3, <1>4, <1>5, <1>6, <1>7, <1>8, <1>9 DEF SubmitStep

LEMMA JobStepLoses ==
    ASSUME IInv, Known, NEW j \in Jobs, JobStep(j)
    PROVE  LosesLittle
  <1>1. CASE PodsStep(j)
    BY <1>1, PodsStepTracks DEF LosesLittle
  <1>2. CASE RequestStep(j) \/ SubmitStep(j) \/ AgeStep(j) \/ ExpiryStep(j)
    <2>1. UNCHANGED mgr /\ \A i \in Jobs \ {j} : db'[i] = db[i] /\ kjob'[i] = kjob[i]
      BY <1>2, ApiStepOK, SubmitStepOthers, AgeStepOthers DEF RequestStep, IInv, TypeOK
    <2>2. \A i \in Jobs : api' # api /\ api.pc = "record" => ~Handling("record", i) \/ i = j
      BY <1>2, ApiStepOK, SubmitStepOthers, AgeStepOthers DEF RequestStep, Handling, IInv, TypeOK
    <2>3. \A i \in Jobs \ {j} : /\ BeingRecorded(i) => BeingRecorded(i)'
                                /\ Submitting(i) => Submitting(i)'
      BY <2>1, <2>2 DEF BeingRecorded, RecordedBy, Submitting, Handling
    <2>4. \A i \in Jobs \ {j} : Tracked(i) => Tracked(i)'
      BY <2>1, <2>3, OthersTracked
    <2>5. Tracked(j) => Tracked(j)' \/ CallFails
      BY <1>2, ServerTracks
    <2> QED
      BY <2>4, <2>5 DEF LosesLittle, KeepsTrack
  <1> QED
    BY <1>1, <1>2 DEF JobStep

LEMMA ApiCrashLoses ==
    ASSUME IInv, ApiCrash
    PROVE  LosesLittle
  <1>1. UNCHANGED <<db, kjob, mgr>> /\ Dies
    BY DEF ApiCrash, Dies
  <1>2. \A i \in Jobs : api.job # i => /\ BeingRecorded(i) => BeingRecorded(i)'
                                       /\ Submitting(i) => Submitting(i)'
    BY <1>1 DEF BeingRecorded, RecordedBy, Submitting, Handling
  <1>3. \A i \in Jobs : api.job # i => (Tracked(i) => Tracked(i)')
    BY <1>1, <1>2, OthersTracked
  <1>4. CASE api.job \in Jobs
    BY <1>1, <1>3, <1>4 DEF LosesLittle
  <1>5. CASE api.job \notin Jobs
    BY <1>3, <1>5 DEF LosesLittle, KeepsTrack
  <1> QED
    BY <1>4, <1>5

\* Failures and crashes are counted, and nothing else touches the counters.
LEMMA NothingElseFails == [Next]_vars => CallFails \/ Dies \/ UNCHANGED <<faults, crashes>>
  <1> SUFFICES ASSUME [Next]_vars PROVE CallFails \/ Dies \/ UNCHANGED <<faults, crashes>>
    OBVIOUS
  <1>1. ASSUME NEW m \in Managers, ManagerStep(m)
        PROVE  CallFails \/ Dies \/ UNCHANGED <<faults, crashes>>
    <2>1. CASE ManagerFails(m)
      BY <2>1
      DEF ManagerFails, ObserversFail, SubmitFails, ReportFails, Crash, StaysHere, CallFails, Dies
    <2>2. CASE ManagerWorks(m)
      BY <2>2
      DEF ManagerWorks, StaysHere, Fetch, AskCluster, AskRaises, RetryExhausted, RetryCheck,
          RetryWrite, CreateJob, CreateExists, Record, Report, StartSubmit, CleanEnds,
          SubmitDone, NotStalled, Stalled, DashboardError, SubmitPick
    <2> QED
      BY <1>1, <2>1, <2>2 DEF ManagerStep
  <1>2. ASSUME NEW j \in Jobs, PodsStep(j) PROVE CallFails \/ UNCHANGED <<faults, crashes>>
    BY <1>2
    DEF PodsStep, ClusterStep, PodStep, PodStart, PodDeclines, PodReadFails, PodSetupFails,
        PodFinished, PodRaised, PodRaisedUnreported, PodKilled, Removed, JobRunStep, Updating,
        CheckPasses, CheckRaises, Write, Drop, NotifyFails, RateLimitElapses, CallFails
  <1>3. ASSUME NEW j \in Jobs, RequestStep(j) \/ SubmitStep(j) \/ AgeStep(j) \/ ExpiryStep(j)
        PROVE  CallFails \/ UNCHANGED <<faults, crashes>>
    BY <1>3
    DEF RequestStep, ApiStep, PostNew, CancelRead, CancelWrite, CancelFails, SubmitStep,
        NotifyPending, ApiCreate, ApiCreateExists, ApiRecord, ApiSubmitFails, AgeStep,
        TimePasses, ExpiryStep, Expires, CallFails
  <1>4. CASE ApiCrash \/ UNCHANGED vars
    BY <1>4 DEF ApiCrash, Dies, vars
  <1> QED
    BY <1>1, <1>2, <1>3, <1>4 DEF Next

LEMMA NextLoses == IInv /\ Known /\ [Next]_vars => LosesLittle
  <1> SUFFICES ASSUME IInv, Known, [Next]_vars PROVE LosesLittle
    OBVIOUS
  <1>1. CASE UNCHANGED vars
    BY <1>1
    DEF vars, LosesLittle, KeepsTrack, Tracked, BeingRecorded, RecordedBy, Submitting, Handling
  <1> QED
    BY <1>1, ManagerLoses, JobStepLoses, ApiCrashLoses DEF Next, JobStep

LEMMA InitTracked == Init => Untracked = {}
  <1> SUFFICES ASSUME Init PROVE Untracked = {}
    OBVIOUS
  <1>1. ~HasActiveStatus(AbsentEntry) /\ ~HasActiveStatus(NewEntry)
    BY DEF HasActiveStatus, NewEntry, AbsentEntry
  <1> QED
    BY <1>1 DEF Init, KubernetesInit, NoKJob, Untracked, Tracked

\* Counting a step: from n, f and c to m, g and d.
Spends(n, f, c, m, g, d) ==
    \/ m <= n /\ g = f /\ d = c
    \/ m <= n + 1 /\ g + d + 1 <= f + c

LEMMA StaysWithin ==
    ASSUME NEW n \in Nat, NEW f \in Nat, NEW c \in Nat, Within(n, f, c),
           NEW m \in Nat, NEW g \in Nat, NEW d \in Nat, Spends(n, f, c, m, g, d)
    PROVE  Within(m, g, d)
  BY MaxFaultsAssumption, MaxCrashesAssumption DEF Within, Spends

LEMMA NextTracked == ITracked /\ [Next]_vars => ITracked'
  <1> SUFFICES ASSUME ITracked, [Next]_vars PROVE ITracked'
    OBVIOUS
  <1>1. IInv /\ IInv' /\ Known' /\ LosesLittle
    BY NextOK, NextKnown, NextLoses DEF ITracked
  <1>2. /\ IsFiniteSet(Untracked) /\ Cardinality(Untracked) \in Nat
        /\ Within(Cardinality(Untracked), faults, crashes)
    BY FS_CardinalityType DEF ITracked
  <1>3. faults \in Nat /\ faults' \in Nat /\ crashes \in Nat /\ crashes' \in Nat
    BY <1>1, MaxFaultsAssumption, MaxCrashesAssumption
    DEF IInv, TypeOK, StatusHandlerTypeOK, ManagerTypeOK
  <1>4. ASSUME CallFails \/ Dies PROVE faults' + crashes' + 1 <= faults + crashes
    <2>1. CASE CallFails
      BY <1>3, <2>1 DEF CallFails, Fault
    <2>2. CASE Dies
      BY <1>3, <2>2 DEF Dies
    <2> QED
      BY <1>4, <2>1, <2>2
  <1>5. ASSUME IsFiniteSet(Untracked'), Cardinality(Untracked') \in Nat,
               Spends(Cardinality(Untracked), faults, crashes,
                      Cardinality(Untracked'), faults', crashes')
        PROVE  ITracked'
    <2>1. Within(Cardinality(Untracked'), faults', crashes')
      BY <1>2, <1>3, <1>5, StaysWithin
    <2> QED
      BY <1>1, <1>5, <2>1 DEF ITracked, Within
  <1>6. CASE (CallFails \/ Dies) /\ ~KeepsTrack
    <2>1. PICK j \in Jobs : \A i \in Jobs \ {j} : Tracked(i) => Tracked(i)'
      BY <1>1, <1>6 DEF LosesLittle
    <2>2. Untracked' \subseteq Untracked \cup {j}
      BY <2>1 DEF Untracked
    <2>3. /\ IsFiniteSet(Untracked \cup {j})
          /\ Cardinality(Untracked \cup {j}) \in {Cardinality(Untracked), Cardinality(Untracked) + 1}
      BY <1>2, FS_AddElement
    <2>4. /\ IsFiniteSet(Untracked') /\ Cardinality(Untracked') \in Nat
          /\ Cardinality(Untracked') <= Cardinality(Untracked \cup {j})
      BY <2>2, <2>3, FS_Subset, FS_CardinalityType
    <2>5. Cardinality(Untracked') <= Cardinality(Untracked) + 1
      BY <1>2, <2>3, <2>4
    <2>6. faults' + crashes' + 1 <= faults + crashes
      BY <1>4, <1>6
    <2> QED
      BY <1>5, <2>4, <2>5, <2>6 DEF Spends
  <1>7. CASE KeepsTrack
    <2>1. Untracked' \subseteq Untracked
      BY <1>7 DEF KeepsTrack, Untracked
    <2>2. /\ IsFiniteSet(Untracked') /\ Cardinality(Untracked') \in Nat
          /\ Cardinality(Untracked') <= Cardinality(Untracked)
      BY <1>2, <2>1, FS_Subset, FS_CardinalityType
    <2>3. Cardinality(Untracked') <= Cardinality(Untracked) + 1
      BY <1>2, <2>2
    <2>4. CASE CallFails \/ Dies
      BY <1>4, <1>5, <2>2, <2>3, <2>4 DEF Spends
    <2>5. CASE UNCHANGED <<faults, crashes>>
      BY <1>5, <2>2, <2>5 DEF Spends
    <2> QED
      BY <2>4, <2>5, NothingElseFails
  <1> QED
    BY <1>1, <1>6, <1>7 DEF LosesLittle

LEMMA TrackedIsNoticed ==
    ASSUME ITracked
    PROVE  UnnoticedByFailuresOnly
  <1>1. Unnoticed \subseteq Untracked
    BY DEF Unnoticed, Untracked, Tracked
  <1>2. /\ Cardinality(Unnoticed) \in Nat /\ Cardinality(Untracked) \in Nat
        /\ Cardinality(Unnoticed) <= Cardinality(Untracked)
    BY <1>1, FS_Subset, FS_CardinalityType DEF ITracked
  <1>3. faults \in Nat /\ crashes \in Nat /\ MaxFaults \in Nat /\ MaxCrashes \in Nat
    BY MaxFaultsAssumption, MaxCrashesAssumption
    DEF ITracked, IInv, TypeOK, StatusHandlerTypeOK, ManagerTypeOK
  <1> QED
    BY <1>2, <1>3, StaysWithin DEF ITracked, Within, Spends, UnnoticedByFailuresOnly

(***************************************************************************)
(* Every active job that no Kubernetes job runs, and that the manager will  *)
(* not notice, has a failed call or a crash of its own to show for it: for  *)
(* both handlers, overlapping managers, any killed pods and cancellations,  *)
(* and any number of failures.                                              *)
(***************************************************************************)
THEOREM FailuresHideAtMostOne == Spec => []UnnoticedByFailuresOnly
  <1>1. Init => ITracked
    <2> SUFFICES ASSUME Init PROVE ITracked
      OBVIOUS
    <2>1. IInv /\ Known /\ Untracked = {}
      BY InitOK, InitKnown, InitTracked
    <2>2. faults = MaxFaults /\ crashes = MaxCrashes
      BY DEF Init, ManagerInit
    <2>3. Within(0, MaxFaults, MaxCrashes)
      BY MaxFaultsAssumption, MaxCrashesAssumption DEF Within
    <2> QED
      BY <2>1, <2>2, <2>3, FS_EmptySet DEF ITracked
  <1> QED
    BY <1>1, NextTracked, TrackedIsNoticed, PTL DEF Spec

-----------------------------------------------------------------------------
(***************************************************************************)
(* Where no call fails and no process crashes, every job is tracked, and no *)
(* manager has a failure to report.                                         *)
(***************************************************************************)
Untroubled == MaxFaults = 0 /\ MaxCrashes = 0

Recorded ==
    /\ \A m \in Managers : mgr[m].pc # "report"
    /\ \A j \in Jobs : Tracked(j)

IRecorded == IInv /\ Known /\ Recorded

LEMMA NothingFails ==
    ASSUME Untroubled, IInv
    PROVE  ~Fault /\ crashes = 0 /\ ~CallFails /\ ~Dies
  BY DEF Untroubled, IInv, TypeOK, StatusHandlerTypeOK, ManagerTypeOK, Fault, CallFails, Dies

LEMMA InitRecorded == Init => Recorded
  <1> SUFFICES ASSUME Init PROVE Recorded
    OBVIOUS
  <1> QED
    BY InitTracked DEF Init, ManagerInit, Sleeping, Untracked, Recorded

LEMMA NextRecorded == Untroubled /\ IRecorded /\ [Next]_vars => IRecorded'
  <1> SUFFICES ASSUME Untroubled, IRecorded, [Next]_vars PROVE IRecorded'
    OBVIOUS
  <1> USE DEF IRecorded
  <1>1. IInv' /\ Known' /\ LosesLittle
    BY NextOK, NextKnown, NextLoses
  <1>2. \A j \in Jobs : Tracked(j)'
    BY <1>1, NothingFails DEF LosesLittle, KeepsTrack, Recorded
  <1>3. ASSUME NEW m \in Managers, mgr[m].pc # "report", ManagerStep(m)
        PROVE  \A n \in Managers : mgr[n].pc # "report" => mgr'[n].pc # "report"
    <2>1. \A n \in Managers \ {m} : mgr'[n] = mgr[n]
      BY <1>3, ManagerEffect
    <2>2. mgr'[m].pc # "report"
      <3>1. ~ReportsFailure(m)
        BY <1>3, NothingFails DEF ReportsFailure
      <3>2. Sleeping.pc # "report"
        BY DEF Sleeping
      <3> QED
        BY <1>3, <3>1, <3>2, ManagerEffect
        DEF RoundEnds, RoundBegins, QueueBegins, GoesOn, TakesUp, GoesToRetry, Restarts, GivesUp,
            Launches, Records
    <2> QED
      BY <2>1, <2>2
  <1>4. ASSUME NEW j \in Jobs, JobStep(j) PROVE UNCHANGED mgr
    BY <1>4, PodsStepOthers, SubmitStepOthers, AgeStepOthers DEF JobStep, RequestStep
  <1>5. \A m \in Managers : mgr'[m].pc # "report"
    BY <1>3, <1>4 DEF Next, JobStep, ApiCrash, vars, Recorded
  <1> QED
    BY <1>1, <1>2, <1>5 DEF Recorded

(***************************************************************************)
(* An active job whose Kubernetes job is gone is marked as submitted, so    *)
(* that the manager will notice, for both handlers, overlapping managers,   *)
(* and whatever pods are killed or jobs cancelled, if no call fails and no  *)
(* process crashes.                                                         *)
(***************************************************************************)
THEOREM StalledNoticed == Untroubled => (Spec => []StalledJobsAreRetried)
  <1> SUFFICES ASSUME Untroubled PROVE Spec => []StalledJobsAreRetried
    OBVIOUS
  <1>1. Init => IRecorded
    BY InitOK, InitKnown, InitRecorded DEF IRecorded
  <1>2. IRecorded /\ [Next]_vars => IRecorded'
    BY NextRecorded
  <1>3. IRecorded => StalledJobsAreRetried
    BY DEF IRecorded, Recorded, Tracked, StalledJobsAreRetried, Unnoticed
  <1> QED
    BY <1>1, <1>2, <1>3, PTL DEF Spec

-----------------------------------------------------------------------------
(***************************************************************************)
(* One manager, to which the API leaves all jobs: what it has read of a     *)
(* job's attempts is still true, so it counts each launch.                  *)
(***************************************************************************)
Solitary ==
    /\ Untroubled
    /\ \A m, n \in Managers : m = n
    /\ Handler = "k8s-managed-worker"

AttemptsRead(m) ==
    \A j \in Jobs : mgr[m].snap[j].kind # "other" =>
                        mgr[m].snap[j].k8s_attempts = db[j].k8s_attempts

CountedUp(j) ==
    /\ kjob[j].launches <= db[j].k8s_attempts + 1
    /\ (\A m \in Managers : ~RecordedBy(m, j)) => kjob[j].launches <= db[j].k8s_attempts

LaunchesCounted ==
    /\ api.pc # "record"
    /\ \A m \in Managers : AttemptsRead(m)
    /\ \A j \in Jobs : CountedUp(j)

ICounted == IRecorded /\ LaunchesCounted

LEMMA Numbers ==
    ASSUME IInv, NEW j \in Jobs
    PROVE  kjob[j].launches \in Nat /\ db[j].k8s_attempts \in Nat
  BY MaxLaunchesAssumption
  DEF IInv, TypeOK, KubernetesTypeOK, KJob, StatusHandlerTypeOK, Entry

LEMMA ManagerCounted ==
    ASSUME Solitary, ICounted, NEW m \in Managers, ManagerStep(m)
    PROVE  LaunchesCounted'
  <1> USE DEF ICounted, IRecorded
  <1>1. /\ UNCHANGED api /\ db \in [Jobs -> Entry] /\ mgr[m].snap \in [Jobs -> Reading]
        /\ \A n \in Managers : n = m
    BY ManagerEffect, RoundFields DEF Solitary, IInv, TypeOK, StatusHandlerTypeOK
  <1>2. ASSUME AttemptsRead(m)', \A j \in Jobs : CountedUp(j)'
        PROVE  LaunchesCounted'
    BY <1>1, <1>2 DEF LaunchesCounted
  <1>3. AttemptsRead(m) /\ \A j \in Jobs : CountedUp(j)
    BY DEF LaunchesCounted
  <1>4. ASSUME Silent, mgr[m].pc # "record", mgr'[m].pc # "record"
        PROVE  \A j \in Jobs : CountedUp(j)'
    BY <1>1, <1>3, <1>4 DEF Silent, CountedUp, RecordedBy
  <1>5. CASE RoundEnds(m)
    <2>1. Silent /\ mgr[m].pc # "record" /\ mgr'[m].pc # "record"
      BY <1>5, NothingFails DEF RoundEnds, Sleeping, Solitary
    <2>2. AttemptsRead(m)'
      BY <1>5 DEF RoundEnds, Sleeping, NotRead, AttemptsRead
    <2> QED
      BY <1>2, <1>4, <2>1, <2>2
  <1>6. CASE RoundBegins(m)
    <2>1. Silent /\ mgr[m].pc # "record" /\ mgr'[m].pc # "record"
      BY <1>6 DEF RoundBegins
    <2>2. \A j \in Jobs : mgr'[m].snap[j] = Read(db[j]) /\ db'[j] = db[j]
      BY <1>6 DEF RoundBegins, Silent
    <2>3. AttemptsRead(m)'
      BY <1>1, <2>2, ReadTells DEF AttemptsRead
    <2> QED
      BY <1>2, <1>4, <2>1, <2>3
  <1>7. CASE QueueBegins(m) \/ GoesOn(m) \/ TakesUp(m) \/ GoesToRetry(m)
    <2>1. /\ Silent /\ mgr[m].pc # "record" /\ mgr'[m].pc # "record"
          /\ mgr'[m].snap = mgr[m].snap
      BY <1>7 DEF QueueBegins, GoesOn, TakesUp, GoesToRetry, StaysAt
    <2>2. AttemptsRead(m)'
      BY <1>3, <2>1 DEF AttemptsRead, Silent
    <2> QED
      BY <1>2, <1>4, <2>1, <2>2
  <1>8. CASE Restarts(m) \/ GivesUp(m) \/ Launches(m) \/ Records(m)
    <2>1. mgr[m].pc \notin {"sleep", "loop"}
      BY <1>8 DEF Restarts, GivesUp, Launches, Records
    <2>2. PICK j \in Jobs : j = mgr[m].cur
      BY <2>1, CurIsJob
    <2>3. /\ \A i \in Jobs \ {j} : db'[i] = db[i] /\ kjob'[i] = kjob[i]
          /\ \A i \in Jobs \ {j} : mgr'[m].snap[i] = mgr[m].snap[i]
          /\ \A i \in Jobs \ {j} : ~RecordedBy(m, i) /\ ~RecordedBy(m, i)'
      <3>1. /\ \A i \in Jobs \ {j} : mgr'[m].snap[i] = mgr[m].snap[i]
            /\ mgr'[m].pc = "record" => mgr'[m].cur = j
        BY <1>1, <1>8, <2>2 DEF Restarts, GivesUp, Launches, Records, StaysAt
      <3> QED
        BY <2>2, <3>1, OneJobAtATime DEF RecordedBy
    <2>4. \A i \in Jobs \ {j} : CountedUp(i)'
      BY <1>1, <1>3, <2>3 DEF CountedUp
    <2>5. mgr[m].snap[j].k8s_attempts = db[j].k8s_attempts
      BY <1>3, <2>1, <2>2 DEF AttemptsRead, Known, KnownRound, Handled
    <2>6. /\ mgr'[m].snap[j].kind # "other" => mgr'[m].snap[j].k8s_attempts = db'[j].k8s_attempts
          /\ CountedUp(j)'
      <3>1. CASE Restarts(m)
        <4>1. /\ kjob' = kjob /\ db'[j].k8s_attempts = db[j].k8s_attempts
              /\ mgr'[m].snap = mgr[m].snap /\ ~RecordedBy(m, j)
          BY <2>2, <3>1, RestartsWrites DEF Restarts, StaysAt, RecordedBy
        <4> QED
          BY <1>1, <1>3, <2>5, <4>1 DEF CountedUp
      <3>2. CASE GivesUp(m)
        <4>1. /\ kjob' = kjob /\ db'[j].k8s_attempts = db[j].k8s_attempts
              /\ mgr'[m].snap[j] = NotRead /\ ~RecordedBy(m, j)
          BY <1>1, <2>2, <3>2, FailureWrites DEF GivesUp, RecordedBy
        <4>2. NotRead.kind = "other"
          BY DEF NotRead
        <4> QED
          BY <1>1, <1>3, <4>1, <4>2 DEF CountedUp
      <3>3. CASE Launches(m)
        <4>1. /\ db' = db /\ kjob'[j].launches <= kjob[j].launches + 1
              /\ mgr'[m].snap = mgr[m].snap /\ ~RecordedBy(m, j) /\ RecordedBy(m, j)'
          BY <2>2, <3>3, CreateChange DEF Launches, StaysAt, RecordedBy
        <4>2. kjob'[j].launches \in Nat
          <5>1. IInv'
            BY ManagerStepOK
          <5> QED
            BY <5>1, MaxLaunchesAssumption DEF IInv, TypeOK, KubernetesTypeOK, KJob
        <4>3. kjob[j].launches <= db[j].k8s_attempts
          BY <1>1, <1>3, <4>1 DEF CountedUp
        <4>4. kjob'[j].launches <= db'[j].k8s_attempts + 1
          BY <4>1, <4>2, <4>3, Numbers
        <4> QED
          BY <2>5, <4>1, <4>4 DEF CountedUp
      <3>4. CASE Records(m)
        <4>1. /\ kjob' = kjob /\ db'[j].k8s_attempts = db[j].k8s_attempts + 1
              /\ mgr'[m].snap[j] = Read(db'[j]) /\ db'[j] \in Entry
          BY <1>1, <2>2, <2>5, <3>4, RecordsWrites DEF Records
        <4>2. CountedUp(j)'
          BY <1>3, <4>1, Numbers DEF CountedUp
        <4> QED
          BY <4>1, <4>2, ReadTells
      <3> QED
        BY <1>8, <3>1, <3>2, <3>3, <3>4
    <2>7. AttemptsRead(m)'
      BY <1>3, <2>3, <2>6 DEF AttemptsRead
    <2> QED
      BY <1>2, <2>4, <2>6, <2>7
  <1>9. CASE ReportsFailure(m)
    BY <1>9, NothingFails DEF Solitary, ReportsFailure, Recorded
  <1> QED
    BY <1>5, <1>6, <1>7, <1>8, <1>9, ManagerEffect

LEMMA JobStepCounted ==
    ASSUME Solitary, ICounted, NEW j \in Jobs, JobStep(j)
    PROVE  LaunchesCounted'
  <1> USE DEF ICounted, IRecorded
  <1>1. ASSUME mgr' = mgr, api'.pc # "record",
               \A i \in Jobs : /\ kjob'[i].launches = kjob[i].launches
                               /\ db'[i].k8s_attempts = db[i].k8s_attempts
        PROVE  LaunchesCounted'
    BY <1>1 DEF LaunchesCounted, AttemptsRead, CountedUp, RecordedBy
  <1>2. api.pc # "record"
    BY DEF LaunchesCounted
  <1>3. CASE PodsStep(j)
    BY <1>1, <1>2, <1>3, PodsStepOthers
  <1>4. CASE RequestStep(j)
    <2>1. api'.pc # "record"
      BY <1>4 DEF RequestStep, ApiStep, PostNew, CancelRead, CancelWrite, CancelFails, NoRequest
    <2>2. /\ \A i \in Jobs \ {j} : db'[i] = db[i]
          /\ \/ db'[j].k8s_attempts = db[j].k8s_attempts
             \/ db'[j].k8s_attempts = 0 /\ ~Exists(j)
          /\ UNCHANGED <<mgr, kjob>>
      BY <1>4, ApiStepOK DEF RequestStep, IInv, TypeOK
    <2>3. ~Exists(j) => db[j].k8s_attempts = 0
      BY DEF IInv, EntriesOK, EntryOK, Known, KnownJobs
    <2> QED
      BY <1>1, <2>1, <2>2, <2>3
  <1>5. CASE SubmitStep(j)
    <2>1. NotifyPending(j)
      BY <1>2, <1>5, NothingFails
      DEF Solitary, SubmitStep, ApiCreate, ApiCreateExists, ApiRecord, Handling, ApiSubmitFails
    <2>2. SetStatus(j, "pending") /\ "pending" \in Status /\ UNCHANGED <<mgr, kjob>>
          /\ api'.pc # "record"
      BY <2>1 DEF NotifyPending, Status, NoRequest
    <2> QED
      BY <1>1, <2>2, SetStatusOK DEF IInv, TypeOK
  <1>6. CASE AgeStep(j) \/ ExpiryStep(j)
    BY <1>1, <1>2, <1>6, AgeStepOthers
  <1> QED
    BY <1>3, <1>4, <1>5, <1>6 DEF JobStep

LEMMA InitCounted == Init => LaunchesCounted
  <1> SUFFICES ASSUME Init PROVE LaunchesCounted
    OBVIOUS
  <1>1. AbsentEntry.k8s_attempts = 0 /\ NewEntry.k8s_attempts = 0
    BY DEF NewEntry, AbsentEntry
  <1>2. \A j \in Jobs : kjob[j].launches = 0 /\ db[j].k8s_attempts = 0
    BY <1>1 DEF Init, KubernetesInit, NoKJob
  <1> QED
    BY <1>2 DEF Init, ManagerInit, Sleeping, NotRead, ApiInit, NoRequest,
                LaunchesCounted, AttemptsRead, CountedUp

LEMMA NextCounted == Solitary /\ ICounted /\ [Next]_vars => ICounted'
  <1> SUFFICES ASSUME Solitary, ICounted, [Next]_vars PROVE ICounted'
    OBVIOUS
  <1>1. IRecorded'
    BY NextRecorded DEF ICounted, Solitary
  <1>2. CASE ApiCrash
    BY <1>2, NothingFails DEF ApiCrash, ICounted, IRecorded, Solitary
  <1>3. CASE UNCHANGED vars
    BY <1>1, <1>3
    DEF vars, ICounted, LaunchesCounted, AttemptsRead, CountedUp, RecordedBy
  <1> QED
    BY <1>1, <1>2, <1>3, ManagerCounted, JobStepCounted DEF Next, JobStep, ICounted

(***************************************************************************)
(* With one manager, no failing call and no crash, the cluster is asked to  *)
(* run a job at most RetryTimes + 1 times, however often its pods are       *)
(* killed, its entry grows old or it is cancelled.                          *)
(***************************************************************************)
THEOREM LaunchesLimited == Solitary => (Spec => []LaunchesWithinBudget)
  <1> SUFFICES ASSUME Solitary PROVE Spec => []LaunchesWithinBudget
    OBVIOUS
  <1>1. Init => ICounted
    BY InitOK, InitKnown, InitRecorded, InitCounted DEF IRecorded, ICounted
  <1>2. ICounted /\ [Next]_vars => ICounted'
    BY NextCounted
  <1>3. ICounted => LaunchesWithinBudget
    <2> SUFFICES ASSUME ICounted, NEW j \in Jobs
                 PROVE  kjob[j].launches <= RetryTimes + 1
      BY DEF LaunchesWithinBudget
    <2> USE DEF ICounted, IRecorded
    <2>1. CASE \A m \in Managers : ~RecordedBy(m, j)
      BY <2>1, Numbers, RetryTimesAssumption
      DEF LaunchesCounted, CountedUp, IInv, EntriesOK, EntryOK
    <2>2. ASSUME NEW m \in Managers, RecordedBy(m, j)
          PROVE  kjob[j].launches <= RetryTimes + 1
      <3>1. mgr[m].snap[j].k8s_attempts <= RetryTimes
        BY <2>2 DEF RecordedBy, IInv, RoundsOK, RoundOK
      <3>2. mgr[m].snap[j].k8s_attempts = db[j].k8s_attempts
        BY <2>2 DEF RecordedBy, Known, KnownRound, Handled, LaunchesCounted, AttemptsRead
      <3>3. kjob[j].launches <= db[j].k8s_attempts + 1
        BY DEF LaunchesCounted, CountedUp
      <3> QED
        BY <3>1, <3>2, <3>3, Numbers, RetryTimesAssumption
    <2> QED
      BY <2>1, <2>2
  <1> QED
    BY <1>1, <1>2, <1>3, PTL DEF Spec

-----------------------------------------------------------------------------
(***************************************************************************)
(* The queue alone: no cancellations, no forgotten entries, only "watch",   *)
(* and posts that are answered while their job is open.                     *)
(***************************************************************************)
Undisturbed ==
    /\ Untroubled
    /\ Managers \subseteq {"watch"}
    /\ Handler = "k8s-managed-worker"
    /\ ~Cancelling /\ ~Expiring

PostsAnswered == \A j \in Jobs : Handling("submit", j) => Open(db[j])

(***************************************************************************)
(* Then a run that has something to report has an open entry, a job that is *)
(* to be retried has no pod, and what a round takes for queued has not been *)
(* submitted since.                                                         *)
(***************************************************************************)
ExecutedOpen ==
    \A j \in Jobs : Busy(j) => /\ run[j].note # "result" => Open(db[j])
                               /\ run[j].note # "cancelled"

RetriedAtRest ==
    \A m \in Managers :
        \/ mgr[m].pc \in {"retry", "retrying"}
        \/ mgr[m].pc = "create" /\ mgr[m].phase = "retry"
        => kjob[mgr[m].cur].state # "active"

QueuedUnsubmitted ==
    \A m \in Managers, j \in Jobs :
        mgr[m].snap[j].kind = "queued" => ~db[j].submitted_to_k8s

Straight ==
    /\ \A j \in Jobs : db[j].age # "expired" /\ db[j].status # "cancelled"
    /\ api.pc \notin {"cancel", "record"}
    /\ ExecutedOpen /\ RetriedAtRest /\ QueuedUnsubmitted

IStraight == IRecorded /\ Straight

(***************************************************************************)
(* What a step may do to the entry of the one job it is about: the job      *)
(* becomes active only if a manager restarts it or records its launch.      *)
(***************************************************************************)
Activates(m, j) == mgr[m].cur = j /\ mgr[m].pc \in {"record", "retrying"}

EntryChange(j) ==
    /\ \A i \in Jobs \ {j} : db'[i] = db[i]
    /\ HasActiveStatus(db'[j]) /\ ~HasActiveStatus(db[j]) =>
          \E m \in Managers : Activates(m, j)
    /\ IsQueued(db'[j]) => \/ ~Exists(j)
                           \/ IsQueued(db[j])
                           \/ Handling("submit", j)
    /\ ~Exists(j) => db'[j] = db[j] \/ IsQueued(db'[j])
    /\ Exists(j) => Exists(j)'

LEMMA OneManager ==
    ASSUME Undisturbed, NEW m \in Managers, NEW n \in Managers
    PROVE  m = n
  BY DEF Undisturbed

\* The launch of a job that has a pod, but no submission in its entry, is being recorded.
LEMMA QueuedIsRecorded ==
    ASSUME IStraight, NEW j \in Jobs, kjob[j].state = "active", ~db[j].submitted_to_k8s
    PROVE  \E m \in Managers : RecordedBy(m, j)
  BY DEF IStraight, Straight, IRecorded, Recorded, Tracked, BeingRecorded, Handling

LEMMA RunStepStraight ==
    ASSUME Undisturbed, IStraight, NEW j \in Jobs, JobRunStep(j), UNCHANGED <<mgr, kjob, api>>
    PROVE  /\ EntryChange(j)
           /\ db'[j].status # "cancelled"
           /\ Busy(j)' => /\ run'[j].note # "result" => Open(db'[j])
                          /\ run'[j].note # "cancelled"
  <1> USE DEF IStraight, IRecorded
  <1>1. /\ \A i \in Jobs \ {j} : db'[i] = db[i]
        /\ Exists(j) => Exists(j)'
        /\ Busy(j) /\ Exists(j)
        /\ db'[j].submitted_to_k8s = db[j].submitted_to_k8s
        /\ run[j].note \in Notes
        /\ kjob[j].state = "active"
    BY JobRunStepOK DEF IInv, TypeOK, RunOK, ClusterOK, Busy, Known, KnownJobs
  <1>2. /\ run[j].note # "cancelled" /\ db[j].status # "cancelled"
        /\ run[j].note # "result" => Open(db[j])
    BY <1>1 DEF Straight, ExecutedOpen
  <1>3. CASE db' = db /\ (Busy(j)' => run'[j].note # "cancelled")
                      /\ (Busy(j)' /\ run'[j].note # "result" => run[j].note # "result")
    BY <1>1, <1>2, <1>3 DEF EntryChange
  <1>4. CASE CheckPasses(j) \/ RateLimitElapses(j)
    <2>1. db' = db /\ run'[j].note = run[j].note
      BY <1>4 DEF CheckPasses, RateLimitElapses, IInv, RunOK, JobRunTypeOK, Run
    <2> QED
      BY <1>2, <1>3, <2>1
  <1>5. CASE CheckRaises(j) \/ NotifyFails(j)
    BY <1>2, <1>5, NothingFails DEF CheckRaises, NotifyFails, Undisturbed
  <1>6. CASE Drop(j)
    <2>1. Delivered(j) /\ run[j].note = "progress" /\ db' = db
      BY <1>6 DEF Drop, MayDrop
    <2> QED
      BY <1>1, <1>3, <2>1, DeliveredOK DEF IInv
  <1>7. CASE Write(j)
    <2> DEFINE n == run[j].note
    <2>1. Delivered(j) /\ db'[j].status = Given(WrittenStatus(n), db[j].status)
      BY <1>7, WriteOK DEF Write, IInv, TypeOK
    <2>2. /\ Busy(j)' => run'[j].note # "cancelled"
          /\ Busy(j)' /\ run'[j].note # "result" =>
                n \notin {"done", "result", "failed", "cancelled", "rejected"}
      BY <1>1, <2>1, DeliveredOK DEF IInv, Busy
    <2>3. CASE n \in {"parsing", "initializing", "running", "post_processing", "retrying"}
      <3>1. db'[j].status = n
        BY <2>1, <2>3, NoneAssumption DEF WrittenStatus, Status, Given
      <3>2. HasActiveStatus(db'[j]) /\ ~IsQueued(db'[j]) /\ db'[j].status # "cancelled"
        BY <2>3, <3>1 DEF HasActiveStatus, IsQueued
      <3>3. ~HasActiveStatus(db[j]) => \E m \in Managers : Activates(m, j)
        <4> SUFFICES ASSUME ~HasActiveStatus(db[j]) PROVE \E m \in Managers : Activates(m, j)
          OBVIOUS
        <4>1. ~db[j].submitted_to_k8s
          BY <1>2, <2>3 DEF Open, IsQueued
        <4> QED
          BY <1>1, <4>1, QueuedIsRecorded DEF RecordedBy, Activates
      <3> QED
        BY <1>1, <2>2, <3>2, <3>3 DEF EntryChange, Open
    <2>4. CASE n \in {"progress", "result"}
      <3>1. db'[j].status = db[j].status
        BY <2>1, <2>4 DEF WrittenStatus, Status, Given
      <3>2. HasActiveStatus(db'[j]) = HasActiveStatus(db[j]) /\ IsQueued(db'[j]) = IsQueued(db[j])
        BY <1>1, <3>1 DEF HasActiveStatus, IsQueued
      <3> QED
        BY <1>1, <1>2, <2>2, <3>1, <3>2 DEF EntryChange, Open
    <2>5. CASE n \in {"done", "failed", "rejected"}
      <3>1. db'[j].status \in {"done", "failed"}
        BY <2>1, <2>5, NoneAssumption DEF WrittenStatus, Status, Given
      <3>2. ~HasActiveStatus(db'[j]) /\ ~IsQueued(db'[j]) /\ db'[j].status # "cancelled"
        BY <3>1 DEF HasActiveStatus, IsQueued
      <3> QED
        BY <1>1, <2>2, <2>5, <3>2 DEF EntryChange
    <2> QED
      BY <1>1, <1>2, <2>3, <2>4, <2>5 DEF Notes, ExecuteNotes
  <1> QED
    BY <1>4, <1>5, <1>6, <1>7 DEF JobRunStep, Updating

LEMMA JobStepStraight ==
    ASSUME Undisturbed, IStraight, PostsAnswered, NEW j \in Jobs, JobStep(j)
    PROVE  Straight' /\ EntryChange(j) /\ mgr' = mgr
  <1> USE DEF IStraight, IRecorded
  <1>1. ASSUME mgr' = mgr, EntryChange(j),
               \A i \in Jobs \ {j} : run'[i] = run[i] /\ kjob'[i] = kjob[i],
               kjob'[j].state = "active" => kjob[j].state = "active",
               api'.pc \notin {"cancel", "record"},
               db'[j].age # "expired", db'[j].status # "cancelled",
               db'[j].submitted_to_k8s => db[j].submitted_to_k8s,
               Busy(j)' => /\ run'[j].note # "result" => Open(db'[j])
                           /\ run'[j].note # "cancelled"
        PROVE  Straight'
    <2>1. ExecutedOpen'
      BY <1>1 DEF Straight, ExecutedOpen, EntryChange, Busy
    <2>2. RetriedAtRest'
      <3>1. \A m \in Managers : mgr[m].pc \notin {"sleep", "loop"} => mgr[m].cur \in Jobs
        BY CurIsJob
      <3> QED
        BY <1>1, <3>1 DEF Straight, RetriedAtRest
    <2>3. QueuedUnsubmitted'
      BY <1>1 DEF Straight, QueuedUnsubmitted, EntryChange
    <2> QED
      BY <1>1, <2>1, <2>2, <2>3 DEF Straight, EntryChange
  <1>2. ~Fault /\ api.pc \notin {"cancel", "record"}
        /\ db[j].age # "expired" /\ db[j].status # "cancelled"
    BY NothingFails DEF Undisturbed, Straight
  <1>3. Busy(j) => Exists(j)
    BY DEF IInv, ClusterOK, Known, KnownJobs, Busy
  <1>4. Busy(j) => /\ run[j].note # "result" => Open(db[j])
                   /\ run[j].note # "cancelled"
    BY DEF Straight, ExecutedOpen
  <1>5. db' = db => EntryChange(j)
    BY DEF EntryChange, Exists
  <1>6. CASE PodsStep(j)
    <2>1. /\ \A i \in Jobs \ {j} : db'[i] = db[i] /\ run'[i] = run[i] /\ kjob'[i] = kjob[i]
          /\ kjob'[j].state = "active" => kjob[j].state = "active"
          /\ db'[j].submitted_to_k8s = db[j].submitted_to_k8s
          /\ db'[j].age \in {db[j].age, "recent"}
          /\ UNCHANGED <<mgr, api>>
          /\ Exists(j) => Exists(j)'
      BY <1>6, PodsStepOthers
    <2>2. ASSUME EntryChange(j), db'[j].status # "cancelled",
                 Busy(j)' => /\ run'[j].note # "result" => Open(db'[j])
                             /\ run'[j].note # "cancelled"
          PROVE  Straight' /\ EntryChange(j) /\ mgr' = mgr
      BY <1>1, <1>2, <2>1, <2>2
    <2>3. CASE PodStart(j)
      <3>1. db' = db /\ Open(db[j])
        BY <2>3 DEF PodStart, Open, HasActiveStatus, IsQueued
      <3>2. run'[j].note \in {"parsing", "rejected"}
        BY <2>3, StartRunOK DEF PodStart, IInv
      <3> QED
        BY <1>2, <1>5, <2>2, <3>1, <3>2
    <2>4. CASE PodSetupFails(j) \/ PodDeclines(j) \/ PodFinished(j) \/ PodKilled(j)
      <3>1. db' = db
        BY <2>4 DEF PodSetupFails, PodDeclines, PodFinished, PodKilled
      <3>2. ~Busy(j)'
        BY <2>4, RunRests
        DEF PodSetupFails, PodDeclines, PodFinished, PodKilled, PodDone, Busy
      <3> QED
        BY <1>2, <1>5, <2>2, <3>1, <3>2
    <2>5. CASE PodReadFails(j) \/ PodRaisedUnreported(j)
      BY <1>2, <2>5 DEF PodReadFails, PodRaisedUnreported
    <2>6. CASE PodRaised(j)
      <3>1. db'[j].status = "failed"
        BY <2>6, FailureWrites DEF PodRaised
      <3>2. ~Busy(j)' /\ Exists(j)
        <4>1. run[j].pc # "idle" => kjob[j].state = "active" /\ Exists(j)
          BY DEF IInv, ClusterOK, Known, KnownJobs
        <4> QED
          BY <2>6, <4>1, RunRests DEF PodRaised, Busy
      <3>3. EntryChange(j)
        BY <2>1, <3>1, <3>2 DEF EntryChange, HasActiveStatus, IsQueued
      <3> QED
        BY <2>2, <3>1, <3>2, <3>3
    <2>7. CASE Removed(j)
      <3>1. db' = db /\ run' = run
        BY <2>7 DEF Removed
      <3> QED
        BY <1>2, <1>4, <1>5, <2>2, <3>1 DEF Busy
    <2>8. CASE JobRunStep(j) /\ UNCHANGED <<kjob, kills>>
      BY <2>1, <2>2, <2>8, RunStepStraight
    <2> QED
      BY <1>6, <2>3, <2>4, <2>5, <2>6, <2>7, <2>8 DEF PodsStep, ClusterStep, PodStep
  <1>7. CASE RequestStep(j)
    <2>1. PostNew(j) /\ UNCHANGED <<run, kjob, mgr>>
      BY <1>2, <1>7
      DEF RequestStep, ApiStep, CancelRead, CancelWrite, CancelFails, Undisturbed
    <2>2. /\ \A i \in Jobs \ {j} : db'[i] = db[i]
          /\ db'[j] = NewEntry /\ ~db'[j].submitted_to_k8s /\ db'[j].age = "recent"
          /\ ~Exists(j) /\ api'.pc = "submit"
      BY <2>1, NewOK DEF PostNew, New, IInv, TypeOK
    <2>3. NewEntry.status = "pending"
      BY DEF NewEntry, AbsentEntry
    <2>4. EntryChange(j)
      BY <2>2, <2>3 DEF EntryChange, HasActiveStatus, IsQueued
    <2> QED
      BY <1>1, <1>3, <2>1, <2>2, <2>3, <2>4 DEF Busy
  <1>8. CASE SubmitStep(j)
    <2>1. NotifyPending(j)
      BY <1>2, <1>8
      DEF Undisturbed, SubmitStep, ApiCreate, ApiCreateExists, ApiRecord, Handling, ApiSubmitFails
    <2>2. /\ SetStatus(j, "pending") /\ "pending" \in Status /\ Handling("submit", j)
          /\ UNCHANGED <<run, kjob, mgr>> /\ api'.pc = "idle"
      BY <2>1 DEF NotifyPending, Status, NoRequest
    <2>3. /\ \A i \in Jobs \ {j} : db'[i] = db[i]
          /\ db'[j].status = "pending" /\ db'[j].age = "recent"
          /\ db'[j].submitted_to_k8s = db[j].submitted_to_k8s
          /\ db'[j] \in Entry
      BY <2>2, SetStatusOK DEF IInv, TypeOK
    <2>4. Open(db[j]) /\ Exists(j)
      BY <2>2 DEF PostsAnswered, Open, HasActiveStatus, IsQueued, Exists
    <2>5. Open(db'[j]) /\ (HasActiveStatus(db'[j]) => HasActiveStatus(db[j]))
      BY <2>3, <2>4 DEF Open, HasActiveStatus, IsQueued
    <2>6. EntryChange(j)
      BY <2>2, <2>3, <2>4, <2>5 DEF EntryChange, Exists
    <2> QED
      BY <1>1, <1>4, <2>2, <2>3, <2>5, <2>6 DEF Busy
  <1>9. CASE AgeStep(j) \/ ExpiryStep(j)
    <2>1. /\ \A i \in Jobs \ {j} : db'[i] = db[i]
          /\ db'[j].status = db[j].status
          /\ db'[j].submitted_to_k8s = db[j].submitted_to_k8s
          /\ db'[j].age # "expired"
          /\ UNCHANGED <<run, kjob, mgr, api>>
      BY <1>9, AgeStepOthers DEF Undisturbed
    <2>2. /\ HasActiveStatus(db'[j]) = HasActiveStatus(db[j])
          /\ IsQueued(db'[j]) = IsQueued(db[j]) /\ Exists(j)' = Exists(j)
          /\ Exists(j)
      BY <1>9, <2>1
      DEF HasActiveStatus, IsQueued, Exists, AgeStep, TimePasses, ExpiryStep, Expires
    <2>3. EntryChange(j)
      BY <2>1, <2>2 DEF EntryChange
    <2> QED
      BY <1>1, <1>2, <1>4, <2>1, <2>2, <2>3 DEF Busy, Open
  <1> QED
    BY <1>6, <1>7, <1>8, <1>9 DEF JobStep

LEMMA ManagerStraight ==
    ASSUME Undisturbed, IStraight, NEW m \in Managers, ManagerStep(m)
    PROVE  /\ Straight'
           /\ \/ db' = db
              \/ \E j \in Jobs : j = mgr[m].cur /\ EntryChange(j)
  <1> USE DEF IStraight, IRecorded
  <1>1. /\ UNCHANGED <<run, api>>
        /\ \A n \in Managers : n = m
        /\ mgr[m].snap \in [Jobs -> Reading]
        /\ db \in [Jobs -> Entry]
    BY ManagerEffect, OneManager, RoundFields DEF IInv, TypeOK, StatusHandlerTypeOK
  <1>2. ASSUME \A j \in Jobs : /\ db'[j].age # "expired" /\ db'[j].status # "cancelled"
                               /\ Busy(j) /\ Open(db[j]) => Open(db'[j]),
               \A j \in Jobs : mgr'[m].snap[j].kind = "queued" => ~db'[j].submitted_to_k8s,
               \/ mgr'[m].pc \in {"retry", "retrying"}
               \/ mgr'[m].pc = "create" /\ mgr'[m].phase = "retry"
               => kjob'[mgr'[m].cur].state # "active"
        PROVE  Straight'
    <2>1. ExecutedOpen'
      BY <1>1, <1>2 DEF Straight, ExecutedOpen, Busy
    <2>2. RetriedAtRest' /\ QueuedUnsubmitted'
      BY <1>1, <1>2 DEF RetriedAtRest, QueuedUnsubmitted
    <2> QED
      BY <1>1, <1>2, <2>1, <2>2 DEF Straight
  <1>3. ASSUME Silent
        PROVE  \A j \in Jobs : /\ db'[j].age # "expired" /\ db'[j].status # "cancelled"
                               /\ Busy(j) /\ Open(db[j]) => Open(db'[j])
    BY <1>3 DEF Silent, Straight
  <1>4. CASE RoundEnds(m)
    <2>1. Silent /\ mgr'[m].pc = "sleep" /\ \A j \in Jobs : mgr'[m].snap[j].kind = "other"
      BY <1>4 DEF RoundEnds, Sleeping, NotRead
    <2> QED
      BY <1>2, <1>3, <2>1 DEF Silent
  <1>5. CASE RoundBegins(m)
    <2>1. /\ Silent /\ mgr'[m].pc = "loop"
          /\ \A j \in Jobs : mgr'[m].snap[j] = Read(db[j]) /\ db'[j] = db[j]
      BY <1>5 DEF RoundBegins, Silent
    <2>2. \A j \in Jobs : mgr'[m].snap[j].kind = "queued" => ~db'[j].submitted_to_k8s
      BY <1>1, <2>1, ReadTells DEF IsQueued
    <2> QED
      BY <1>2, <1>3, <2>1, <2>2 DEF Silent
  <1>6. CASE QueueBegins(m) \/ GoesOn(m) \/ TakesUp(m) \/ GoesToRetry(m)
    <2>1. Silent /\ mgr'[m].snap = mgr[m].snap
      BY <1>6 DEF QueueBegins, GoesOn, TakesUp, GoesToRetry, StaysAt
    <2>2. \A j \in Jobs : mgr'[m].snap[j].kind = "queued" => ~db'[j].submitted_to_k8s
      BY <2>1 DEF Silent, Straight, QueuedUnsubmitted
    <2>3. \/ mgr'[m].pc \in {"retry", "retrying"}
          \/ mgr'[m].pc = "create" /\ mgr'[m].phase = "retry"
          => kjob'[mgr'[m].cur].state # "active"
      BY <1>6, <2>1
      DEF QueueBegins, GoesOn, TakesUp, GoesToRetry, StaysAt, SamePhase, Silent,
          Straight, RetriedAtRest
    <2> QED
      BY <1>2, <1>3, <2>1, <2>2, <2>3 DEF Silent
  <1>7. CASE Restarts(m) \/ GivesUp(m) \/ Launches(m) \/ Records(m)
    <2>1. mgr[m].pc \notin {"sleep", "loop"}
      BY <1>7 DEF Restarts, GivesUp, Launches, Records
    <2>2. PICK j \in Jobs : j = mgr[m].cur
      BY <2>1, CurIsJob
    <2>3. Exists(j) /\ db[j].age # "expired" /\ db[j].status # "cancelled"
      BY <2>1, <2>2 DEF Known, KnownRound, Handled, Straight
    <2>4. mgr[m].pc \in {"retry", "retrying"} => kjob[j].state # "active"
      BY <2>2 DEF Straight, RetriedAtRest
    <2>5. ASSUME \A i \in Jobs \ {j} : db'[i] = db[i],
                 db'[j].age # "expired", db'[j].status # "cancelled",
                 Busy(j) /\ Open(db[j]) => Open(db'[j]),
                 \A i \in Jobs \ {j} : mgr'[m].snap[i] = mgr[m].snap[i],
                 mgr'[m].snap[j].kind = "queued" => ~db'[j].submitted_to_k8s,
                 mgr'[m].pc = "create" => mgr'[m].cur = j /\ kjob'[j].state # "active",
                 mgr'[m].pc \in {"create", "record", "loop"}
          PROVE  Straight'
      <3>1. \A i \in Jobs : /\ db'[i].age # "expired" /\ db'[i].status # "cancelled"
                            /\ Busy(i) /\ Open(db[i]) => Open(db'[i])
        BY <2>5 DEF Straight
      <3>2. \A i \in Jobs : mgr'[m].snap[i].kind = "queued" => ~db'[i].submitted_to_k8s
        BY <2>5 DEF Straight, QueuedUnsubmitted
      <3> QED
        BY <1>2, <2>5, <3>1, <3>2
    <2>6. CASE Restarts(m)
      <3>1. /\ \A i \in Jobs \ {j} : db'[i] = db[i]
            /\ db'[j].status = "retrying" /\ db'[j].age = "recent"
            /\ db'[j].submitted_to_k8s = db[j].submitted_to_k8s
        BY <2>2, <2>6, RestartsWrites
      <3>2. /\ mgr[m].pc = "retrying" /\ mgr'[m].pc = "create" /\ mgr'[m].cur = j
            /\ mgr'[m].snap = mgr[m].snap /\ kjob' = kjob
        BY <2>2, <2>6 DEF Restarts, StaysAt
      <3>3. HasActiveStatus(db'[j]) /\ ~IsQueued(db'[j]) /\ Exists(j)'
        BY <3>1 DEF HasActiveStatus, IsQueued, Exists
      <3>4. EntryChange(j)
        BY <2>2, <2>3, <3>1, <3>2, <3>3 DEF EntryChange, Activates
      <3>5. mgr[m].snap[j].kind = "queued" => ~db[j].submitted_to_k8s
        BY DEF Straight, QueuedUnsubmitted
      <3> QED
        BY <2>2, <2>4, <2>5, <3>1, <3>2, <3>3, <3>4, <3>5 DEF Open
    <2>7. CASE GivesUp(m)
      <3>1. /\ \A i \in Jobs \ {j} : db'[i] = db[i]
            /\ db'[j].status = "failed" /\ db'[j].age = "recent"
        BY <2>2, <2>7, FailureWrites DEF GivesUp
      <3>2. /\ mgr[m].pc = "retry" /\ mgr'[m].pc = "loop"
            /\ mgr'[m].snap[j].kind = "other"
            /\ \A i \in Jobs \ {j} : mgr'[m].snap[i] = mgr[m].snap[i]
        BY <1>1, <2>2, <2>7 DEF GivesUp, NotRead
      <3>3. ~Busy(j)
        BY <2>4, <3>2 DEF IInv, ClusterOK, Busy
      <3>4. EntryChange(j)
        BY <2>3, <3>1 DEF EntryChange, HasActiveStatus, IsQueued, Exists
      <3> QED
        BY <2>2, <2>5, <3>1, <3>2, <3>3, <3>4
    <2>8. CASE Launches(m)
      <3>1. /\ db' = db /\ mgr'[m].pc = "record" /\ mgr'[m].snap = mgr[m].snap
        BY <2>8 DEF Launches, StaysAt
      <3>2. mgr[m].snap[j].kind = "queued" => ~db[j].submitted_to_k8s
        BY DEF Straight, QueuedUnsubmitted
      <3> QED
        BY <2>3, <2>5, <3>1, <3>2
    <2>9. CASE Records(m)
      <3>1. /\ \A i \in Jobs \ {j} : db'[i] = db[i]
            /\ db'[j].status = db[j].status /\ db'[j].age = "recent"
            /\ db'[j].submitted_to_k8s /\ db'[j] \in Entry
        BY <2>2, <2>9, RecordsWrites
      <3>2. /\ mgr[m].pc = "record" /\ mgr'[m].pc = "loop"
            /\ mgr'[m].snap[j] = Read(db'[j])
            /\ \A i \in Jobs \ {j} : mgr'[m].snap[i] = mgr[m].snap[i]
        BY <1>1, <2>2, <2>9 DEF Records
      <3>3. ~IsQueued(db'[j]) /\ Exists(j)' /\ (Open(db[j]) => Open(db'[j]))
        BY <2>3, <3>1 DEF IsQueued, HasActiveStatus, Open, Exists
      <3>4. mgr'[m].snap[j].kind # "queued"
        BY <3>1, <3>2, <3>3, ReadTells
      <3>5. EntryChange(j)
        BY <2>2, <2>3, <3>1, <3>2, <3>3 DEF EntryChange, Activates
      <3> QED
        BY <2>2, <2>3, <2>5, <3>1, <3>2, <3>3, <3>4, <3>5
    <2> QED
      BY <1>7, <2>6, <2>7, <2>8, <2>9
  <1>8. CASE ReportsFailure(m)
    BY <1>8, NothingFails DEF ReportsFailure, Undisturbed, Recorded
  <1> QED
    BY <1>4, <1>5, <1>6, <1>7, <1>8, ManagerEffect
       DEF RoundEnds, RoundBegins, QueueBegins, GoesOn, TakesUp, GoesToRetry, Silent

-----------------------------------------------------------------------------
(***************************************************************************)
(* What makes the limit inductive: until the round is over, the jobs it has *)
(* read as active, and the one it is launching, are all the active ones,    *)
(* and they are no more than it counts.                                     *)
(***************************************************************************)
Active == {j \in Jobs : HasActiveStatus(db[j])}

Launching(m, j) ==
    mgr[m].cur = j /\ mgr[m].phase = "submit" /\ mgr[m].pc \in {"create", "record"}

AllCounted(m) ==
    \A j \in Active : mgr[m].snap[j].kind = "active" \/ Launching(m, j)

CountOK(m) ==
    /\ mgr[m].phase = "retry" => Cardinality(RunningJobs(mgr[m].snap)) <= MaxParallel
    /\ mgr[m].phase = "submit" =>
          /\ Cardinality(RunningJobs(mgr[m].snap)) <= mgr[m].count
          /\ mgr[m].count <= MaxParallel
          /\ mgr[m].pc # "loop" => mgr[m].count < MaxParallel

QueueCounted == \A m \in Managers : mgr[m].pc # "sleep" => AllCounted(m) /\ CountOK(m)

IQueue == IStraight /\ QueueCounted /\ MaxParallelRespected

LEMMA JobsFinite ==
    ASSUME NEW S, S \subseteq Jobs
    PROVE  IsFiniteSet(S) /\ Cardinality(S) \in Nat
  BY JobsAssumption, FS_Subset, FS_CardinalityType

LEMMA Fewer ==
    ASSUME NEW S, NEW T, S \subseteq T, T \subseteq Jobs
    PROVE  Cardinality(S) <= Cardinality(T)
  BY JobsFinite, FS_Subset

LEMMA AtMostOneMore ==
    ASSUME NEW S, NEW T, NEW j \in Jobs, S \subseteq T \cup {j}, T \subseteq Jobs
    PROVE  Cardinality(S) <= Cardinality(T) + 1
  <1>1. IsFiniteSet(T) /\ Cardinality(T) \in Nat
    BY JobsFinite
  <1>2. Cardinality(T \cup {j}) <= Cardinality(T) + 1
    BY <1>1, FS_AddElement
  <1>3. T \cup {j} \subseteq Jobs /\ S \subseteq Jobs
    OBVIOUS
  <1>4. Cardinality(S) \in Nat /\ Cardinality(T \cup {j}) \in Nat
    BY <1>3, JobsFinite
  <1>5. Cardinality(S) <= Cardinality(T \cup {j})
    BY <1>3, Fewer
  <1> QED
    BY <1>1, <1>2, <1>4, <1>5

\* When the manager makes a job active that is not, there is room.
LEMMA RoomToActivate ==
    ASSUME Undisturbed, IQueue, NEW m \in Managers, NEW j \in Jobs,
           Activates(m, j), ~HasActiveStatus(db[j])
    PROVE  Cardinality(Active) < MaxParallel
  <1> USE DEF IQueue, IStraight, IRecorded
  <1> DEFINE R == RunningJobs(mgr[m].snap)
  <1>1. /\ mgr[m].pc \in {"record", "retrying"} /\ mgr[m].cur = j
        /\ AllCounted(m) /\ CountOK(m)
        /\ mgr[m].phase \in {"retry", "submit"}
        /\ mgr[m].snap[j].kind = Handled(mgr[m].phase)
        /\ mgr[m].count \in Nat
    BY RoundFields DEF Activates, QueueCounted, Known, KnownRound
  <1>2. R \subseteq Jobs /\ Active \subseteq Jobs /\ j \notin Active
    BY DEF RunningJobs, Active
  <1>3. MaxParallel \in Nat /\ Cardinality(R) \in Nat /\ Cardinality(Active) \in Nat
    BY <1>2, JobsFinite, MaxParallelAssumption
  <1>4. Active \subseteq R \ {j}
    BY <1>1, <1>2 DEF AllCounted, Launching, RunningJobs
  <1>5. CASE mgr[m].phase = "retry"
    <2>1. j \in R /\ Cardinality(R) <= MaxParallel
      BY <1>1, <1>5 DEF Handled, RunningJobs, CountOK
    <2>2. Cardinality(R \ {j}) = Cardinality(R) - 1
      BY <1>2, <2>1, JobsFinite, FS_RemoveElement
    <2>3. Cardinality(Active) <= Cardinality(R \ {j})
      BY <1>2, <1>4, Fewer
    <2> QED
      BY <1>3, <2>1, <2>2, <2>3
  <1>6. CASE mgr[m].phase = "submit"
    <2>1. Cardinality(R) <= mgr[m].count /\ mgr[m].count < MaxParallel
      BY <1>1, <1>6 DEF CountOK
    <2>2. Cardinality(Active) <= Cardinality(R)
      BY <1>2, <1>4, Fewer
    <2> QED
      BY <1>1, <1>3, <2>1, <2>2
  <1> QED
    BY <1>1, <1>5, <1>6

LEMMA LimitStep ==
    ASSUME Undisturbed, IQueue, NEW j \in Jobs, EntryChange(j)
    PROVE  /\ MaxParallelRespected'
           /\ Active' \subseteq Active \cup {j}
           /\ j \in Active' \ Active => /\ Cardinality(Active) < MaxParallel
                                        /\ \E m \in Managers : Activates(m, j)
  <1>1. Active' \subseteq Active \cup {j} /\ Active \subseteq Jobs /\ Active' \subseteq Jobs
    BY DEF EntryChange, Active
  <1>2. MaxParallel \in Nat /\ Cardinality(Active) \in Nat /\ Cardinality(Active') \in Nat
    BY <1>1, JobsFinite, MaxParallelAssumption
  <1>3. /\ MaxParallelRespected <=> Cardinality(Active) <= MaxParallel
        /\ MaxParallelRespected' <=> Cardinality(Active') <= MaxParallel
    BY DEF MaxParallelRespected, Active
  <1>4. CASE j \in Active' \ Active
    <2>1. PICK m \in Managers : Activates(m, j)
      BY <1>4 DEF EntryChange, Active
    <2>2. Cardinality(Active) < MaxParallel
      BY <1>4, <2>1, RoomToActivate DEF Active
    <2>3. Cardinality(Active') <= Cardinality(Active) + 1
      BY <1>1, AtMostOneMore
    <2> QED
      BY <1>1, <1>2, <1>3, <2>1, <2>2, <2>3
  <1>5. CASE j \notin Active' \ Active
    <2>1. Active' \subseteq Active
      BY <1>1, <1>5
    <2>2. Cardinality(Active') <= Cardinality(Active)
      BY <1>1, <2>1, Fewer
    <2> QED
      BY <1>1, <1>2, <1>3, <1>5, <2>2 DEF IQueue
  <1> QED
    BY <1>4, <1>5

LEMMA JobStepCounts ==
    ASSUME Undisturbed, IQueue, PostsAnswered, NEW j \in Jobs, JobStep(j)
    PROVE  IQueue'
  <1> USE DEF IQueue, IStraight, IRecorded
  <1>1. Straight' /\ EntryChange(j) /\ mgr' = mgr
    BY JobStepStraight
  <1>2. IRecorded'
    <2>1. [Next]_vars
      BY DEF Next, JobStep
    <2> QED
      BY <2>1, NextRecorded DEF Undisturbed
  <1>3. MaxParallelRespected' /\ Active' \subseteq Active \cup {j}
        /\ (j \in Active' \ Active => \E m \in Managers : Activates(m, j))
    BY <1>1, LimitStep
  <1>4. ASSUME NEW m \in Managers, mgr[m].pc # "sleep", Activates(m, j)
        PROVE  mgr[m].snap[j].kind = "active" \/ Launching(m, j)
    <2>1. mgr[m].phase \in {"retry", "submit"} /\ KnownRound(m)
      BY RoundFields DEF Known
    <2> QED
      BY <1>4, <2>1 DEF Activates, KnownRound, Handled, Launching
  <1>5. ASSUME NEW m \in Managers, mgr[m].pc # "sleep"
        PROVE  AllCounted(m)' /\ CountOK(m)'
    <2>1. AllCounted(m) /\ CountOK(m)
      BY <1>5 DEF QueueCounted
    <2>2. \A i \in Active' : i \in Active \/ Activates(m, i)
      BY <1>3, OneManager
    <2>3. \A i \in Active' : mgr[m].snap[i].kind = "active" \/ Launching(m, i)
      <3> SUFFICES ASSUME NEW i \in Active', i \notin Active
                   PROVE  mgr[m].snap[i].kind = "active" \/ Launching(m, i)
        BY <2>1 DEF AllCounted
      <3>1. i = j /\ Activates(m, j)
        BY <1>3, <2>2
      <3> QED
        BY <1>4, <1>5, <3>1
    <2> QED
      BY <1>1, <2>1, <2>3 DEF AllCounted, CountOK, Launching
  <1> QED
    BY <1>1, <1>2, <1>3, <1>5 DEF QueueCounted

LEMMA ManagerCounts ==
    ASSUME Undisturbed, IQueue, NEW m \in Managers, ManagerStep(m)
    PROVE  IQueue'
  <1> USE DEF IQueue, IStraight, IRecorded
  <1>1. Straight' /\ (db' = db \/ \E j \in Jobs : j = mgr[m].cur /\ EntryChange(j))
    BY ManagerStraight
  <1>2. IRecorded'
    <2>1. [Next]_vars
      BY DEF Next
    <2> QED
      BY <2>1, NextRecorded DEF Undisturbed
  <1>3. MaxParallelRespected'
    <2>1. CASE db' = db
      BY <2>1 DEF MaxParallelRespected
    <2> QED
      BY <1>1, <2>1, LimitStep
  <1>4. /\ KnownRound(m) /\ db \in [Jobs -> Entry]
        /\ mgr[m].snap \in [Jobs -> Reading] /\ mgr[m].count \in Nat
        /\ mgr[m].phase \in {"retry", "submit"}
        /\ mgr[m].pc # "sleep" => AllCounted(m) /\ CountOK(m)
    BY RoundFields DEF Known, IInv, TypeOK, StatusHandlerTypeOK, QueueCounted
  <1>5. ASSUME mgr'[m].pc # "sleep" => AllCounted(m)' /\ CountOK(m)'
        PROVE  IQueue'
    <2>1. \A n \in Managers : n = m
      BY OneManager
    <2>2. QueueCounted'
      BY <1>5, <2>1 DEF QueueCounted
    <2> QED
      BY <1>1, <1>2, <1>3, <2>2
  <1>6. ASSUME Silent, mgr'[m].snap = mgr[m].snap, AllCounted(m),
               \A j \in Jobs : Launching(m, j) => Launching(m, j)'
        PROVE  AllCounted(m)'
    BY <1>6 DEF Silent, AllCounted, Active
  <1>7. CASE RoundEnds(m)
    BY <1>5, <1>7 DEF RoundEnds, Sleeping
  <1>8. CASE RoundBegins(m)
    <2>1. /\ Silent /\ mgr'[m].phase = "retry"
          /\ \A j \in Jobs : mgr'[m].snap[j] = Read(db[j])
      BY <1>8 DEF RoundBegins
    <2>2. \A j \in Jobs : Read(db[j]).kind = "active" <=> HasActiveStatus(db[j])
      BY <1>4, ReadTells DEF Straight
    <2>3. RunningJobs(mgr'[m].snap) = Active /\ Active' = Active
      BY <2>1, <2>2 DEF RunningJobs, Active, Silent
    <2>4. AllCounted(m)'
      BY <2>1, <2>3 DEF AllCounted, RunningJobs
    <2>5. CountOK(m)'
      BY <2>1, <2>3 DEF CountOK, MaxParallelRespected, Active
    <2> QED
      BY <1>5, <2>4, <2>5
  <1>9. CASE QueueBegins(m)
    <2>1. /\ Silent /\ mgr'[m].snap = mgr[m].snap /\ mgr[m].pc = "loop" /\ mgr'[m].pc = "loop"
          /\ mgr[m].phase = "retry" /\ mgr'[m].phase = "submit"
          /\ mgr'[m].count = Cardinality(RunningJobs(mgr[m].snap))
      BY <1>9 DEF QueueBegins
    <2>2. AllCounted(m)'
      BY <1>4, <1>6, <2>1 DEF Launching
    <2>3. Cardinality(RunningJobs(mgr[m].snap)) \in Nat
      BY JobsFinite DEF RunningJobs
    <2>4. CountOK(m)'
      BY <1>4, <2>1, <2>3 DEF CountOK
    <2> QED
      BY <1>5, <2>2, <2>4
  <1>10. CASE GoesOn(m)
    <2>1. mgr[m].pc = "create" => mgr[m].phase = "retry"
      <3> SUFFICES ASSUME mgr[m].pc = "create", mgr[m].phase = "submit" PROVE FALSE
        BY <1>4
      <3>1. PICK j \in Jobs : j = mgr[m].cur
        BY CurIsJob
      <3>2. kjob[j].state # "none" /\ ~BeingRecorded(j)
        <4>1. \A n \in Managers : n = m
          BY OneManager
        <4> QED
          BY <1>10, <3>1, <4>1, NothingFails
          DEF GoesOn, BeingRecorded, RecordedBy, Handling, Straight, Undisturbed
      <3>3. ~db[j].submitted_to_k8s
        BY <1>4, <3>1 DEF KnownRound, Handled, Straight, QueuedUnsubmitted
      <3> QED
        BY <3>2, <3>3 DEF Recorded, Tracked
    <2>2. /\ Silent /\ mgr'[m].snap = mgr[m].snap /\ mgr'[m].pc = "loop"
          /\ mgr'[m].phase = mgr[m].phase
          /\ mgr[m].phase = "submit" => mgr'[m].count = mgr[m].count
          /\ mgr[m].pc \notin {"sleep", "record"}
      BY <1>10, <2>1 DEF GoesOn, SamePhase
    <2>3. AllCounted(m)'
      BY <1>4, <1>6, <2>1, <2>2 DEF Launching
    <2>4. CountOK(m)'
      BY <1>4, <2>2 DEF CountOK
    <2> QED
      BY <1>5, <2>3, <2>4
  <1>11. CASE TakesUp(m) \/ GoesToRetry(m)
    <2>1. /\ Silent /\ mgr'[m].snap = mgr[m].snap /\ mgr'[m].count = mgr[m].count
          /\ mgr'[m].phase = mgr[m].phase
          /\ mgr[m].pc \in {"loop", "stalled", "retry"}
          /\ mgr[m].phase = "submit" => mgr[m].count < MaxParallel
      BY <1>4, <1>11 DEF TakesUp, GoesToRetry, StaysAt, SamePhase, KnownRound
    <2>2. AllCounted(m)'
      BY <1>4, <1>6, <2>1 DEF Launching
    <2>3. CountOK(m)'
      BY <1>4, <2>1 DEF CountOK
    <2> QED
      BY <1>5, <2>2, <2>3
  <1>12. CASE Launches(m)
    <2>1. /\ db' = db /\ mgr'[m].snap = mgr[m].snap /\ mgr'[m].count = mgr[m].count
          /\ mgr'[m].phase = mgr[m].phase /\ mgr'[m].cur = mgr[m].cur
          /\ mgr[m].pc = "create" /\ mgr'[m].pc = "record"
      BY <1>12 DEF Launches, StaysAt, SamePhase
    <2>2. AllCounted(m)' /\ CountOK(m)'
      BY <1>4, <2>1 DEF AllCounted, CountOK, Active, Launching
    <2> QED
      BY <1>5, <2>2
  <1>13. CASE Restarts(m) \/ GivesUp(m) \/ Records(m)
    <2>1. mgr[m].pc \in {"retrying", "retry", "record"}
      BY <1>13 DEF Restarts, GivesUp, Records
    <2>2. PICK j \in Jobs : j = mgr[m].cur
      BY <2>1, CurIsJob
    <2>3. /\ AllCounted(m) /\ CountOK(m)
          /\ mgr[m].snap[j].kind = Handled(mgr[m].phase)
          /\ mgr[m].phase = "submit" => mgr[m].pc = "record"
      BY <1>4, <2>1, <2>2 DEF KnownRound
    <2>4. \A i \in Jobs \ {j} : db'[i] = db[i]
      BY <1>13, <2>2, RestartsWrites, FailureWrites, RecordsWrites DEF GivesUp
    <2>5. \A i \in Active' \ {j} : mgr[m].snap[i].kind = "active"
      BY <2>2, <2>3, <2>4 DEF AllCounted, Active, Launching
    <2>6. CASE Restarts(m)
      <3>1. /\ mgr[m].phase = "retry" /\ mgr'[m].phase = "retry" /\ mgr'[m].snap = mgr[m].snap
            /\ mgr[m].snap[j].kind = "active"
        BY <1>4, <2>3, <2>6 DEF Restarts, StaysAt, SamePhase, KnownRound, Handled
      <3>2. AllCounted(m)' /\ CountOK(m)'
        BY <2>3, <2>5, <3>1 DEF AllCounted, CountOK
      <3> QED
        BY <1>5, <3>2
    <2>7. CASE GivesUp(m)
      <3>1. /\ mgr[m].phase = "retry" /\ mgr'[m].phase = "retry"
            /\ mgr'[m].snap[j] = NotRead
            /\ \A i \in Jobs \ {j} : mgr'[m].snap[i] = mgr[m].snap[i]
            /\ ~HasActiveStatus(db'[j])
        BY <1>4, <2>2, <2>7, FailureWrites
        DEF GivesUp, SamePhase, KnownRound, HasActiveStatus
      <3>2. RunningJobs(mgr'[m].snap) \subseteq RunningJobs(mgr[m].snap)
        BY <3>1 DEF RunningJobs, NotRead
      <3>3. AllCounted(m)'
        BY <2>5, <3>1 DEF AllCounted, Active
      <3>4. Cardinality(RunningJobs(mgr'[m].snap)) <= Cardinality(RunningJobs(mgr[m].snap))
        BY <3>2, Fewer DEF RunningJobs
      <3>5. /\ Cardinality(RunningJobs(mgr'[m].snap)) \in Nat
            /\ Cardinality(RunningJobs(mgr[m].snap)) \in Nat /\ MaxParallel \in Nat
        BY JobsFinite, MaxParallelAssumption DEF RunningJobs
      <3>6. CountOK(m)'
        BY <2>3, <3>1, <3>4, <3>5 DEF CountOK
      <3> QED
        BY <1>5, <3>3, <3>6
    <2>8. CASE Records(m)
      <3>1. /\ mgr'[m].phase = mgr[m].phase /\ mgr'[m].pc = "loop" /\ mgr[m].pc = "record"
            /\ mgr'[m].snap[j] = Read(db'[j])
            /\ \A i \in Jobs \ {j} : mgr'[m].snap[i] = mgr[m].snap[i]
            /\ mgr'[m].count = IF mgr[m].phase = "submit" THEN mgr[m].count + 1
                                                          ELSE mgr[m].count
        BY <1>4, <2>2, <2>8 DEF Records, SamePhase
      <3>2. HasActiveStatus(db'[j]) => mgr'[m].snap[j].kind = "active"
        BY <2>2, <2>8, <3>1, RecordsWrites, ReadTells
      <3>3. AllCounted(m)'
        BY <2>5, <3>1, <3>2 DEF AllCounted, Active
      <3>4. RunningJobs(mgr'[m].snap) \subseteq RunningJobs(mgr[m].snap) \cup {j}
        BY <3>1 DEF RunningJobs
      <3>5. /\ Cardinality(RunningJobs(mgr'[m].snap)) \in Nat
            /\ Cardinality(RunningJobs(mgr[m].snap)) \in Nat /\ MaxParallel \in Nat
        BY JobsFinite, MaxParallelAssumption DEF RunningJobs
      <3>6. CASE mgr[m].phase = "submit"
        <4>1. Cardinality(RunningJobs(mgr'[m].snap))
                <= Cardinality(RunningJobs(mgr[m].snap)) + 1
          BY <3>4, AtMostOneMore DEF RunningJobs
        <4>2. /\ Cardinality(RunningJobs(mgr[m].snap)) <= mgr[m].count
              /\ mgr[m].count < MaxParallel
          BY <2>3, <3>1, <3>6 DEF CountOK
        <4>3. CountOK(m)'
          BY <1>4, <3>1, <3>5, <3>6, <4>1, <4>2 DEF CountOK
        <4> QED
          BY <1>5, <3>3, <4>3
      <3>7. CASE mgr[m].phase = "retry"
        <4>1. j \in RunningJobs(mgr[m].snap)
          BY <2>3, <3>7 DEF Handled, RunningJobs
        <4>2. Cardinality(RunningJobs(mgr'[m].snap)) <= Cardinality(RunningJobs(mgr[m].snap))
          BY <3>4, <4>1, Fewer DEF RunningJobs
        <4>3. CountOK(m)'
          BY <2>3, <3>1, <3>5, <3>7, <4>2 DEF CountOK
        <4> QED
          BY <1>5, <3>3, <4>3
      <3> QED
        BY <1>4, <3>6, <3>7
    <2> QED
      BY <1>13, <2>6, <2>7, <2>8
  <1>14. CASE ReportsFailure(m)
    BY <1>14, NothingFails DEF ReportsFailure, Undisturbed, Recorded
  <1> QED
    BY <1>7, <1>8, <1>9, <1>10, <1>11, <1>12, <1>13, <1>14, ManagerEffect

LEMMA NextQueue == Undisturbed /\ IQueue /\ PostsAnswered /\ [Next]_vars => IQueue'
  <1> SUFFICES ASSUME Undisturbed, IQueue, PostsAnswered, [Next]_vars PROVE IQueue'
    OBVIOUS
  <1>1. IRecorded'
    BY NextRecorded DEF Undisturbed, IQueue, IStraight
  <1>2. CASE ApiCrash
    BY <1>2, NothingFails DEF ApiCrash, Undisturbed, IQueue, IStraight, IRecorded
  <1>3. CASE UNCHANGED vars
    BY <1>1, <1>3
    DEF vars, IQueue, IStraight, Straight, ExecutedOpen, RetriedAtRest, QueuedUnsubmitted, Busy,
        QueueCounted, AllCounted, CountOK, Active, Launching, MaxParallelRespected
  <1> QED
    BY <1>2, <1>3, ManagerCounts, JobStepCounts DEF Next, JobStep

LEMMA InitQueue == Init => IQueue
  <1> SUFFICES ASSUME Init PROVE IQueue
    OBVIOUS
  <1>1. IRecorded
    BY InitOK, InitKnown, InitRecorded DEF IRecorded
  <1>2. \A entry \in {NewEntry, AbsentEntry} :
            /\ entry.age = "recent" /\ entry.status \in {"pending", "absent"}
            /\ ~HasActiveStatus(entry)
    BY DEF NewEntry, AbsentEntry, HasActiveStatus
  <1>3. \A j \in Jobs : db[j] \in {NewEntry, AbsentEntry} /\ ~Busy(j)
    BY RestingType DEF Init, JobRunInit, Busy
  <1>4. \A m \in Managers : mgr[m].pc = "sleep" /\ \A j \in Jobs : mgr[m].snap[j] = NotRead
    BY DEF Init, ManagerInit, Sleeping
  <1>5. Straight
    <2>1. RetriedAtRest /\ QueuedUnsubmitted
      BY <1>4 DEF RetriedAtRest, QueuedUnsubmitted, NotRead
    <2>2. api.pc = "idle"
      BY DEF Init, ApiInit, NoRequest
    <2> QED
      BY <1>2, <1>3, <2>1, <2>2 DEF Straight, ExecutedOpen
  <1>6. {j \in Jobs : HasActiveStatus(db[j])} = {}
    BY <1>2, <1>3
  <1>7. MaxParallelRespected
    BY <1>6, FS_EmptySet, MaxParallelAssumption DEF MaxParallelRespected
  <1> QED
    BY <1>1, <1>4, <1>5, <1>7 DEF IQueue, IStraight, QueueCounted

(***************************************************************************)
(* At most MaxParallel jobs are active at a time, whatever pods are killed, *)
(* fail or are started over, although the manager counts the active ones in *)
(* a reading that is a round old: if "watch" is the only manager, nothing   *)
(* is cancelled, forgotten or lost, and each post is answered while the job *)
(* it has created is open.                                                  *)
(***************************************************************************)
THEOREM ParallelLimited == Undisturbed => (Spec /\ []PostsAnswered => []MaxParallelRespected)
  <1> SUFFICES ASSUME Undisturbed PROVE Spec /\ []PostsAnswered => []MaxParallelRespected
    OBVIOUS
  <1>1. Init => IQueue
    BY InitQueue
  <1>2. IQueue /\ PostsAnswered /\ [Next]_vars => IQueue'
    BY NextQueue
  <1>3. IQueue => MaxParallelRespected
    BY DEF IQueue
  <1> QED
    BY <1>1, <1>2, <1>3, PTL DEF Spec

\* Nothing is posted once every job is there.
NoPosts == api.pc # "submit" /\ \A j \in Jobs : Exists(j)

LEMMA InitNoPosts ==
    ASSUME Backlog = Jobs, Init
    PROVE  NoPosts
  <1>1. NewEntry.status # "absent"
    BY DEF NewEntry, AbsentEntry
  <1> QED
    BY <1>1 DEF Init, ApiInit, NoRequest, NoPosts, Exists

LEMMA NextNoPosts ==
    ASSUME Undisturbed, IQueue, NoPosts, [Next]_vars
    PROVE  PostsAnswered /\ NoPosts'
  <1> USE DEF NoPosts
  <1>1. PostsAnswered
    BY DEF PostsAnswered, Handling
  <1>2. ASSUME NEW m \in Managers, ManagerStep(m) PROVE NoPosts'
    <2>1. api' = api
      BY <1>2, ManagerEffect DEF IQueue, IStraight, IRecorded
    <2>2. db' = db \/ \E j \in Jobs : EntryChange(j)
      BY <1>2, ManagerStraight DEF IQueue
    <2> QED
      BY <2>1, <2>2 DEF EntryChange, Exists
  <1>3. ASSUME NEW j \in Jobs, JobStep(j) PROVE NoPosts'
    <2>1. \A i \in Jobs : Exists(i)'
      BY <1>1, <1>3, JobStepStraight DEF EntryChange, Exists, IQueue
    <2>2. api'.pc # "submit"
      BY <1>3, PodsStepOthers, AgeStepOthers, SubmitStepOthers
      DEF JobStep, RequestStep, ApiStep, PostNew, New, CancelRead, CancelWrite, CancelFails,
          NoRequest, IQueue, IStraight, IRecorded
    <2> QED
      BY <2>1, <2>2
  <1>4. ASSUME ApiCrash \/ UNCHANGED vars PROVE NoPosts'
    BY <1>4 DEF ApiCrash, vars, NoRequest, Exists
  <1> QED
    BY <1>1, <1>2, <1>3, <1>4 DEF Next, JobStep

(***************************************************************************)
(* A queue that is worked off, and not added to, keeps the limit without    *)
(* any promise about posts.                                                 *)
(***************************************************************************)
THEOREM BacklogLimited ==
    Undisturbed /\ Backlog = Jobs => (Spec => []MaxParallelRespected)
  <1> SUFFICES ASSUME Undisturbed, Backlog = Jobs PROVE Spec => []MaxParallelRespected
    OBVIOUS
  <1>1. Init => IQueue /\ NoPosts
    BY InitQueue, InitNoPosts
  <1>2. IQueue /\ NoPosts /\ [Next]_vars => (IQueue /\ NoPosts)'
    BY NextQueue, NextNoPosts
  <1>3. IQueue /\ NoPosts => MaxParallelRespected
    BY DEF IQueue
  <1> QED
    BY <1>1, <1>2, <1>3, PTL DEF Spec

-----------------------------------------------------------------------------
(***************************************************************************)
(* The hub is a JobLifecycle.                                               *)
(***************************************************************************)
LEMMA WorkingIsActive == Lifecycle!Working = Active
  BY DEF Lifecycle!Working, Life, LifeOf, Active, HasActiveStatus, IsQueued, Exists

LEMMA EntryChangeMoves ==
    ASSUME Undisturbed, IQueue, PostsAnswered, NEW j \in Jobs, EntryChange(j)
    PROVE  Life' = Life \/ Lifecycle!Next
  <1>1. Life' = [Life EXCEPT ![j] = LifeOf(j)'] /\ Life[j] = LifeOf(j)
    <2>1. \A i \in Jobs \ {j} : LifeOf(i)' = LifeOf(i)
      BY DEF EntryChange, LifeOf, Exists
    <2> QED
      BY <2>1 DEF Life
  <1>2. /\ LifeOf(j) = "none" => LifeOf(j)' \in {"none", "waiting"}
        /\ LifeOf(j)' = "none" => LifeOf(j) = "none"
        /\ LifeOf(j)' = "waiting" =>
              \/ LifeOf(j) \in {"none", "waiting"}
              \/ LifeOf(j) = "working" /\ j \in Unanswered
        /\ {LifeOf(j), LifeOf(j)'} \subseteq {"none", "waiting", "working", "over"}
    <2>1. LifeOf(j) \in {"none", "waiting", "working", "over"}
      BY DEF LifeOf
    <2>2. LifeOf(j)' \in {"none", "waiting", "working", "over"}
      BY DEF LifeOf
    <2>3. /\ LifeOf(j) = "none" <=> ~Exists(j)
          /\ LifeOf(j)' = "none" <=> ~Exists(j)'
      BY DEF LifeOf, Exists, IsQueued, HasActiveStatus
    <2>4. IsQueued(db'[j]) => Exists(j)'
      BY DEF IsQueued, Exists
    <2>5. /\ LifeOf(j) = "waiting" <=> Exists(j) /\ IsQueued(db[j])
          /\ LifeOf(j)' = "waiting" <=> Exists(j)' /\ IsQueued(db'[j])
      BY DEF LifeOf, Exists, IsQueued, HasActiveStatus
    <2>6. IsQueued(db'[j]) => \/ ~Exists(j) \/ IsQueued(db[j])
                              \/ LifeOf(j) \in {"waiting", "working"} /\ j \in Unanswered
      BY DEF EntryChange, PostsAnswered, Open, Unanswered, LifeOf, HasActiveStatus, IsQueued
    <2>7. ~Exists(j) => (Exists(j)' <=> IsQueued(db'[j]))
      BY <2>4 DEF EntryChange, Exists
    <2> QED
      BY <2>1, <2>2, <2>3, <2>5, <2>6, <2>7 DEF EntryChange
  <1>3. ASSUME LifeOf(j)' = "working", LifeOf(j) # "working" PROVE Lifecycle!Room
    <2>1. j \in Active' \ Active
      BY <1>3 DEF LifeOf, Active, HasActiveStatus, IsQueued, Exists
    <2>2. Cardinality(Active) < MaxParallel
      BY <2>1, LimitStep
    <2>3. Lifecycle!Room <=> Cardinality(Lifecycle!Working) < MaxParallel
      BY DEF Lifecycle!Room, Cardinality, Lifecycle!Cardinality, IsFiniteSet,
             Lifecycle!IsFiniteSet
    <2> QED
      BY <2>2, <2>3, WorkingIsActive
  <1>4. CASE LifeOf(j)' = LifeOf(j)
    BY <1>1, <1>4 DEF Life
  <1>5. CASE LifeOf(j)' = "waiting" /\ LifeOf(j) = "none"
    BY <1>1, <1>5 DEF Lifecycle!Next, Lifecycle!Accept, Lifecycle!Moves
  <1>6. CASE LifeOf(j)' = "working" /\ LifeOf(j) \in {"waiting", "over"}
    BY <1>1, <1>3, <1>6
    DEF Lifecycle!Next, Lifecycle!Start, Lifecycle!Reopen, Lifecycle!Moves
  <1>7. CASE LifeOf(j)' = "over" /\ LifeOf(j) \in {"waiting", "working"}
    BY <1>1, <1>7 DEF Lifecycle!Next, Lifecycle!End, Lifecycle!Moves
  <1>8. CASE LifeOf(j)' = "waiting" /\ LifeOf(j) = "working" /\ j \in Unanswered
    BY <1>1, <1>8 DEF Lifecycle!Next, Lifecycle!Requeue, Lifecycle!Moves
  <1> QED
    BY <1>2, <1>4, <1>5, <1>6, <1>7, <1>8

LEMMA NextMoves ==
    Undisturbed /\ IQueue /\ PostsAnswered /\ [Next]_vars
        => IQueue' /\ [Lifecycle!Next]_Life
  <1> SUFFICES ASSUME Undisturbed, IQueue, PostsAnswered, [Next]_vars
               PROVE  IQueue' /\ [Lifecycle!Next]_Life
    OBVIOUS
  <1>2. IQueue'
    BY NextQueue
  <1>3. db' = db => Life' = Life
    BY DEF Life, LifeOf, Exists
  <1>4. \/ db' = db
        \/ \E j \in Jobs : EntryChange(j)
    BY ManagerStraight, JobStepStraight DEF Next, JobStep, ApiCrash, vars, IQueue
  <1> QED
    BY <1>2, <1>3, <1>4, EntryChangeMoves

LEMMA InitMoves == Init => Lifecycle!Init
  <1> SUFFICES ASSUME Init PROVE Lifecycle!Init
    OBVIOUS
  <1>1. ASSUME NEW j \in Jobs PROVE LifeOf(j) \in {"none", "waiting"}
    <2>1. AbsentEntry.status = "absent" /\ IsQueued(NewEntry)
      BY DEF IsQueued, NewEntry, AbsentEntry
    <2>3. ~HasActiveStatus(NewEntry) /\ NewEntry.status # "absent"
      BY DEF HasActiveStatus, NewEntry, AbsentEntry
    <2>2. db[j] = AbsentEntry \/ db[j] = NewEntry
      BY DEF Init
    <2>4. CASE db[j] = AbsentEntry
      BY <2>1, <2>4 DEF LifeOf, Exists, IsQueued, HasActiveStatus
    <2>5. CASE db[j] = NewEntry
      BY <2>1, <2>3, <2>5 DEF LifeOf, Exists
    <2> QED
      BY <2>2, <2>4, <2>5
  <1> QED
    BY <1>1 DEF Lifecycle!Init, Life

(***************************************************************************)
(* A job is worked on only while there is room.  It goes back to the queue  *)
(* only if its post is still being answered: NotifyPending() is the one     *)
(* step that puts it back.  One that is over may be started over by the     *)
(* manager.                                                                 *)
(***************************************************************************)
THEOREM QueueImplementsLifecycle ==
    Undisturbed => (Spec /\ []PostsAnswered => Lifecycle!Spec)
  <1> SUFFICES ASSUME Undisturbed PROVE Spec /\ []PostsAnswered => Lifecycle!Spec
    OBVIOUS
  <1> QED
    BY InitMoves, InitQueue, NextMoves, PTL DEF Spec, Lifecycle!Spec

(***************************************************************************)
(* The safety part of QueueIsWorkedOff: when no job is posted any more, the *)
(* hub is a JobLifecycle without any promise about posts, and then no job   *)
(* goes back to the queue.                                                  *)
(***************************************************************************)
THEOREM BacklogImplementsLifecycle ==
    Undisturbed /\ Backlog = Jobs => (Spec => Lifecycle!Spec /\ [](Unanswered = {}))
  <1> SUFFICES ASSUME Undisturbed, Backlog = Jobs
               PROVE  Spec => Lifecycle!Spec /\ [](Unanswered = {})
    OBVIOUS
  <1>1. Init => IQueue /\ NoPosts /\ Lifecycle!Init
    BY InitQueue, InitNoPosts, InitMoves
  <1>2. IQueue /\ NoPosts /\ [Next]_vars => (IQueue /\ NoPosts)' /\ [Lifecycle!Next]_Life
    BY NextMoves, NextNoPosts
  <1>3. NoPosts => Unanswered = {}
    BY DEF NoPosts, Unanswered, Handling
  <1> QED
    BY <1>1, <1>2, <1>3, PTL DEF Spec, Lifecycle!Spec

=============================================================================
