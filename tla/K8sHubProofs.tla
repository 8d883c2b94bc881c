---------------------------- MODULE K8sHubProofs ----------------------------
(***************************************************************************)
(* Proofs about K8sHub: the types, and the limit on k8s_attempts, for every *)
(* number of jobs, retries, managers, lost calls, crashes and killed pods.  *)
(***************************************************************************)
EXTENDS K8sHub, PartsProofs, FiniteSetTheorems

(***************************************************************************)
(* The inductive invariant.  An entry that was never submitted has no       *)
(* attempts; what a round has read keeps within the limit, and what it is   *)
(* about to submit is below it.  A pod runs only while its Kubernetes job   *)
(* is active, and an active job has retries left.                           *)
(***************************************************************************)
EntryOK(entry) ==
    /\ entry.k8s_attempts <= RetryTimes + 1
    /\ ~entry.submitted_to_k8s => entry.k8s_attempts = 0

EntriesOK == \A j \in Jobs : EntryOK(db[j])

RoundOK(r) ==
    /\ r \in Round
    /\ r.pc \notin {"sleep", "loop"} => r.cur \in Jobs
    /\ \A j \in Jobs : r.snap[j].k8s_attempts <= RetryTimes + 1
    /\ \A j \in Jobs : r.snap[j].kind = "queued" => r.snap[j].k8s_attempts = 0
    /\ r.phase = "submit" => \A j \in r.todo : r.snap[j].kind = "queued"
    /\ r.pc \in {"retrying", "create", "record"} =>
          r.snap[r.cur].k8s_attempts <= RetryTimes

RoundsOK == \A m \in Managers : RoundOK(mgr[m])

ClusterOK ==
    \A j \in Jobs :
        /\ kjob[j].state = "active" => kjob[j].failures <= RetryTimes
        /\ run[j].pc # "idle" => kjob[j].state = "active"

IInv == TypeOK /\ RunOK /\ EntriesOK /\ RoundsOK /\ ClusterOK

-----------------------------------------------------------------------------
(***************************************************************************)
(* What the steps of a round make of its record.                            *)
(***************************************************************************)
LEMMA ReadType ==
    ASSUME NEW entry \in Entry, EntryOK(entry)
    PROVE  /\ Read(entry) \in Reading
           /\ Read(entry).k8s_attempts <= RetryTimes + 1
           /\ Read(entry).kind = "queued" => Read(entry).k8s_attempts = 0
  <1>1. NotRead \in Reading /\ NotRead.k8s_attempts = 0 /\ NotRead.kind = "other"
    BY DEF NotRead, Reading
  <1>2. (entry.dask_dashboard_link # None) \in BOOLEAN
    OBVIOUS
  <1>3. CASE HasActiveStatus(entry)
    BY <1>1, <1>2, <1>3, RetryTimesAssumption DEF Read, Open, Reading, Entry, Ages, EntryOK
  <1>4. CASE ~HasActiveStatus(entry) /\ IsQueued(entry)
    BY <1>1, <1>2, <1>4, RetryTimesAssumption DEF Read, Open, Reading, Entry, Ages, EntryOK, IsQueued
  <1>5. CASE ~HasActiveStatus(entry) /\ ~IsQueued(entry)
    BY <1>1, <1>5, RetryTimesAssumption DEF Read, Open
  <1> QED
    BY <1>3, <1>4, <1>5

LEMMA SleepingOK == RoundOK(Sleeping)
  BY RetryTimesAssumption DEF RoundOK, Sleeping, Round, Reading, NotRead

LEMMA ContinueOK ==
    ASSUME NEW r, RoundOK(r)
    PROVE  RoundOK(Continue(r))
  BY DEF RoundOK, Continue, Round

LEMMA CountedOK ==
    ASSUME NEW r, RoundOK(r)
    PROVE  RoundOK(Counted(r))
  BY DEF RoundOK, Counted, Round

\* A round may replace its reading of the job it is at, once it is done with it.
LEMMA ReplacedOK ==
    ASSUME NEW r, RoundOK(r), r.cur \in Jobs,
           NEW x \in Reading, x.k8s_attempts <= RetryTimes + 1,
           x.kind = "queued" => x.k8s_attempts = 0,
           NEW s \in Round, s.cur = r.cur, s.phase = r.phase, s.todo = r.todo,
           s.snap = [r.snap EXCEPT ![r.cur] = x]
    PROVE  RoundOK(Continue(s))
  <1> DEFINE t == Continue(s)
  <1>1. /\ t \in Round /\ t.pc = "loop" /\ t.cur = None /\ t.phase = r.phase
        /\ t.todo = r.todo \ {r.cur} /\ t.snap = [r.snap EXCEPT ![r.cur] = x]
    BY DEF Continue, Round
  <1> HIDE DEF t
  <1>2. r.snap \in [Jobs -> Reading] /\ r.todo \subseteq Jobs
    BY DEF RoundOK, Round
  <1>3. t.snap[r.cur] = x /\ \A j \in Jobs \ {r.cur} : t.snap[j] = r.snap[j]
    BY <1>1, <1>2
  <1>4. RoundOK(t)
    BY <1>1, <1>2, <1>3 DEF RoundOK
  <1> QED
    BY <1>4 DEF t

LEMMA RoundsChange ==
    ASSUME RoundsOK, mgr \in [Managers -> Round], NEW m \in Managers, NEW r, RoundOK(r),
           MgrTo(m, r)
    PROVE  RoundsOK' /\ mgr' \in [Managers -> Round]
  BY DEF RoundsOK, MgrTo, RoundOK

(***************************************************************************)
(* A step of a manager that leaves the cluster and the pods alone keeps the *)
(* invariant if what it writes does.                                        *)
(***************************************************************************)
LEMMA RoundStepOK ==
    ASSUME IInv, NEW m \in Managers, NEW r, RoundOK(r), MgrTo(m, r),
           db' \in [Jobs -> Entry], EntriesOK',
           faults' \in 0..MaxFaults, crashes' \in 0..MaxCrashes,
           UNCHANGED <<run, kjob, kills, api>>
    PROVE  IInv'
  <1>1. RoundsOK' /\ mgr' \in [Managers -> Round]
    BY RoundsChange DEF IInv, TypeOK, ManagerTypeOK
  <1>2. RunOK' /\ ClusterOK'
    BY DEF IInv, RunOK, JobRunTypeOK, Busy, ClusterOK
  <1>3. TypeOK'
    BY <1>1, <1>2 DEF IInv, TypeOK, StatusHandlerTypeOK, RunOK, KubernetesTypeOK,
                      ManagerTypeOK, ApiTypeOK
  <1> QED
    BY <1>1, <1>2, <1>3 DEF IInv

\* ... in particular if it writes nothing to the registry.
LEMMA SilentStepOK ==
    ASSUME IInv, NEW m \in Managers, NEW r, RoundOK(r), MgrTo(m, r),
           faults' \in 0..MaxFaults, crashes' \in 0..MaxCrashes,
           UNCHANGED <<db, run, kjob, kills, api>>
    PROVE  IInv'
  <1>1. db' \in [Jobs -> Entry] /\ EntriesOK'
    BY DEF IInv, TypeOK, StatusHandlerTypeOK, EntriesOK
  <1> QED
    BY <1>1, RoundStepOK

\* ... or if it writes a status.
LEMMA SetStatusEntriesOK ==
    ASSUME IInv, NEW j \in Jobs, NEW s \in Status, SetStatus(j, s)
    PROVE  db' \in [Jobs -> Entry] /\ EntriesOK'
  <1>1. /\ db' \in [Jobs -> Entry]
        /\ \A i \in Jobs \ {j} : db'[i] = db[i]
        /\ db'[j].submitted_to_k8s = db[j].submitted_to_k8s
        /\ db'[j].k8s_attempts = db[j].k8s_attempts
    BY SetStatusOK DEF IInv, TypeOK
  <1>2. EntriesOK'
    BY <1>1 DEF IInv, EntriesOK, EntryOK
  <1> QED
    BY <1>1, <1>2

LEMMA Budgets ==
    ASSUME IInv
    PROVE  /\ faults \in 0..MaxFaults /\ crashes \in 0..MaxCrashes
           /\ Fault => faults' \in 0..MaxFaults
  BY FaultOK DEF IInv, TypeOK, StatusHandlerTypeOK, ManagerTypeOK

-----------------------------------------------------------------------------
(***************************************************************************)
(* The steps of a round, those of retry_stalled_jobs() first.               *)
(***************************************************************************)
LEMMA FetchOK ==
    ASSUME IInv, NEW m \in Managers, Fetch(m), UNCHANGED api
    PROVE  IInv'
  <1> DEFINE snap == [j \in Jobs |-> Read(db[j])]
             r == [Sleeping EXCEPT !.pc = "loop", !.snap = snap, !.todo = RunningJobs(snap)]
  <1>1. \A j \in Jobs : /\ snap[j] \in Reading
                        /\ snap[j].k8s_attempts <= RetryTimes + 1
                        /\ snap[j].kind = "queued" => snap[j].k8s_attempts = 0
    BY ReadType DEF IInv, TypeOK, StatusHandlerTypeOK, EntriesOK
  <1>2. snap \in [Jobs -> Reading]
    BY <1>1
  <1>3. MgrTo(m, r)
    BY DEF Fetch
  <1> HIDE DEF snap
  <1>4. RunningJobs(snap) \subseteq Jobs
    BY DEF RunningJobs
  <1>5. RoundOK(r)
    BY <1>1, <1>2, <1>4 DEF RoundOK, Sleeping, Round
  <1> HIDE DEF r
  <1> QED
    BY <1>3, <1>5, Budgets, SilentStepOK DEF Fetch, StaysHere

LEMMA StallOK ==
    ASSUME IInv, NEW m \in Managers, NEW j \in Jobs, UNCHANGED api,
           NotStalled(m, j) \/ Stalled(m, j) \/ DashboardError(m, j)
    PROVE  IInv'
  <1>1. RoundOK(mgr[m])
    BY DEF IInv, RoundsOK
  <1>2. CASE NotStalled(m, j)
    <2> DEFINE r == [mgr[m] EXCEPT !.todo = @ \ {j}]
    <2>1. RoundOK(r)
      BY <1>1 DEF RoundOK, Round
    <2>2. MgrTo(m, r)
      BY <1>2 DEF NotStalled
    <2> HIDE DEF r
    <2> QED
      BY <1>2, <2>1, <2>2, Budgets, SilentStepOK DEF NotStalled, StaysHere
  <1>3. CASE Stalled(m, j)
    <2> DEFINE r == [mgr[m] EXCEPT !.pc = "stalled", !.cur = j]
    <2>1. RoundOK(r)
      BY <1>1 DEF RoundOK, Round
    <2>2. MgrTo(m, r)
      BY <1>3 DEF Stalled
    <2> HIDE DEF r
    <2> QED
      BY <1>3, <2>1, <2>2, Budgets, SilentStepOK DEF Stalled, StaysHere
  <1>4. CASE DashboardError(m, j)
    BY <1>4, SleepingOK, Budgets, SilentStepOK DEF DashboardError, StaysHere
  <1> QED
    BY <1>2, <1>3, <1>4

LEMMA AskClusterOK ==
    ASSUME IInv, NEW m \in Managers, AskCluster(m) \/ AskRaises(m), UNCHANGED api
    PROVE  IInv'
  <1>1. RoundOK(mgr[m])
    BY DEF IInv, RoundsOK
  <1> DEFINE r == [mgr[m] EXCEPT !.pc = "retry"]
  <1>2. RoundOK(r)
    BY <1>1 DEF AskCluster, AskRaises, RoundOK, Round
  <1>3. MgrTo(m, r) \/ MgrTo(m, Continue(mgr[m])) \/ MgrTo(m, Sleeping)
    <2>1. CASE AskCluster(m)
      <3>1. CASE IsFailedOrGone(mgr[m].cur, mgr[m].snap[mgr[m].cur].submitted_to_k8s)
        BY <2>1, <3>1 DEF AskCluster
      <3>2. CASE ~IsFailedOrGone(mgr[m].cur, mgr[m].snap[mgr[m].cur].submitted_to_k8s)
        BY <2>1, <3>2 DEF AskCluster
      <3> QED
        BY <3>1, <3>2
    <2>2. CASE AskRaises(m)
      BY <2>2 DEF AskRaises
    <2> QED
      BY <2>1, <2>2
  <1> HIDE DEF r
  <1> QED
    BY <1>1, <1>2, <1>3, ContinueOK, SleepingOK, Budgets, SilentStepOK
    DEF AskCluster, AskRaises, StaysHere

LEMMA RetryOK ==
    ASSUME IInv, NEW m \in Managers, UNCHANGED api,
           RetryExhausted(m) \/ RetryCheck(m) \/ RetryWrite(m) \/ ObserversFail(m)
    PROVE  IInv'
  <1>1. RoundOK(mgr[m])
    BY DEF IInv, RoundsOK
  <1>2. mgr[m].cur \in Jobs
    BY <1>1 DEF RetryExhausted, RetryCheck, RetryWrite, ObserversFail, RoundOK
  <1>3. PICK j \in Jobs : j = mgr[m].cur
    BY <1>2
  <1>4. CASE RetryExhausted(m)
    <2> DEFINE s == [mgr[m] EXCEPT !.snap[j] = NotRead]
    <2>1. NotRead \in Reading /\ NotRead.k8s_attempts = 0
      BY DEF NotRead, Reading
    <2>2. /\ s \in Round /\ s.cur = mgr[m].cur /\ s.phase = mgr[m].phase
          /\ s.todo = mgr[m].todo /\ s.snap = [mgr[m].snap EXCEPT ![mgr[m].cur] = NotRead]
      BY <1>1, <1>3, <2>1 DEF RoundOK, Round
    <2>3. MgrTo(m, Continue(s))
      BY <1>3, <1>4 DEF RetryExhausted
    <2> HIDE DEF s
    <2>4. RoundOK(Continue(s))
      BY <1>1, <1>2, <2>1, <2>2, RetryTimesAssumption, ReplacedOK
    <2>5. SetStatus(j, "failed") /\ "failed" \in Status
      BY <1>3, <1>4 DEF RetryExhausted, Status
    <2> QED
      BY <1>4, <2>3, <2>4, <2>5, SetStatusEntriesOK, Budgets, RoundStepOK
      DEF RetryExhausted, StaysHere
  <1>5. CASE RetryCheck(m)
    <2> DEFINE r == [mgr[m] EXCEPT !.pc = "retrying"]
    <2>1. mgr[m].snap[j].k8s_attempts <= RetryTimes
      BY <1>1, <1>3, <1>5, RetryTimesAssumption
      DEF RetryCheck, RemainingRetries, RoundOK, Round, Reading
    <2>2. RoundOK(r)
      BY <1>1, <1>2, <1>3, <2>1 DEF RoundOK, Round
    <2>3. MgrTo(m, r) \/ MgrTo(m, Continue(mgr[m]))
      BY <1>5 DEF RetryCheck
    <2> HIDE DEF r
    <2> QED
      BY <1>1, <1>5, <2>2, <2>3, ContinueOK, Budgets, SilentStepOK DEF RetryCheck, StaysHere
  <1>6. CASE RetryWrite(m)
    <2> DEFINE r == [mgr[m] EXCEPT !.pc = "create"]
               e == Written(db[j], "retrying")
    <2>1. RoundOK(r)
      BY <1>1, <1>6 DEF RetryWrite, RoundOK, Round
    <2>2. MgrTo(m, r) /\ db' = [db EXCEPT ![j] = e]
      BY <1>3, <1>6 DEF RetryWrite
    <2>3. /\ e \in Entry
          /\ e.submitted_to_k8s = db[j].submitted_to_k8s
          /\ e.k8s_attempts = db[j].k8s_attempts
      BY WrittenType DEF IInv, TypeOK, StatusHandlerTypeOK, Notes, ExecuteNotes
    <2> HIDE DEF r, e
    <2>4. db' \in [Jobs -> Entry] /\ EntriesOK'
      BY <2>2, <2>3 DEF IInv, TypeOK, StatusHandlerTypeOK, EntriesOK, EntryOK
    <2> QED
      BY <1>6, <2>1, <2>2, <2>4, Budgets, RoundStepOK DEF RetryWrite, StaysHere
  <1>7. CASE ObserversFail(m)
    BY <1>1, <1>7, ContinueOK, Budgets, SilentStepOK DEF ObserversFail, StaysHere
  <1> QED
    BY <1>4, <1>5, <1>6, <1>7

(***************************************************************************)
(* The steps of submit(), and of the loop of submit_pending_jobs().         *)
(***************************************************************************)
LEMMA CreateOK ==
    ASSUME IInv, NEW j \in Jobs, Create(j), UNCHANGED <<run, kills>>
    PROVE  KubernetesTypeOK' /\ ClusterOK'
  <1> DEFINE k == [state |-> "active", failures |-> 0,
                   launches |-> LaunchCount(kjob[j].launches)]
  <1>1. kjob[j] \in KJob
    BY DEF IInv, TypeOK, KubernetesTypeOK
  <1>2. k \in KJob /\ k.state = "active" /\ k.failures <= RetryTimes
    BY <1>1, RetryTimesAssumption, MaxLaunchesAssumption DEF KJob, LaunchCount
  <1>3. kjob' = [kjob EXCEPT ![j] = k]
    BY DEF Create
  <1> HIDE DEF k
  <1> QED
    BY <1>2, <1>3 DEF IInv, TypeOK, KubernetesTypeOK, ClusterOK

LEMMA SubmittedType ==
    ASSUME NEW entry \in Entry, NEW attempts \in Nat, attempts <= RetryTimes
    PROVE  /\ SetAttributes(entry, SubmittedAttributes(attempts)) \in Entry
           /\ EntryOK(SetAttributes(entry, SubmittedAttributes(attempts)))
  <1> DEFINE new == SubmittedAttributes(attempts)
             e == SetAttributes(entry, new)
             n == attempts + 1
  <1>1. n \in Nat /\ n <= RetryTimes + 1
    BY RetryTimesAssumption
  <1>2. n # None /\ TRUE # None
    BY <1>1, NoneAssumption
  <1>3. new = [NoAttributes EXCEPT !.submitted_to_k8s = TRUE, !.k8s_attempts = n]
    BY DEF SubmittedAttributes
  <1> HIDE DEF n, new
  <1>4. /\ new.status = None /\ new.submitted_to_k8s = TRUE /\ new.k8s_attempts = n
        /\ new.dask_dashboard_link = None /\ new.result = None
    BY <1>3 DEF NoAttributes
  <1>5. /\ e.status = entry.status /\ e.submitted_to_k8s = TRUE /\ e.k8s_attempts = n
        /\ e.dask_dashboard_link = entry.dask_dashboard_link /\ e.result = entry.result
        /\ e.age = "recent"
        /\ e = [status |-> e.status, submitted_to_k8s |-> e.submitted_to_k8s,
                k8s_attempts |-> e.k8s_attempts,
                dask_dashboard_link |-> e.dask_dashboard_link,
                result |-> e.result, age |-> e.age]
    BY <1>2, <1>4 DEF SetAttributes, Given
  <1> HIDE DEF e
  <1>6. e \in Entry
    BY <1>1, <1>5 DEF Entry, Ages
  <1>7. EntryOK(e)
    BY <1>1, <1>5 DEF EntryOK
  <1> QED
    BY <1>6, <1>7 DEF e, new

LEMMA RecordedOK ==
    ASSUME IInv, NEW j \in Jobs, NEW attempts \in Nat, attempts <= RetryTimes,
           Set(j, SubmittedAttributes(attempts))
    PROVE  db' \in [Jobs -> Entry] /\ EntriesOK'
  <1> DEFINE e == SetAttributes(db[j], SubmittedAttributes(attempts))
  <1>1. e \in Entry /\ EntryOK(e)
    BY SubmittedType DEF IInv, TypeOK, StatusHandlerTypeOK
  <1>2. db' = [db EXCEPT ![j] = e]
    BY DEF Set
  <1> HIDE DEF e
  <1> QED
    BY <1>1, <1>2 DEF IInv, TypeOK, StatusHandlerTypeOK, EntriesOK

LEMMA SubmitOK ==
    ASSUME IInv, NEW m \in Managers, UNCHANGED api,
           CreateJob(m) \/ CreateExists(m) \/ Record(m) \/ SubmitFails(m)
             \/ Report(m) \/ ReportFails(m)
    PROVE  IInv'
  <1>1. RoundOK(mgr[m])
    BY DEF IInv, RoundsOK
  <1>2. mgr[m].cur \in Jobs
    BY <1>1 DEF CreateJob, CreateExists, Record, SubmitFails, Report, ReportFails, RoundOK
  <1>3. PICK j \in Jobs : j = mgr[m].cur
    BY <1>2
  <1>4. CASE CreateJob(m)
    <2> DEFINE r == [mgr[m] EXCEPT !.pc = "record"]
    <2>1. RoundOK(r)
      BY <1>1, <1>4 DEF CreateJob, RoundOK, Round
    <2>2. MgrTo(m, r) /\ Create(j)
      BY <1>3, <1>4 DEF CreateJob
    <2> HIDE DEF r
    <2>3. KubernetesTypeOK' /\ ClusterOK'
      BY <1>4, <2>2, CreateOK DEF CreateJob, StaysHere
    <2>4. RoundsOK' /\ mgr' \in [Managers -> Round]
      BY <2>1, <2>2, RoundsChange DEF IInv, TypeOK, ManagerTypeOK
    <2> QED
      BY <1>4, <2>3, <2>4 DEF CreateJob, StaysHere, IInv, TypeOK, StatusHandlerTypeOK,
           RunOK, JobRunTypeOK, Busy, ManagerTypeOK, ApiTypeOK, EntriesOK
  <1>5. CASE CreateExists(m)
    <2>1. RoundOK(Continue(Counted(mgr[m])))
      BY <1>1, CountedOK, ContinueOK
    <2> QED
      BY <1>5, <2>1, Budgets, SilentStepOK DEF CreateExists, StaysHere
  <1>6. CASE Record(m)
    <2>1. /\ mgr[m].snap[j].k8s_attempts \in Nat
          /\ mgr[m].snap[j].k8s_attempts <= RetryTimes
      BY <1>1, <1>3, <1>6 DEF Record, RoundOK, Round, Reading
    <2>2. Set(j, SubmittedAttributes(mgr[m].snap[j].k8s_attempts))
      BY <1>3, <1>6 DEF Record
    <2>3. db' \in [Jobs -> Entry] /\ EntriesOK'
      BY <2>1, <2>2, RecordedOK
    <2>4. PICK x \in Reading : x = Read(db'[j]) /\ x.k8s_attempts <= RetryTimes + 1
                               /\ (x.kind = "queued" => x.k8s_attempts = 0)
      BY <2>3, ReadType DEF EntriesOK
    <2> DEFINE s == [mgr[m] EXCEPT !.snap[j] = x]
    <2>5. /\ s \in Round /\ s.cur = mgr[m].cur /\ s.phase = mgr[m].phase
          /\ s.todo = mgr[m].todo /\ s.snap = [mgr[m].snap EXCEPT ![mgr[m].cur] = x]
      BY <1>1, <1>3 DEF RoundOK, Round
    <2>6. MgrTo(m, Continue(Counted(s)))
      BY <1>3, <1>6, <2>4 DEF Record
    <2> HIDE DEF s
    <2>7. /\ Counted(s) \in Round /\ Counted(s).cur = s.cur /\ Counted(s).phase = s.phase
          /\ Counted(s).todo = s.todo /\ Counted(s).snap = s.snap
      BY <2>5 DEF Counted, Round
    <2>8. RoundOK(Continue(Counted(s)))
      BY <1>1, <1>2, <2>4, <2>5, <2>7, ReplacedOK
    <2> QED
      BY <1>6, <2>3, <2>6, <2>8, Budgets, RoundStepOK DEF Record, StaysHere
  <1>7. CASE SubmitFails(m)
    <2> DEFINE r == [mgr[m] EXCEPT !.pc = "report"]
    <2>1. RoundOK(r)
      BY <1>1, <1>2 DEF RoundOK, Round
    <2>2. MgrTo(m, r)
      BY <1>7 DEF SubmitFails
    <2> HIDE DEF r
    <2> QED
      BY <1>7, <2>1, <2>2, Budgets, SilentStepOK DEF SubmitFails, StaysHere
  <1>8. CASE Report(m)
    <2>1. SetStatus(j, "failed") /\ "failed" \in Status
      BY <1>3, <1>8 DEF Report, Status
    <2> QED
      BY <1>1, <1>8, <2>1, ContinueOK, SetStatusEntriesOK, Budgets, RoundStepOK
      DEF Report, StaysHere
  <1>9. CASE ReportFails(m)
    BY <1>1, <1>9, ContinueOK, Budgets, SilentStepOK DEF ReportFails, StaysHere
  <1> QED
    BY <1>4, <1>5, <1>6, <1>7, <1>8, <1>9

LEMMA LoopOK ==
    ASSUME IInv, NEW m \in Managers, UNCHANGED api,
           \/ StartSubmit(m) \/ CleanEnds(m) \/ SubmitDone(m) \/ Crash(m)
           \/ \E j \in Jobs : SubmitPick(m, j)
    PROVE  IInv'
  <1>1. RoundOK(mgr[m])
    BY DEF IInv, RoundsOK
  <1>2. CASE StartSubmit(m)
    <2> DEFINE snap == mgr[m].snap
               r == [mgr[m] EXCEPT !.phase = "submit", !.todo = QueuedJobs(snap),
                                   !.count = Cardinality(RunningJobs(snap))]
    <2>1. Cardinality(RunningJobs(snap)) \in Nat
      <3>1. IsFiniteSet(RunningJobs(snap))
        BY JobsAssumption, FS_Subset DEF RunningJobs
      <3> QED
        BY <3>1, FS_CardinalityType
    <2>2. QueuedJobs(snap) \subseteq Jobs
          /\ \A j \in QueuedJobs(snap) : snap[j].kind = "queued"
      BY DEF QueuedJobs
    <2>3. RoundOK(r)
      BY <1>1, <1>2, <2>1, <2>2 DEF StartSubmit, RetriesDone, RoundOK, Round
    <2>4. MgrTo(m, r)
      BY <1>2 DEF StartSubmit
    <2> HIDE DEF r
    <2> QED
      BY <1>2, <2>3, <2>4, Budgets, SilentStepOK DEF StartSubmit, StaysHere
  <1>3. CASE CleanEnds(m)
    BY <1>3, SleepingOK, Budgets, SilentStepOK DEF CleanEnds, StaysHere
  <1>4. CASE SubmitDone(m)
    BY <1>4, SleepingOK, Budgets, SilentStepOK DEF SubmitDone, StaysHere
  <1>5. CASE Crash(m)
    <2>1. crashes' \in 0..MaxCrashes
      BY <1>5, Budgets, MaxCrashesAssumption DEF Crash
    <2> QED
      BY <1>5, <2>1, SleepingOK, Budgets, SilentStepOK DEF Crash
  <1>6. ASSUME NEW j \in Jobs, SubmitPick(m, j) PROVE IInv'
    <2> DEFINE r == [mgr[m] EXCEPT !.pc = "create", !.cur = j]
    <2>1. mgr[m].snap[j].kind = "queued"
      BY <1>1, <1>6 DEF SubmitPick, RoundOK
    <2>2. mgr[m].snap[j].k8s_attempts = 0
      BY <1>1, <2>1 DEF RoundOK
    <2>3. mgr[m].snap[j].k8s_attempts <= RetryTimes
      BY <2>2, RetryTimesAssumption
    <2>4. RoundOK(r)
      BY <1>1, <2>3 DEF RoundOK, Round
    <2>5. MgrTo(m, r)
      BY <1>6 DEF SubmitPick
    <2> HIDE DEF r
    <2> QED
      BY <1>6, <2>4, <2>5, Budgets, SilentStepOK DEF SubmitPick, StaysHere
  <1> QED
    BY <1>2, <1>3, <1>4, <1>5, <1>6

LEMMA ManagerStepOK ==
    ASSUME IInv, NEW m \in Managers, ManagerStep(m)
    PROVE  IInv'
  BY FetchOK, StallOK, AskClusterOK, RetryOK, SubmitOK, LoopOK
  DEF ManagerStep, ManagerWorks, ManagerFails


-----------------------------------------------------------------------------
(***************************************************************************)
(* The steps of the cluster and the pods.                                   *)
(***************************************************************************)
LEMMA PodsFrame ==
    ASSUME IInv, UNCHANGED <<mgr, crashes, api>>, StatusHandlerTypeOK', RunOK', EntriesOK',
           KubernetesTypeOK', ClusterOK'
    PROVE  IInv'
  <1>1. RoundsOK' /\ ManagerTypeOK' /\ ApiTypeOK'
    BY DEF IInv, TypeOK, RoundsOK, ManagerTypeOK, ApiTypeOK
  <1> QED
    BY <1>1 DEF IInv, TypeOK, RunOK

\* The registry stays as it is.
LEMMA RegistryFrame ==
    ASSUME IInv, UNCHANGED db, faults' \in 0..MaxFaults
    PROVE  StatusHandlerTypeOK' /\ EntriesOK'
  BY DEF IInv, TypeOK, StatusHandlerTypeOK, EntriesOK

LEMMA RestsOK ==
    ASSUME IInv, NEW j \in Jobs, NEW pc \in {"idle", "raised"},
           run' = [run EXCEPT ![j] = Resting(pc)]
    PROVE  RunOK' /\ run'[j].pc = pc /\ \A i \in Jobs \ {j} : run'[i] = run[i]
  BY RestingType, RunOKChange DEF IInv

\* A pod fails, having rested or coming to rest.
LEMMA PodFailureOK ==
    ASSUME IInv, NEW j \in Jobs, PodFailure(j), kjob[j].state = "active",
           run'[j].pc = "idle", \A i \in Jobs \ {j} : run'[i] = run[i],
           kills' \in 0..MaxKills
    PROVE  KubernetesTypeOK' /\ ClusterOK'
  <1> DEFINE f == kjob[j].failures
             st == IF f < RetryTimes THEN "active" ELSE "failed"
             k == [kjob[j] EXCEPT !.failures = f + 1, !.state = st]
  <1>1. kjob[j] \in KJob /\ f <= RetryTimes
    BY DEF IInv, TypeOK, KubernetesTypeOK, ClusterOK
  <1>2. f \in 0..(RetryTimes + 1)
    BY <1>1 DEF KJob
  <1>3. kjob' = [kjob EXCEPT ![j] = k]
    BY DEF PodFailure
  <1>4. f + 1 \in 0..(RetryTimes + 1) /\ (st = "active" => f + 1 <= RetryTimes)
        /\ st \in {"active", "failed"}
    BY <1>1, <1>2, RetryTimesAssumption
  <1> HIDE DEF f, st
  <1>5. k \in KJob /\ (k.state = "active" => k.failures <= RetryTimes)
    BY <1>1, <1>4 DEF KJob
  <1> HIDE DEF k
  <1> QED
    BY <1>3, <1>5 DEF IInv, TypeOK, KubernetesTypeOK, ClusterOK

\* A pod exits successfully.
LEMMA PodDoneOK ==
    ASSUME IInv, NEW j \in Jobs, PodDone(j), UNCHANGED kills
    PROVE  RunOK' /\ KubernetesTypeOK' /\ ClusterOK'
  <1>1. RunOK' /\ run'[j].pc = "idle" /\ \A i \in Jobs \ {j} : run'[i] = run[i]
    BY RestsOK DEF PodDone
  <1> DEFINE k == [kjob[j] EXCEPT !.state = "complete"]
  <1>2. k \in KJob /\ k.state = "complete"
    BY DEF IInv, TypeOK, KubernetesTypeOK, KJob
  <1>3. kjob' = [kjob EXCEPT ![j] = k]
    BY DEF PodDone
  <1> HIDE DEF k
  <1> QED
    BY <1>1, <1>2, <1>3 DEF IInv, TypeOK, KubernetesTypeOK, ClusterOK

LEMMA PodStepOK ==
    ASSUME IInv, NEW j \in Jobs, PodStep(j), UNCHANGED <<mgr, crashes, api>>
    PROVE  IInv'
  <1>1. CASE PodStart(j)
    <2>1. RunOK' /\ \A i \in Jobs \ {j} : run'[i] = run[i]
      BY <1>1, StartRunOK DEF PodStart, IInv
    <2>2. KubernetesTypeOK' /\ ClusterOK'
      BY <1>1, <2>1 DEF PodStart, PodWaiting, IInv, TypeOK, KubernetesTypeOK, ClusterOK
    <2> QED
      BY <1>1, <2>1, <2>2, Budgets, RegistryFrame, PodsFrame DEF PodStart
  <1>2. CASE PodDeclines(j) \/ PodFinished(j)
    <2>1. PodDone(j) /\ UNCHANGED <<db, faults, kills>>
      BY <1>2 DEF PodDeclines, PodFinished
    <2> QED
      BY <2>1, PodDoneOK, Budgets, RegistryFrame, PodsFrame
  <1>3. CASE PodReadFails(j)
    <2>1. KubernetesTypeOK' /\ ClusterOK'
      BY <1>3, PodFailureOK DEF PodReadFails, PodWaiting, IInv, TypeOK, KubernetesTypeOK
    <2>2. RunOK'
      BY <1>3 DEF PodReadFails, IInv, RunOK, JobRunTypeOK, Busy
    <2> QED
      BY <1>3, <2>1, <2>2, Budgets, RegistryFrame, PodsFrame DEF PodReadFails
  <1>4. CASE PodSetupFails(j)
    <2>1. RunOK' /\ \A i \in Jobs \ {j} : run'[i] = run[i]
      BY <1>4, RestsOK DEF PodSetupFails
    <2>2. KubernetesTypeOK' /\ ClusterOK'
      BY <1>4, <2>1 DEF PodSetupFails, PodWaiting, IInv, TypeOK, KubernetesTypeOK, ClusterOK
    <2> QED
      BY <1>4, <2>1, <2>2, Budgets, RegistryFrame, PodsFrame DEF PodSetupFails
  <1>5. CASE PodRaised(j) \/ PodRaisedUnreported(j)
    <2>1. kjob[j].state = "active"
      BY <1>5 DEF PodRaised, PodRaisedUnreported, IInv, ClusterOK
    <2>2. RunOK' /\ run'[j].pc = "idle" /\ \A i \in Jobs \ {j} : run'[i] = run[i]
      BY <1>5, RestsOK DEF PodRaised, PodRaisedUnreported
    <2>3. KubernetesTypeOK' /\ ClusterOK'
      BY <1>5, <2>1, <2>2, PodFailureOK
      DEF PodRaised, PodRaisedUnreported, IInv, TypeOK, KubernetesTypeOK
    <2>4. StatusHandlerTypeOK' /\ EntriesOK'
      <3>1. CASE PodRaised(j)
        <4>1. SetStatus(j, "failed") /\ "failed" \in Status
          BY <3>1 DEF PodRaised, Status
        <4> QED
          BY <3>1, <4>1, SetStatusEntriesOK, Budgets DEF PodRaised, StatusHandlerTypeOK
      <3>2. CASE PodRaisedUnreported(j)
        BY <3>2, Budgets, RegistryFrame DEF PodRaisedUnreported
      <3> QED
        BY <1>5, <3>1, <3>2
    <2> QED
      BY <2>2, <2>3, <2>4, PodsFrame
  <1> QED
    BY <1>1, <1>2, <1>3, <1>4, <1>5 DEF PodStep

LEMMA PodsStepOK ==
    ASSUME IInv, NEW j \in Jobs, PodsStep(j)
    PROVE  IInv'
  <1>1. UNCHANGED <<mgr, crashes, api>>
    BY DEF PodsStep
  <1>2. CASE PodStep(j)
    BY <1>1, <1>2, PodStepOK
  <1>3. CASE PodKilled(j)
    <2>1. RunOK' /\ run'[j].pc = "idle" /\ \A i \in Jobs \ {j} : run'[i] = run[i]
      BY <1>3, RestsOK DEF PodKilled
    <2>2. kills' \in 0..MaxKills
      BY <1>3, MaxKillsAssumption DEF PodKilled, IInv, TypeOK, KubernetesTypeOK
    <2>3. KubernetesTypeOK' /\ ClusterOK'
      BY <1>3, <2>1, <2>2, PodFailureOK DEF PodKilled
    <2> QED
      BY <1>1, <1>3, <2>1, <2>3, Budgets, RegistryFrame, PodsFrame DEF PodKilled
  <1>4. CASE Removed(j)
    <2> DEFINE k == [kjob[j] EXCEPT !.state = "none", !.failures = 0]
    <2>1. k \in KJob /\ k.state = "none"
      <3>1. kjob[j] \in KJob
        BY DEF IInv, TypeOK, KubernetesTypeOK
      <3>2. 0 \in 0..(RetryTimes + 1)
        BY RetryTimesAssumption
      <3> QED
        BY <3>1, <3>2 DEF KJob
    <2>2. kjob' = [kjob EXCEPT ![j] = k]
      BY <1>4 DEF Removed
    <2> HIDE DEF k
    <2>3. KubernetesTypeOK' /\ ClusterOK'
      BY <1>4, <2>1, <2>2 DEF Removed, IInv, TypeOK, KubernetesTypeOK, ClusterOK
    <2>4. RunOK'
      BY <1>4 DEF Removed, IInv, RunOK, JobRunTypeOK, Busy
    <2> QED
      BY <1>1, <1>4, <2>3, <2>4, Budgets, RegistryFrame, PodsFrame DEF Removed
  <1>5. CASE JobRunStep(j) /\ UNCHANGED <<kjob, kills>>
    <2>1. /\ StatusHandlerTypeOK' /\ RunOK' /\ Busy(j)
          /\ \A i \in Jobs \ {j} : run'[i] = run[i] /\ db'[i] = db[i]
          /\ db'[j].submitted_to_k8s = db[j].submitted_to_k8s
          /\ db'[j].k8s_attempts = db[j].k8s_attempts
      BY <1>5, JobRunStepOK DEF IInv, TypeOK
    <2>2. EntriesOK'
      BY <2>1 DEF IInv, EntriesOK, EntryOK
    <2>3. KubernetesTypeOK' /\ ClusterOK'
      BY <1>5, <2>1 DEF IInv, TypeOK, KubernetesTypeOK, ClusterOK, Busy
    <2> QED
      BY <1>1, <2>1, <2>2, <2>3, PodsFrame
  <1> QED
    BY <1>2, <1>3, <1>4, <1>5 DEF PodsStep, ClusterStep

-----------------------------------------------------------------------------
(***************************************************************************)
(* The steps of the server, and time.                                       *)
(***************************************************************************)
LEMMA ServerFrame ==
    ASSUME IInv, UNCHANGED <<run, kills, mgr>>, crashes' \in 0..MaxCrashes,
           StatusHandlerTypeOK', EntriesOK', KubernetesTypeOK', ClusterOK', ApiTypeOK'
    PROVE  IInv'
  <1>1. RoundsOK' /\ ManagerTypeOK'
    BY DEF IInv, TypeOK, RoundsOK, ManagerTypeOK
  <1>2. RunOK' /\ JobRunTypeOK'
    BY DEF IInv, RunOK, JobRunTypeOK, Busy
  <1> QED
    BY <1>1, <1>2 DEF IInv, TypeOK

LEMMA ClusterFrame ==
    ASSUME IInv, UNCHANGED <<run, kjob, kills>>
    PROVE  KubernetesTypeOK' /\ ClusterOK'
  BY DEF IInv, TypeOK, KubernetesTypeOK, ClusterOK

LEMMA NoRequestType == NoRequest \in Request
  BY DEF NoRequest, Request, ApiStages

LEMMA RequestStepOK ==
    ASSUME IInv, NEW j \in Jobs, RequestStep(j)
    PROVE  IInv'
  <1>1. /\ StatusHandlerTypeOK' /\ ApiTypeOK'
        /\ \A i \in Jobs \ {j} : db'[i] = db[i]
        /\ \/ db'[j] = db[j]
           \/ /\ db'[j].submitted_to_k8s = db[j].submitted_to_k8s
              /\ db'[j].k8s_attempts = db[j].k8s_attempts
           \/ db'[j].k8s_attempts = 0
    BY ApiStepOK DEF RequestStep, IInv, TypeOK
  <1>2. EntriesOK'
    BY <1>1, RetryTimesAssumption DEF IInv, EntriesOK, EntryOK
  <1> QED
    BY <1>1, <1>2, ClusterFrame, Budgets, ServerFrame DEF RequestStep

LEMMA SubmitStepOK ==
    ASSUME IInv, NEW j \in Jobs, SubmitStep(j)
    PROVE  IInv'
  <1>1. CASE NotifyPending(j)
    <2>1. SetStatus(j, "pending") /\ "pending" \in Status
      BY <1>1 DEF NotifyPending, Status
    <2>2. StatusHandlerTypeOK' /\ EntriesOK' /\ ApiTypeOK'
      BY <1>1, <2>1, SetStatusEntriesOK, Budgets, NoRequestType
      DEF NotifyPending, StatusHandlerTypeOK, ApiTypeOK
    <2> QED
      BY <1>1, <2>2, ClusterFrame, Budgets, ServerFrame DEF NotifyPending
  <1>2. CASE ApiCreate(j)
    <2>1. ApiTypeOK'
      BY <1>2 DEF ApiCreate, IInv, TypeOK, ApiTypeOK, Request, ApiStages
    <2> QED
      BY <1>2, <2>1, CreateOK, RegistryFrame, Budgets, ServerFrame DEF ApiCreate
  <1>3. CASE ApiCreateExists(j)
    <2>1. ApiTypeOK'
      BY <1>3, NoRequestType DEF ApiCreateExists, ApiTypeOK
    <2> QED
      BY <1>3, <2>1, ClusterFrame, RegistryFrame, Budgets, ServerFrame DEF ApiCreateExists
  <1>4. CASE ApiRecord(j)
    <2>1. NewEntry.k8s_attempts = 0
      BY DEF NewEntry, AbsentEntry
    <2>2. Set(j, SubmittedAttributes(0))
      BY <1>4, <2>1 DEF ApiRecord
    <2>3. StatusHandlerTypeOK' /\ EntriesOK' /\ ApiTypeOK'
      BY <1>4, <2>2, RecordedOK, RetryTimesAssumption, Budgets, NoRequestType
      DEF ApiRecord, StatusHandlerTypeOK, ApiTypeOK
    <2> QED
      BY <1>4, <2>3, ClusterFrame, Budgets, ServerFrame DEF ApiRecord
  <1>5. CASE ApiSubmitFails(j)
    <2>1. faults' \in 0..MaxFaults
      BY <1>5, Budgets DEF ApiSubmitFails
    <2>2. StatusHandlerTypeOK' /\ EntriesOK'
      <3>1. CASE SetStatus(j, "failed")
        <4>1. "failed" \in Status
          BY DEF Status
        <4> QED
          BY <2>1, <3>1, <4>1, SetStatusEntriesOK DEF StatusHandlerTypeOK
      <3>2. CASE UNCHANGED db
        BY <2>1, <3>2, RegistryFrame
      <3> QED
        BY <1>5, <3>1, <3>2 DEF ApiSubmitFails
    <2>3. ApiTypeOK'
      BY <1>5, NoRequestType DEF ApiSubmitFails, ApiTypeOK
    <2> QED
      BY <1>5, <2>2, <2>3, ClusterFrame, Budgets, ServerFrame DEF ApiSubmitFails
  <1> QED
    BY <1>1, <1>2, <1>3, <1>4, <1>5 DEF SubmitStep

LEMMA ApiCrashOK ==
    ASSUME IInv, ApiCrash
    PROVE  IInv'
  <1>1. crashes' \in 0..MaxCrashes
    BY Budgets, MaxCrashesAssumption DEF ApiCrash
  <1>2. ApiTypeOK'
    BY NoRequestType DEF ApiCrash, ApiTypeOK
  <1> QED
    BY <1>1, <1>2, ClusterFrame, RegistryFrame, Budgets, ServerFrame DEF ApiCrash

LEMMA AgeStepOK ==
    ASSUME IInv, NEW j \in Jobs, AgeStep(j) \/ ExpiryStep(j)
    PROVE  IInv'
  <1> DEFINE e(age) == [db[j] EXCEPT !.age = age]
  <1>0. PICK age \in Ages : db' = [db EXCEPT ![j] = e(age)]
    BY DEF AgeStep, TimePasses, ExpiryStep, Expires, Ages
  <1>1. /\ e(age) \in Entry /\ e(age).submitted_to_k8s = db[j].submitted_to_k8s
        /\ e(age).k8s_attempts = db[j].k8s_attempts
    BY DEF IInv, TypeOK, StatusHandlerTypeOK, Entry
  <1>2. UNCHANGED <<faults, run, kjob, kills, mgr, crashes, api>>
    BY DEF AgeStep, TimePasses, ExpiryStep, Expires
  <1> HIDE DEF e
  <1>3. StatusHandlerTypeOK' /\ EntriesOK'
    BY <1>0, <1>1, <1>2
    DEF IInv, TypeOK, StatusHandlerTypeOK, EntriesOK, EntryOK
  <1>4. ApiTypeOK'
    BY <1>2 DEF IInv, TypeOK, ApiTypeOK
  <1> QED
    BY <1>2, <1>3, <1>4, ClusterFrame, Budgets, ServerFrame

-----------------------------------------------------------------------------
(***************************************************************************)
(* The invariant is inductive.                                              *)
(***************************************************************************)
LEMMA InitOK == Init => IInv
  <1> SUFFICES ASSUME Init PROVE IInv
    OBVIOUS
  <1>1. \A j \in Jobs : db[j] \in Entry /\ EntryOK(db[j])
    <2>1. AbsentEntry \in Entry /\ NewEntry \in Entry
      BY DEF NewEntry, AbsentEntry, Entry, Status, Ages
    <2>2. EntryOK(AbsentEntry) /\ EntryOK(NewEntry)
      <3>1. 0 <= RetryTimes + 1
        BY RetryTimesAssumption
      <3>2. AbsentEntry.k8s_attempts = 0 /\ NewEntry.k8s_attempts = 0
        BY DEF NewEntry, AbsentEntry
      <3> QED
        BY <3>1, <3>2 DEF EntryOK
    <2>3. \A j \in Jobs : db[j] = NewEntry \/ db[j] = AbsentEntry
      BY DEF Init
    <2> QED
      BY <2>1, <2>2, <2>3
  <1>2. StatusHandlerTypeOK /\ EntriesOK
    BY <1>1, MaxFaultsAssumption DEF Init, StatusHandlerTypeOK, EntriesOK
  <1>3. RunOK /\ \A j \in Jobs : run[j].pc = "idle"
    BY RestingType DEF Init, JobRunInit, RunOK, JobRunTypeOK, Busy
  <1>4. KubernetesTypeOK /\ ClusterOK
    BY <1>3, MaxKillsAssumption, RetryTimesAssumption, MaxLaunchesAssumption
    DEF Init, KubernetesInit, KubernetesTypeOK, KJob, NoKJob, ClusterOK
  <1>5. ManagerTypeOK /\ RoundsOK
    BY SleepingOK, MaxCrashesAssumption
    DEF Init, ManagerInit, ManagerTypeOK, RoundsOK, RoundOK
  <1>6. ApiTypeOK
    BY NoRequestType DEF Init, ApiInit, ApiTypeOK
  <1> QED
    BY <1>2, <1>3, <1>4, <1>5, <1>6 DEF IInv, TypeOK, RunOK

LEMMA NextOK == IInv /\ [Next]_vars => IInv'
  <1> SUFFICES ASSUME IInv, [Next]_vars PROVE IInv'
    OBVIOUS
  <1>1. ASSUME NEW m \in Managers, ManagerStep(m) PROVE IInv'
    BY <1>1, ManagerStepOK
  <1>2. ASSUME NEW j \in Jobs, PodsStep(j) \/ RequestStep(j) \/ SubmitStep(j)
                                \/ AgeStep(j) \/ ExpiryStep(j)
        PROVE  IInv'
    BY <1>2, PodsStepOK, RequestStepOK, SubmitStepOK, AgeStepOK
  <1>3. CASE ApiCrash
    BY <1>3, ApiCrashOK
  <1>4. CASE UNCHANGED vars
    <2>1. UNCHANGED <<db, faults, run, kjob, kills, mgr, crashes, api>>
      BY <1>4 DEF vars
    <2>2. ApiTypeOK'
      BY <2>1 DEF IInv, TypeOK, ApiTypeOK
    <2> QED
      BY <2>1, <2>2, ClusterFrame, RegistryFrame, Budgets, ServerFrame
  <1> QED
    BY <1>1, <1>2, <1>3, <1>4 DEF Next

THEOREM Invariance == Spec => []IInv
  BY InitOK, NextOK, PTL DEF Spec

(***************************************************************************)
(* Every variable keeps its type: no failure, crash or kill, in whatever    *)
(* order, makes a round lose the job it is at, or a pod run whose           *)
(* Kubernetes job is over.                                                  *)
(***************************************************************************)
THEOREM TypeCorrect == Spec => []TypeOK
  <1>1. IInv => TypeOK
    BY DEF IInv
  <1> QED
    BY <1>1, Invariance, PTL

(***************************************************************************)
(* No job is tried more often than MHUB_K8S_RETRY_JOB_X_TIMES and once,     *)
(* whatever managers overlap, crash or read too early.                      *)
(***************************************************************************)
THEOREM AttemptsLimited == Spec => []AttemptsWithinLimit
  <1>1. IInv => AttemptsWithinLimit
    BY DEF IInv, EntriesOK, EntryOK, AttemptsWithinLimit
  <1> QED
    BY <1>1, Invariance, PTL

=============================================================================
