------------------------ MODULE DaskExecutorsProofs ------------------------
(***************************************************************************)
(* Proofs about DaskExecutors: what jobs open they close again, in time,    *)
(* for every number of jobs, threads, restarts and failing calls and under  *)
(* all settings.                                                            *)
(***************************************************************************)
EXTENDS DaskExecutors, FiniteSetTheorems, TLAPS

(***************************************************************************)
(* The inductive invariant, job by job.  Where there is no gateway nothing  *)
(* but a client and an executor is ever open, and a connection is open only *)
(* until it has served, unless a call has failed.  The LocalCluster of a job *)
(* is there from before it asks for an executor until it is over.           *)
(***************************************************************************)
NoExecutor(j) == job[j].pc \in {"waiting", "outside", "returned", "over"}

StepsOK(j) ==
    /\ job[j].pc = "opening" => job[j].made < Len(Steps[ClusterType])
    /\ job[j].pc \in {"waiting", "outside"} => job[j].made = 0
    /\ job[j].pc = "tasks" => job[j].made = Len(Steps[ClusterType])

ConnectionOK(j) ==
    /\ ClusterType # "gateway" => open[j] \subseteq {"client", "executor"}
    /\ "connection" \in open[j] =>
          faults < MaxFaults \/ (job[j].pc = "opening" /\ job[j].made \in 1..4)

ClusterOK(j) ==
    ClusterType = "local" /\ ~EmptyUrlMistaken /\ job[j].pc \notin {"waiting", "over"} =>
        Owner(j) \in local

LeftOpenOK(j) == NoExecutor(j) => open[j] \subseteq MayStayOpen

ClientsOK(j) == ClusterType = "local" /\ open[j] # {} => Owner(j) \in local

JobOK(j) == StepsOK(j) /\ ConnectionOK(j) /\ ClusterOK(j) /\ LeftOpenOK(j) /\ ClientsOK(j)

(***************************************************************************)
(* ... and of the server: threads run between its start and its end only,   *)
(* and so is its cluster there.                                             *)
(***************************************************************************)
ServerOK ==
    /\ process \in {"connected", "up", "stopping"} => registry
    /\ process \in {"up", "stopping"} /\ NeedsLocalCluster(settings) => Server \in local
    /\ settings.home = "thread" => /\ InPool # {} => process \in {"up", "stopping"}
                                   /\ Cardinality(InPool) <= settings.max_parallel_jobs

IInv == TypeOK /\ ServerOK /\ RefusedByFailuresOnly /\ \A j \in Jobs : JobOK(j)

-----------------------------------------------------------------------------
LEMMA TypesOfClusters ==
    /\ ClusterType \in {"gateway", "local", "scheduler"}
    /\ Len(Steps.gateway) = 6 /\ Len(Steps.local) = 3 /\ Len(Steps.scheduler) = 2
    /\ settings' = settings => ClusterType' = ClusterType
  BY DEF ClusterType, Steps

LEMMA LimitIsNat ==
    ASSUME settings \in Settings
    PROVE  settings.max_parallel_jobs \in Nat /\ settings.max_parallel_jobs > 0
  <1>1. settings.max_parallel_jobs \in 1..MaxParallel
    BY DEF Settings
  <1> QED
    BY <1>1, BoundsAssumption

LEMMA NumberOfSteps ==
    Len(Steps[ClusterType]) = IF ClusterType = "gateway" THEN 6
                              ELSE IF ClusterType = "local" THEN 3 ELSE 2
  <1>1. CASE ClusterType = "gateway"
    BY <1>1, TypesOfClusters
  <1>2. CASE ClusterType = "local"
    BY <1>2, TypesOfClusters
  <1>3. CASE ClusterType = "scheduler"
    BY <1>3, TypesOfClusters
  <1> QED
    BY <1>1, <1>2, <1>3, TypesOfClusters

\* What remains for a job to do when it has made so many steps.
LEMMA StepIs ==
    ASSUME TypeOK, NEW j \in Jobs, job[j].made < Len(Steps[ClusterType])
    PROVE  /\ ClusterType = "gateway" =>
                \/ job[j].made = 0 /\ NextStep(j) = "connection"
                \/ job[j].made = 1 /\ NextStep(j) = "cluster"
                \/ job[j].made = 2 /\ NextStep(j) = "adapt"
                \/ job[j].made = 3 /\ NextStep(j) = "client"
                \/ job[j].made = 4 /\ NextStep(j) = "disconnect"
                \/ job[j].made = 5 /\ NextStep(j) = "executor"
           /\ ClusterType = "local" =>
                \/ job[j].made = 0 /\ NextStep(j) = "client"
                \/ job[j].made = 1 /\ NextStep(j) = "adapt"
                \/ job[j].made = 2 /\ NextStep(j) = "executor"
           /\ ClusterType = "scheduler" =>
                \/ job[j].made = 0 /\ NextStep(j) = "client"
                \/ job[j].made = 1 /\ NextStep(j) = "executor"
  <1> DEFINE n == job[j].made
  <1>1. n \in 0..6 /\ NextStep(j) = Steps[ClusterType][n + 1]
    BY DEF TypeOK, Job, NextStep
  <1>2. CASE ClusterType = "gateway"
    <2>1. n \in 0..5
      BY <1>1, <1>2, TypesOfClusters DEF Steps
    <2>2. NextStep(j) = Steps.gateway[n + 1]
      BY <1>1, <1>2
    <2> QED
      BY <1>2, <2>1, <2>2 DEF Steps
  <1>3. CASE ClusterType = "local"
    <2>1. n \in 0..2
      BY <1>1, <1>3, TypesOfClusters DEF Steps
    <2>2. NextStep(j) = Steps.local[n + 1]
      BY <1>1, <1>3
    <2> QED
      BY <1>3, <2>1, <2>2 DEF Steps
  <1>4. CASE ClusterType = "scheduler"
    <2>1. n \in 0..1
      BY <1>1, <1>4, TypesOfClusters DEF Steps
    <2>2. NextStep(j) = Steps.scheduler[n + 1]
      BY <1>1, <1>4
    <2> QED
      BY <1>4, <2>1, <2>2 DEF Steps
  <1> QED
    BY <1>2, <1>3, <1>4, TypesOfClusters

LEMMA FaultsFall ==
    ASSUME TypeOK, UNCHANGED faults \/ Fault
    PROVE  /\ faults' \in 0..MaxFaults /\ faults' <= faults
           /\ Fault => faults' < MaxFaults
  BY BoundsAssumption DEF TypeOK, Fault

(***************************************************************************)
(* A step of one job leaves the others as they are, if it does not close    *)
(* the cluster they use.                                                    *)
(***************************************************************************)
LEMMA OthersOK ==
    ASSUME TypeOK, NEW j \in Jobs, JobOK(j),
           settings' = settings, faults' \in 0..MaxFaults, faults' <= faults,
           job'[j] = job[j], open'[j] = open[j],
           ClientsOK(j)', ClusterOK(j)'
    PROVE  JobOK(j)'
  <1>1. /\ ClusterType' = ClusterType /\ Owner(j)' = Owner(j)
        /\ EmptyUrlMistaken' = EmptyUrlMistaken
    BY DEF ClusterType, Owner, EmptyUrlMistaken, NeedsLocalCluster
  <1>2. faults < MaxFaults => faults' < MaxFaults
    BY BoundsAssumption DEF TypeOK
  <1>3. MayStayOpen \subseteq MayStayOpen'
    BY <1>1, <1>2 DEF MayStayOpen
  <1>4. StepsOK(j)' /\ ConnectionOK(j)'
    BY <1>1, <1>2 DEF JobOK, StepsOK, ConnectionOK
  <1>5. LeftOpenOK(j)'
    BY <1>3 DEF JobOK, LeftOpenOK, NoExecutor
  <1> QED
    BY <1>4, <1>5 DEF JobOK

-----------------------------------------------------------------------------
\* The steps that only lead a job on.
PlainStep(j) ==
    \/ ThreadStarts(j) \/ PodStarts(j) \/ PodStartFails(j) \/ RequestExecutor(j)
    \/ OpenRaises(j) \/ TasksEnd(j) \/ Closed(j) \/ JobEnds(j)

JobStep(j) == PlainStep(j) \/ Open(j) \/ Close(j) \/ StartOver(j)

LEMMA GoesOK ==
    ASSUME TypeOK, NEW j \in Jobs,
           NEW pc \in {"outside", "opening", "closing", "returned", "over"}, Goes(j, pc)
    PROVE  /\ job' \in [Jobs -> Job]
           /\ \A i \in Jobs \ {j} : job'[i] = job[i]
           /\ job'[j].pc = pc /\ job'[j].made = job[j].made
  <1> DEFINE r == [job[j] EXCEPT !.pc = pc]
  <1>1. r \in Job /\ r.pc = pc /\ r.made = job[j].made
    BY DEF TypeOK, Job
  <1>2. job' = [job EXCEPT ![j] = r]
    BY DEF Goes
  <1> HIDE DEF r
  <1> QED
    BY <1>1, <1>2 DEF TypeOK

\* ... where they lead it, and what they require.
LEMMA PlainStepOK ==
    ASSUME TypeOK, NEW j \in Jobs, PlainStep(j)
    PROVE  /\ TypeOK'
           /\ \A i \in Jobs \ {j} : job'[i] = job[i]
           /\ job'[j].made = job[j].made
           /\ UNCHANGED <<settings, process, registry, open>>
           /\ faults' <= faults
           /\ local \ {j} \subseteq local'
           /\ \/ /\ job[j].pc = "waiting" /\ job'[j].pc \in {"outside", "over"}
                 /\ local \subseteq local'
                 /\ \/ settings.home = "thread" \/ job'[j].pc = "over"
                    \/ settings.home = "pod" /\ (NeedsLocalCluster(settings) => j \in local')
                 /\ settings.home = "thread" =>
                        /\ process \in {"up", "stopping"}
                        /\ Cardinality(InPool) < settings.max_parallel_jobs
              \/ job[j].pc = "outside" /\ job'[j].pc = "opening" /\ local' = local
              \/ /\ job[j].pc = "opening" /\ job'[j].pc = "closing" /\ local' = local
                 /\ faults' < MaxFaults \/ ClusterType = "local"
                 /\ faults' = faults - 1 \/ NoLocalCluster(j)
              \/ job[j].pc = "tasks" /\ job'[j].pc = "closing" /\ local' = local
              \/ /\ job[j].pc = "closing" /\ job'[j].pc = "returned" /\ local' = local
                 /\ Entered(j) = {}
              \/ job[j].pc \in {"outside", "returned"} /\ job'[j].pc = "over"
  <1>1. /\ UNCHANGED <<settings, process, registry, open>>
        /\ UNCHANGED faults \/ Fault
        /\ local' \in {local, local \cup {j}, local \ {j}}
    BY DEF PlainStep, ThreadStarts, PodStarts, PodStartFails, RequestExecutor, OpenRaises,
           TasksEnd, Closed, JobEnds, Fault
  <1>2. faults' \in 0..MaxFaults /\ faults' <= faults /\ (Fault => faults' < MaxFaults)
    BY <1>1, FaultsFall
  <1>3. ASSUME NEW pc \in {"outside", "opening", "closing", "returned", "over"}, Goes(j, pc)
        PROVE  /\ TypeOK'
               /\ \A i \in Jobs \ {j} : job'[i] = job[i]
               /\ job'[j].pc = pc /\ job'[j].made = job[j].made
    BY <1>1, <1>2, <1>3, GoesOK DEF TypeOK, Holders
  <1>4. CASE ThreadStarts(j) \/ PodStarts(j) \/ PodStartFails(j)
    BY <1>1, <1>2, <1>3, <1>4 DEF ThreadStarts, PodStarts, PodStartFails
  <1>5. CASE RequestExecutor(j) \/ TasksEnd(j) \/ Closed(j)
    BY <1>1, <1>2, <1>3, <1>5 DEF RequestExecutor, TasksEnd, Closed
  <1>6. CASE OpenRaises(j)
    BY <1>1, <1>2, <1>3, <1>6 DEF OpenRaises, NoLocalCluster, Fault
  <1>7. CASE JobEnds(j)
    BY <1>1, <1>2, <1>3, <1>7 DEF JobEnds
  <1> QED
    BY <1>4, <1>5, <1>6, <1>7 DEF PlainStep

\* Opening the next thing, or scaling the cluster.
LEMMA OpenOK ==
    ASSUME TypeOK, NEW j \in Jobs, Open(j), StepsOK(j)
    PROVE  /\ TypeOK'
           /\ \A i \in Jobs \ {j} : /\ job'[i] = job[i] /\ open'[i] = open[i]
           /\ job[j].pc = "opening" /\ ~NoLocalCluster(j)
           /\ job'[j].made = job[j].made + 1
           /\ job'[j].pc = IF NextStep(j) = "executor" THEN "tasks" ELSE "opening"
           /\ open'[j] = IF NextStep(j) = "disconnect" THEN open[j] \ {"connection"}
                         ELSE open[j] \cup ({NextStep(j)} \cap Resources)
           /\ UNCHANGED <<settings, process, registry, local, faults>>
  <1> DEFINE r == [job[j] EXCEPT !.made = job[j].made + 1,
                                 !.pc = IF NextStep(j) = "executor" THEN "tasks" ELSE job[j].pc]
  <1>1. /\ job' = [job EXCEPT ![j] = r] /\ job[j].pc = "opening" /\ ~NoLocalCluster(j)
        /\ UNCHANGED <<settings, process, registry, local, faults>>
    BY DEF Open
  <1>2. job[j].made + 1 \in 0..6
    BY <1>1, StepIs, TypesOfClusters DEF StepsOK
  <1>3. /\ r \in Job /\ r.made = job[j].made + 1
        /\ r.pc = IF NextStep(j) = "executor" THEN "tasks" ELSE "opening"
    BY <1>1, <1>2 DEF TypeOK, Job
  <1> HIDE DEF r
  <1>4. /\ job' \in [Jobs -> Job] /\ job'[j] = r
        /\ \A i \in Jobs \ {j} : job'[i] = job[i]
    BY <1>1, <1>3 DEF TypeOK
  <1> DEFINE o == IF NextStep(j) = "disconnect" THEN open[j] \ {"connection"}
                  ELSE open[j] \cup ({NextStep(j)} \cap Resources)
  <1>5. open' = [open EXCEPT ![j] = o] /\ o \in SUBSET Resources
    BY DEF Open, TypeOK
  <1> HIDE DEF o
  <1>6. /\ open' \in [Jobs -> SUBSET Resources] /\ open'[j] = o
        /\ \A i \in Jobs \ {j} : open'[i] = open[i]
    BY <1>5 DEF TypeOK
  <1> QED
    BY <1>1, <1>3, <1>4, <1>6 DEF TypeOK, o

\* One of the contexts entered is left; others do not notice.
LEMMA CloseOK ==
    ASSUME TypeOK, NEW j \in Jobs, Close(j)
    PROVE  /\ TypeOK'
           /\ \A i \in Jobs \ {j} : open'[i] = open[i]
           /\ open'[j] \subseteq open[j]
           /\ job[j].pc = "closing"
           /\ UNCHANGED <<settings, process, registry, job, local, faults>>
  <1>1. PICK c : open' = [open EXCEPT ![j] = open[j] \ {c}]
    BY DEF Close
  <1> QED
    BY <1>1 DEF Close, TypeOK

LEMMA StartOverOK ==
    ASSUME TypeOK, NEW j \in Jobs, StartOver(j)
    PROVE  /\ TypeOK'
           /\ \A i \in Jobs \ {j} : job'[i] = job[i]
           /\ job[j].pc = "returned" /\ job'[j].pc = "opening" /\ job'[j].made = 0
           /\ UNCHANGED <<settings, process, registry, open, local, faults>>
  <1> DEFINE r == [job[j] EXCEPT !.pc = "opening", !.made = 0, !.restarts = job[j].restarts - 1]
  <1>1. job' = [job EXCEPT ![j] = r] /\ job[j].pc = "returned"
        /\ UNCHANGED <<settings, process, registry, open, local, faults>>
    BY DEF StartOver
  <1>2. job[j].restarts - 1 \in 0..Restarts
    BY BoundsAssumption DEF StartOver, TypeOK, Job
  <1>3. r \in Job /\ r.pc = "opening" /\ r.made = 0
    <2>1. job[j] \in Job
      BY DEF TypeOK
    <2> DEFINE r1 == [job[j] EXCEPT !.pc = "opening"]
               r2 == [r1 EXCEPT !.made = 0]
               r3 == [r2 EXCEPT !.restarts = job[j].restarts - 1]
    <2>2. r1 \in Job /\ r1.pc = "opening"
      BY <2>1 DEF Job
    <2> HIDE DEF r1
    <2>3. r2 \in Job /\ r2.pc = "opening" /\ r2.made = 0
      BY <2>2 DEF Job
    <2> HIDE DEF r2
    <2>4. r3 \in Job /\ r3.pc = "opening" /\ r3.made = 0
      BY <1>2, <2>3 DEF Job
    <2>5. r = r3
      BY DEF r1, r2, r3
    <2> QED
      BY <2>4, <2>5
  <1> HIDE DEF r
  <1> QED
    BY <1>1, <1>3 DEF TypeOK

-----------------------------------------------------------------------------
(***************************************************************************)
(* The job whose step it is keeps its invariant.                            *)
(***************************************************************************)
LEMMA NothingOpenLocally ==
    ASSUME NEW j \in Jobs, JobOK(j), NoExecutor(j), ClusterType = "local"
    PROVE  open[j] = {}
  BY DEF JobOK, ConnectionOK, LeftOpenOK, MayStayOpen

LEMMA PlainStepKeeps ==
    ASSUME IInv, NEW j \in Jobs, PlainStep(j)
    PROVE  JobOK(j)'
  <1>1. JobOK(j) /\ TypeOK
    BY DEF IInv
  <1>2. /\ ClusterType' = ClusterType /\ Owner(j)' = Owner(j)
        /\ EmptyUrlMistaken' = EmptyUrlMistaken
        /\ open'[j] = open[j] /\ job'[j].made = job[j].made
    BY <1>1, PlainStepOK DEF ClusterType, Owner, EmptyUrlMistaken, NeedsLocalCluster
  <1>3. faults < MaxFaults => faults' < MaxFaults
    BY <1>1, PlainStepOK, BoundsAssumption DEF TypeOK
  <1>4. MayStayOpen \subseteq MayStayOpen'
    BY <1>2, <1>3 DEF MayStayOpen
  <1>5. job'[j].pc \in {"outside", "opening", "closing", "returned", "over"}
        /\ job'[j].pc # "tasks"
    BY <1>1, PlainStepOK
  <1>6. StepsOK(j)'
    BY <1>1, <1>2, PlainStepOK, NumberOfSteps DEF JobOK, StepsOK
  <1>7. ConnectionOK(j)'
    BY <1>1, <1>2, <1>3, PlainStepOK DEF JobOK, ConnectionOK
  <1>8. ClusterOK(j)'
    <2>1. CASE job[j].pc = "waiting"
      <3>1. process \in {"up", "stopping"} /\ NeedsLocalCluster(settings) => Server \in local
        BY DEF IInv, ServerOK
      <3> QED
        BY <1>1, <1>2, <2>1, <3>1, PlainStepOK DEF ClusterOK, EmptyUrlMistaken, Owner, TypeOK, Settings
    <2>2. CASE job[j].pc # "waiting"
      BY <1>1, <1>2, <2>2, PlainStepOK DEF JobOK, ClusterOK
    <2> QED
      BY <2>1, <2>2
  <1>9. LeftOpenOK(j)'
    <2>1. CASE NoExecutor(j)
      BY <1>1, <1>2, <1>4, <2>1 DEF JobOK, LeftOpenOK
    <2>2. CASE job[j].pc = "closing"
      <3>1. Entered(j) = {}
        BY <1>1, <2>2, PlainStepOK
      <3>2. \A i \in DOMAIN Contexts(ClusterType) : Contexts(ClusterType)[i] \notin open[j]
        BY <3>1 DEF Entered
      <3>3. CASE ClusterType = "gateway"
        <4>1. "cluster" \notin open[j] /\ "client" \notin open[j] /\ "executor" \notin open[j]
          BY <3>2, <3>3 DEF Contexts
        <4> QED
          BY <1>1, <1>2, <1>4, <2>2, <3>3, <4>1
          DEF TypeOK, Resources, JobOK, ConnectionOK, LeftOpenOK, MayStayOpen
      <3>4. CASE ClusterType = "local"
        <4>1. "client" \notin open[j] /\ "executor" \notin open[j]
          BY <3>2, <3>4 DEF Contexts
        <4> QED
          BY <1>1, <1>2, <3>4, <4>1 DEF JobOK, ConnectionOK, LeftOpenOK
      <3>5. CASE ClusterType = "scheduler"
        <4>1. "executor" \notin open[j]
          BY <3>2, <3>5 DEF Contexts
        <4> QED
          BY <1>1, <1>2, <3>5, <4>1 DEF JobOK, ConnectionOK, LeftOpenOK, MayStayOpen
      <3> QED
        BY <3>3, <3>4, <3>5, TypesOfClusters
    <2>3. CASE job[j].pc \in {"opening", "tasks"}
      BY <1>1, <2>3, PlainStepOK DEF LeftOpenOK, NoExecutor
    <2> QED
      BY <1>1, <2>1, <2>2, <2>3 DEF TypeOK, Job, NoExecutor
  <1>10. ClientsOK(j)'
    <2>1. CASE NoExecutor(j)
      BY <1>1, <1>2, <2>1, NothingOpenLocally DEF ClientsOK
    <2>2. CASE ~NoExecutor(j)
      <3>1. local' = local
        BY <1>1, <2>2, PlainStepOK DEF NoExecutor
      <3> QED
        BY <1>1, <1>2, <3>1 DEF JobOK, ClientsOK
    <2> QED
      BY <2>1, <2>2
  <1> QED
    BY <1>6, <1>7, <1>8, <1>9, <1>10 DEF JobOK

LEMMA OpenKeeps ==
    ASSUME IInv, NEW j \in Jobs, Open(j)
    PROVE  JobOK(j)'
  <1>1. JobOK(j) /\ TypeOK /\ StepsOK(j)
    BY DEF IInv, JobOK
  <1>2. /\ ClusterType' = ClusterType /\ Owner(j)' = Owner(j)
        /\ EmptyUrlMistaken' = EmptyUrlMistaken
        /\ faults' = faults /\ local' = local
    BY <1>1, OpenOK DEF ClusterType, Owner, EmptyUrlMistaken, NeedsLocalCluster
  <1>3. job[j].pc = "opening" /\ job[j].made < Len(Steps[ClusterType])
        /\ job[j].made \in Nat
    <2>1. job[j].made \in 0..6
      BY <1>1 DEF TypeOK, Job
    <2>2. job[j].pc = "opening"
      BY <1>1 DEF Open
    <2> QED
      BY <1>1, <2>1, <2>2 DEF StepsOK
  <1>4. /\ job'[j].made = job[j].made + 1
        /\ job'[j].pc = IF NextStep(j) = "executor" THEN "tasks" ELSE "opening"
        /\ open'[j] = IF NextStep(j) = "disconnect" THEN open[j] \ {"connection"}
                      ELSE open[j] \cup ({NextStep(j)} \cap Resources)
        /\ ~NoLocalCluster(j)
    BY <1>1, OpenOK
  <1>5. StepsOK(j)'
    BY <1>1, <1>2, <1>3, <1>4, StepIs, NumberOfSteps, TypesOfClusters DEF StepsOK
  <1>6. ConnectionOK(j)'
    <2>1. CASE ClusterType = "gateway"
      BY <1>1, <1>2, <1>3, <1>4, <2>1, StepIs DEF JobOK, ConnectionOK, Resources
    <2>2. CASE ClusterType # "gateway"
      <3>1. NextStep(j) \in {"client", "adapt", "executor"}
        BY <1>1, <1>3, <2>2, StepIs, TypesOfClusters
      <3> QED
        BY <1>1, <1>2, <1>4, <2>2, <3>1 DEF JobOK, ConnectionOK, Resources
    <2> QED
      BY <2>1, <2>2
  <1>7. ClusterOK(j)'
    BY <1>1, <1>2, <1>3 DEF JobOK, ClusterOK
  <1>8. LeftOpenOK(j)'
    BY <1>4 DEF LeftOpenOK, NoExecutor
  <1>9. ClientsOK(j)'
    BY <1>2, <1>4 DEF ClientsOK, NoLocalCluster
  <1> QED
    BY <1>5, <1>6, <1>7, <1>8, <1>9 DEF JobOK

LEMMA JobStepKeeps ==
    ASSUME IInv, NEW j \in Jobs, JobStep(j)
    PROVE  JobOK(j)'
  <1>1. CASE Close(j)
    <2>1. /\ open'[j] \subseteq open[j] /\ job[j].pc = "closing"
          /\ UNCHANGED <<settings, job, local, faults>>
      BY <1>1, CloseOK DEF IInv
    <2> QED
      BY <2>1
      DEF IInv, JobOK, StepsOK, ConnectionOK, ClusterOK, LeftOpenOK, NoExecutor, ClientsOK,
          ClusterType, Owner, EmptyUrlMistaken, NeedsLocalCluster
  <1>2. CASE StartOver(j)
    <2>1. /\ job[j].pc = "returned" /\ job'[j].pc = "opening" /\ job'[j].made = 0
          /\ UNCHANGED <<settings, open, local, faults>>
      BY <1>2, StartOverOK DEF IInv
    <2>2. /\ ClusterType' = ClusterType /\ Owner(j)' = Owner(j)
          /\ EmptyUrlMistaken' = EmptyUrlMistaken
      BY <2>1 DEF ClusterType, Owner, EmptyUrlMistaken, NeedsLocalCluster
    <2>3. StepsOK(j)' /\ LeftOpenOK(j)'
      BY <2>1, <2>2, NumberOfSteps DEF StepsOK, LeftOpenOK, NoExecutor
    <2>4. ConnectionOK(j)' /\ ClientsOK(j)' /\ ClusterOK(j)'
      BY <2>1, <2>2 DEF IInv, JobOK, ConnectionOK, ClientsOK, ClusterOK
    <2> QED
      BY <2>3, <2>4 DEF JobOK
  <1> QED
    BY <1>1, <1>2, PlainStepKeeps, OpenKeeps DEF JobStep

-----------------------------------------------------------------------------
(***************************************************************************)
(* A job's step leaves the other jobs' and the server's invariants alone.   *)
(***************************************************************************)
LEMMA JobStepFrame ==
    ASSUME TypeOK, NEW j \in Jobs, StepsOK(j), JobStep(j)
    PROVE  /\ TypeOK'
           /\ \A i \in Jobs \ {j} : /\ job'[i] = job[i] /\ open'[i] = open[i]
           /\ UNCHANGED <<settings, process, registry>>
           /\ faults' \in 0..MaxFaults /\ faults' <= faults
           /\ local \ {j} \subseteq local'
           /\ job'[j].pc # "waiting"
           /\ job[j].pc = "over" => job'[j].pc = "over"
           /\ job[j].pc = "waiting" /\ settings.home = "thread" =>
                 /\ process \in {"up", "stopping"}
                 /\ Cardinality(InPool) < settings.max_parallel_jobs
  <1>1. faults \in 0..MaxFaults
    BY DEF TypeOK
  <1>2. CASE PlainStep(j)
    BY <1>2, PlainStepOK DEF TypeOK
  <1>3. CASE Open(j)
    <2>1. /\ TypeOK' /\ job[j].pc = "opening"
          /\ \A i \in Jobs \ {j} : /\ job'[i] = job[i] /\ open'[i] = open[i]
          /\ UNCHANGED <<settings, process, registry, local, faults>>
      BY <1>3, OpenOK
    <2>2. job'[j].pc \in {"tasks", "opening"}
      BY <1>3, OpenOK
    <2>3. faults' \in 0..MaxFaults /\ faults' <= faults
      BY <1>1, <2>1, BoundsAssumption
    <2> QED
      BY <2>1, <2>2, <2>3
  <1>4. CASE Close(j)
    BY <1>1, <1>4, CloseOK DEF TypeOK
  <1>5. CASE StartOver(j)
    BY <1>1, <1>5, StartOverOK DEF TypeOK
  <1> QED
    BY <1>2, <1>3, <1>4, <1>5 DEF JobStep

LEMMA PoolFinite ==
    ASSUME NEW S, NEW T, S \subseteq T, T \subseteq Jobs
    PROVE  /\ IsFiniteSet(T) /\ Cardinality(S) \in Nat /\ Cardinality(T) \in Nat
           /\ Cardinality(S) <= Cardinality(T)
  BY JobsAssumption, FS_Subset, FS_CardinalityType

LEMMA JobStepServer ==
    ASSUME IInv, NEW j \in Jobs, JobStep(j)
    PROVE  ServerOK'
  <1>1. /\ \A i \in Jobs \ {j} : job'[i] = job[i]
        /\ UNCHANGED <<settings, process, registry>>
        /\ Server \in local => Server \in local'
        /\ job[j].pc = "over" => job'[j].pc = "over"
        /\ job[j].pc = "waiting" /\ settings.home = "thread" =>
                 /\ process \in {"up", "stopping"}
                 /\ Cardinality(InPool) < settings.max_parallel_jobs
    BY JobStepFrame, ServerAssumption DEF IInv, JobOK
  <1>2. InPool \subseteq Jobs /\ InPool' \subseteq InPool \cup {j}
    BY <1>1 DEF InPool
  <1>3. settings.max_parallel_jobs \in Nat
    BY LimitIsNat DEF IInv, TypeOK
  <1>4. CASE job[j].pc = "waiting"
    <2>1. InPool \cup {j} \subseteq Jobs /\ IsFiniteSet(InPool)
      BY <1>2, PoolFinite
    <2>2. /\ Cardinality(InPool') <= Cardinality(InPool \cup {j})
          /\ Cardinality(InPool') \in Nat /\ Cardinality(InPool \cup {j}) \in Nat
          /\ Cardinality(InPool) \in Nat
      BY <1>2, <2>1, PoolFinite
    <2>3. Cardinality(InPool \cup {j}) <= Cardinality(InPool) + 1
      BY <2>1, <2>2, FS_AddElement
    <2> QED
      BY <1>1, <1>3, <1>4, <2>2, <2>3 DEF IInv, ServerOK, NeedsLocalCluster
  <1>5. CASE job[j].pc # "waiting"
    <2>1. InPool' \subseteq InPool
      BY <1>1, <1>5 DEF InPool
    <2>2. /\ Cardinality(InPool') <= Cardinality(InPool)
          /\ Cardinality(InPool') \in Nat /\ Cardinality(InPool) \in Nat
      BY <1>2, <2>1, PoolFinite
    <2> QED
      BY <1>1, <1>3, <2>1, <2>2 DEF IInv, ServerOK, NeedsLocalCluster
  <1> QED
    BY <1>4, <1>5

\* A try that gets no executor costs a failed call, as the cluster is there.
LEMMA JobStepRefusals ==
    ASSUME IInv, NEW j \in Jobs, JobStep(j)
    PROVE  RefusedByFailuresOnly'
  <1>1. /\ UNCHANGED settings /\ faults' \in 0..MaxFaults /\ faults' <= faults
        /\ \A i \in Jobs \ {j} : job'[i] = job[i]
    BY JobStepFrame DEF IInv, JobOK
  <1>2. ClusterType' = ClusterType /\ EmptyUrlMistaken' = EmptyUrlMistaken
    BY <1>1 DEF ClusterType, EmptyUrlMistaken, NeedsLocalCluster
  <1> SUFFICES ASSUME ~EmptyUrlMistaken
               PROVE  Cardinality(Refused') + faults' <= MaxFaults
    BY <1>2 DEF RefusedByFailuresOnly
  <1>3. /\ Refused \subseteq Jobs /\ Refused' \subseteq Refused \cup {j}
        /\ Refused \cup {j} \subseteq Jobs
    BY <1>1, <1>2 DEF Refused
  <1>4. /\ IsFiniteSet(Refused) /\ Cardinality(Refused) \in Nat
        /\ Cardinality(Refused') \in Nat /\ Cardinality(Refused \cup {j}) \in Nat
        /\ Cardinality(Refused') <= Cardinality(Refused \cup {j})
        /\ Cardinality(Refused \cup {j}) <= Cardinality(Refused) + 1
        /\ Refused' \subseteq Refused => Cardinality(Refused') <= Cardinality(Refused)
    BY <1>3, PoolFinite, FS_AddElement
  <1>5. faults \in Nat /\ faults' \in Nat /\ MaxFaults \in Nat
        /\ Cardinality(Refused) + faults <= MaxFaults
    BY <1>1, BoundsAssumption DEF IInv, TypeOK, RefusedByFailuresOnly
  <1>6. CASE job[j].pc = "opening" /\ job'[j].pc = "closing"
    <2>1. Owner(j) \in local \/ ClusterType # "local"
      BY <1>6 DEF IInv, JobOK, ClusterOK
    <2>2. ~NoLocalCluster(j)
      BY <2>1 DEF NoLocalCluster
    <2>3. ~Open(j) /\ ~Close(j) /\ ~StartOver(j)
      BY <1>6, OpenOK, CloseOK, StartOverOK DEF IInv, JobOK
    <2>4. faults' = faults - 1
      BY <1>6, <2>2, <2>3, PlainStepOK DEF JobStep, IInv
    <2> QED
      BY <1>4, <1>5, <2>4
  <1>7. CASE ~(job[j].pc = "opening" /\ job'[j].pc = "closing")
    <2>1. j \in Refused' => j \in Refused
      <3> SUFFICES ASSUME job'[j].pc \in {"closing", "returned"},
                          job'[j].made < Len(Steps[ClusterType])
                   PROVE  job[j].pc \in {"closing", "returned"} /\ job'[j].made = job[j].made
        BY <1>2 DEF Refused
      <3>1. CASE PlainStep(j)
        BY <1>7, <3>1, PlainStepOK DEF IInv, JobOK, StepsOK
      <3>2. CASE Open(j)
        BY <3>2, OpenOK DEF IInv, JobOK
      <3>3. CASE Close(j)
        BY <3>3, CloseOK DEF IInv
      <3>4. CASE StartOver(j)
        BY <3>4, StartOverOK DEF IInv
      <3> QED
        BY <3>1, <3>2, <3>3, <3>4 DEF JobStep
    <2>2. Refused' \subseteq Refused
      BY <1>3, <2>1
    <2> QED
      BY <1>1, <1>4, <1>5, <2>2
  <1> QED
    BY <1>6, <1>7

LEMMA JobStepInvariant ==
    ASSUME IInv, NEW j \in Jobs, JobStep(j)
    PROVE  IInv'
  <1>1. /\ TypeOK' /\ settings' = settings
        /\ \A i \in Jobs \ {j} : /\ job'[i] = job[i] /\ open'[i] = open[i]
        /\ faults' \in 0..MaxFaults /\ faults' <= faults
        /\ local \ {j} \subseteq local'
    BY JobStepFrame DEF IInv, JobOK
  <1>2. ASSUME NEW i \in Jobs \ {j} PROVE JobOK(i)'
    <2>1. ClusterType' = ClusterType /\ Owner(i)' = Owner(i) /\ Owner(i) # j
      BY <1>1, ServerAssumption DEF ClusterType, Owner
    <2>2. ClientsOK(i)' /\ ClusterOK(i)'
      BY <1>1, <2>1
      DEF IInv, JobOK, ClientsOK, ClusterOK, EmptyUrlMistaken, NeedsLocalCluster
    <2> QED
      BY <1>1, <2>2, OthersOK DEF IInv
  <1> QED
    BY <1>1, <1>2, JobStepKeeps, JobStepServer, JobStepRefusals DEF IInv

(***************************************************************************)
(* The server opens, stops and closes; it closes its cluster and its        *)
(* registry only when no job is left in the pool.                           *)
(***************************************************************************)
ServerStep ==
    OpenRegistry \/ EnterHandler \/ StartFails \/ ServerStops \/ ExitHandler \/ CloseRegistry

LEMMA ServerStepInvariant ==
    ASSUME IInv, ServerStep \/ UNCHANGED vars
    PROVE  IInv'
  <1> USE DEF IInv
  <1>1. /\ UNCHANGED <<settings, job, open>>
        /\ UNCHANGED faults \/ Fault
        /\ local' \in {local, local \cup {Server}, local \ {Server}}
        /\ local' = local \ {Server} => ExitHandler \/ local' = local
    BY DEF ServerStep, OpenRegistry, EnterHandler, StartFails, ServerStops, ExitHandler,
           CloseRegistry, vars, Fault
  <1>2. faults' \in 0..MaxFaults /\ faults' <= faults
    BY <1>1, FaultsFall
  <1>3. TypeOK'
    BY <1>1, <1>2
    DEF ServerStep, OpenRegistry, EnterHandler, StartFails, ServerStops, ExitHandler,
        CloseRegistry, vars, TypeOK, Holders
  <1>4. InPool' = InPool
    BY <1>1 DEF InPool
  <1>5. PoolIsDone => InPool = {}
    BY DEF PoolIsDone, InPool
  <1>6. ServerOK'
    BY <1>1, <1>4, <1>5
    DEF ServerStep, OpenRegistry, EnterHandler, StartFails, ServerStops, ExitHandler,
        CloseRegistry, vars, ServerOK, NeedsLocalCluster
  <1>7. ASSUME NEW j \in Jobs PROVE JobOK(j)'
    <2>1. /\ ClusterType' = ClusterType /\ Owner(j)' = Owner(j)
          /\ EmptyUrlMistaken' = EmptyUrlMistaken
      BY <1>1 DEF ClusterType, Owner, EmptyUrlMistaken, NeedsLocalCluster
    <2>2. CASE local \subseteq local'
      BY <1>1, <1>2, <2>1, <2>2, OthersOK DEF JobOK, ClientsOK, ClusterOK
    <2>3. CASE ExitHandler
      <3>1. NoExecutor(j)
        BY <2>3 DEF ExitHandler, PoolIsDone, NoExecutor
      <3>2. ClientsOK(j)'
        BY <1>1, <2>1, <3>1, NothingOpenLocally DEF ClientsOK
      <3>3. ClusterOK(j)'
        BY <1>1, <2>3 DEF ExitHandler, PoolIsDone, ClusterOK
      <3> QED
        BY <1>1, <1>2, <3>2, <3>3, OthersOK
    <2> QED
      BY <1>1, <2>2, <2>3
  <1>8. RefusedByFailuresOnly'
    <2>1. Refused' = Refused /\ EmptyUrlMistaken' = EmptyUrlMistaken
      BY <1>1 DEF Refused, ClusterType, EmptyUrlMistaken, NeedsLocalCluster
    <2>2. Refused \subseteq Jobs
      BY DEF Refused
    <2>3. Cardinality(Refused) \in Nat
      BY <2>2, PoolFinite
    <2> QED
      BY <1>2, <2>1, <2>3, BoundsAssumption DEF RefusedByFailuresOnly, TypeOK
  <1> QED
    BY <1>3, <1>6, <1>7, <1>8

-----------------------------------------------------------------------------
LEMMA InitInvariant == Init => IInv
  <1> SUFFICES ASSUME Init PROVE IInv
    OBVIOUS
  <1>1. TypeOK
    <2>1. [pc |-> "waiting", made |-> 0, restarts |-> Restarts] \in Job
      BY BoundsAssumption DEF Job
    <2>2. job \in [Jobs -> Job]
      BY <2>1 DEF Init
    <2>3. open \in [Jobs -> SUBSET Resources]
      BY DEF Init
    <2>4. faults \in 0..MaxFaults
      BY BoundsAssumption DEF Init
    <2> QED
      BY <2>2, <2>3, <2>4 DEF Init, TypeOK
  <1>2. InPool = {}
    BY DEF Init, InPool
  <1>3. settings.max_parallel_jobs \in Nat /\ settings.max_parallel_jobs > 0
    BY LimitIsNat DEF Init
  <1>4. ServerOK
    BY <1>2, <1>3, FS_EmptySet DEF Init, ServerOK
  <1>5. ASSUME NEW j \in Jobs PROVE JobOK(j)
    <2>1. job[j].pc = "waiting" /\ job[j].made = 0 /\ open[j] = {}
      BY DEF Init
    <2> QED
      BY <2>1
      DEF JobOK, StepsOK, ConnectionOK, ClusterOK, LeftOpenOK, NoExecutor, ClientsOK
  <1>6. RefusedByFailuresOnly
    <2>1. Refused = {}
      BY DEF Init, Refused
    <2> QED
      BY <2>1, FS_EmptySet, BoundsAssumption DEF Init, RefusedByFailuresOnly
  <1> QED
    BY <1>1, <1>4, <1>5, <1>6 DEF IInv

LEMMA NextInvariant == IInv /\ [Next]_vars => IInv'
  BY JobStepInvariant, ServerStepInvariant
  DEF Next, Progress, JobStep, PlainStep, ServerStep

LEMMA Invariance == Spec => []IInv
  <1> QED
    BY InitInvariant, NextInvariant, PTL DEF Spec

(***************************************************************************)
(* Every variable keeps its type.                                           *)
(***************************************************************************)
THEOREM TypeCorrect == Spec => []TypeOK
  <1>1. IInv => TypeOK
    BY DEF IInv
  <1> QED
    BY <1>1, Invariance, PTL

(***************************************************************************)
(* A LocalCluster is not closed while a job has a client of it, whether the *)
(* jobs of a pool share it or a pod has it for itself.                      *)
(***************************************************************************)
THEOREM ClustersOutlive == Spec => []ClusterOutlivesClients
  <1>1. IInv => ClusterOutlivesClients
    BY DEF IInv, JobOK, ClientsOK, ClusterOutlivesClients
  <1> QED
    BY <1>1, Invariance, PTL

(***************************************************************************)
(* The registry is not closed while a thread may report to it, whenever the *)
(* server is stopped and whatever fails while it starts.                    *)
(***************************************************************************)
THEOREM RegistryOutlives == Spec => []RegistryOutlivesThreads
  <1>1. IInv => RegistryOutlivesThreads
    BY DEF IInv, ServerOK, RegistryOutlivesThreads
  <1> QED
    BY <1>1, Invariance, PTL

(***************************************************************************)
(* However often a job starts over and whatever call fails, it has nothing  *)
(* open between its executors but what no context manager closes.           *)
(***************************************************************************)
THEOREM NothingLeft == Spec => []NothingLeftOpen
  <1>1. IInv => NothingLeftOpen
    BY DEF IInv, JobOK, LeftOpenOK, NoExecutor, NothingLeftOpen
  <1> QED
    BY <1>1, Invariance, PTL

(***************************************************************************)
(* The gateway's clusters are at most as many as jobs may be executed in    *)
(* parallel: a cluster is closed before its thread takes the next job.      *)
(***************************************************************************)
THEOREM ClustersLimited == Spec => []ClustersWithinLimit
  <1>1. IInv => ClustersWithinLimit
    <2> SUFFICES ASSUME IInv, settings.home = "thread"
                 PROVE  Cardinality({j \in Jobs : "cluster" \in open[j]})
                            <= settings.max_parallel_jobs
      BY DEF ClustersWithinLimit
    <2>1. {j \in Jobs : "cluster" \in open[j]} \subseteq InPool
      <3> SUFFICES ASSUME NEW j \in Jobs, "cluster" \in open[j], NoExecutor(j) PROVE FALSE
        BY DEF InPool, NoExecutor
      <3> QED
        BY DEF IInv, JobOK, LeftOpenOK, MayStayOpen
    <2>2. InPool \subseteq Jobs
      BY DEF InPool
    <2>3. settings.max_parallel_jobs \in Nat
      BY LimitIsNat DEF IInv, TypeOK
    <2> QED
      BY <2>1, <2>2, <2>3, PoolFinite DEF IInv, ServerOK
  <1> QED
    BY <1>1, Invariance, PTL

(***************************************************************************)
(* Whoever shares, ends, starts over or shuts down: the jobs that were      *)
(* refused an executor are never more than the calls that failed, except    *)
(* when an empty URL keeps every LocalCluster from being made.              *)
(***************************************************************************)
THEOREM RefusalsCounted == Spec => []RefusedByFailuresOnly
  <1>1. IInv => RefusedByFailuresOnly
    BY DEF IInv
  <1> QED
    BY <1>1, Invariance, PTL

=============================================================================
