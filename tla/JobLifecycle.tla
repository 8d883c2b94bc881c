---------------------------- MODULE JobLifecycle ----------------------------
(***************************************************************************)
(* What the hub promises about jobs, whoever executes them: a job that was  *)
(* accepted waits, is worked on while there is room, and is over; at most   *)
(* Limit jobs are worked on at a time.  Where the hub starts jobs over, one *)
(* that is over may be worked on again; where it answers a post after it    *)
(* has stored the job, the late answer may put back into the queue a job    *)
(* that was taken from it in the meantime, and no other.                    *)
(***************************************************************************)
EXTENDS Naturals, FiniteSets, FiniteSetTheorems, TLAPS

CONSTANTS Jobs, Limit, Reopening

VARIABLES
    life,        \* per job: where it is
    unanswered   \* the jobs whose post is still being answered (an input)

Stages == {"none", "waiting", "working", "over"}

Working == {j \in Jobs : life[j] = "working"}

Init == life \in [Jobs -> {"none", "waiting"}]

Moves(j, from, to) ==
    /\ life[j] \in from
    /\ life' = [life EXCEPT ![j] = to]

Room == Cardinality(Working) < Limit

Accept(j) == Moves(j, {"none"}, "waiting")
Start(j) == Room /\ Moves(j, {"waiting"}, "working")
End(j) == Moves(j, {"waiting", "working"}, "over")
Reopen(j) == Reopening /\ Room /\ Moves(j, {"over"}, "working")
Requeue(j) == j \in unanswered /\ Moves(j, {"working"}, "waiting")

Next == \E j \in Jobs : Accept(j) \/ Start(j) \/ End(j) \/ Reopen(j) \/ Requeue(j)

Spec == Init /\ [][Next]_life

\* What is accepted comes to its end.
EveryJobEnds == \A j \in Jobs : life[j] # "none" ~> life[j] = "over"

LiveSpec == Spec /\ EveryJobEnds

\* At most Limit jobs are worked on at a time.
LimitKept == Cardinality(Working) <= Limit

-----------------------------------------------------------------------------
TypeOK == life \in [Jobs -> Stages]

\* A set grows by at most one element.
LEMMA OneMore ==
    ASSUME NEW S, IsFiniteSet(S), NEW x
    PROVE  /\ IsFiniteSet(S \cup {x}) /\ Cardinality(S) \in Nat
           /\ Cardinality(S \cup {x}) <= Cardinality(S) + 1
<1>1. Cardinality(S) \in Nat
  BY FS_CardinalityType
<1>2. /\ IsFiniteSet(S \cup {x})
      /\ \/ Cardinality(S \cup {x}) = Cardinality(S)
         \/ Cardinality(S \cup {x}) = Cardinality(S) + 1
  BY FS_AddElement
<1> QED
  BY <1>1, <1>2

\* A job that is worked on was let in while there was room.
LEMMA MovesKeepLimit ==
    ASSUME Limit \in Nat, TypeOK, IsFiniteSet(Working), LimitKept,
           NEW j \in Jobs, Accept(j) \/ Start(j) \/ End(j) \/ Reopen(j) \/ Requeue(j)
    PROVE  TypeOK' /\ IsFiniteSet(Working') /\ LimitKept'
<1>1. PICK to \in Stages : life' = [life EXCEPT ![j] = to] /\ (to = "working" => Room)
  BY DEF Accept, Start, End, Reopen, Requeue, Moves, Stages
<1>2. TypeOK'
  BY <1>1 DEF TypeOK
<1>3. CASE to = "working"
  <2>1. Working' = Working \cup {j}
    BY <1>1, <1>3 DEF TypeOK, Working
  <2>2. /\ IsFiniteSet(Working \cup {j}) /\ Cardinality(Working) \in Nat
        /\ Cardinality(Working \cup {j}) <= Cardinality(Working) + 1
    BY OneMore
  <2> QED
    BY <1>1, <1>2, <1>3, <2>1, <2>2, FS_CardinalityType DEF Room, LimitKept
<1>4. CASE to # "working"
  <2>1. Working' \subseteq Working
    BY <1>1, <1>4 DEF TypeOK, Working
  <2>2. IsFiniteSet(Working') /\ Cardinality(Working') <= Cardinality(Working)
    BY <2>1, FS_Subset
  <2> QED
    BY <1>2, <2>2, FS_CardinalityType DEF LimitKept
<1> QED
  BY <1>3, <1>4

(***************************************************************************)
(* However jobs come, go, are started over or put back, the limit holds.    *)
(***************************************************************************)
THEOREM LimitHolds == Limit \in Nat => (Spec => []LimitKept)
<1> SUFFICES ASSUME Limit \in Nat PROVE Spec => []LimitKept
  OBVIOUS
<1> DEFINE IInv == TypeOK /\ IsFiniteSet(Working) /\ LimitKept
<1>1. Init => IInv
  <2> SUFFICES ASSUME Init PROVE IInv
    OBVIOUS
  <2>1. TypeOK
    BY DEF Init, TypeOK, Stages
  <2>2. Working = {}
    BY DEF Init, Working
  <2> QED
    BY <2>1, <2>2, FS_EmptySet DEF LimitKept
<1>2. IInv /\ [Next]_life => IInv'
  <2>1. ASSUME IInv, Next PROVE IInv'
    BY <2>1, MovesKeepLimit DEF Next
  <2>2. ASSUME IInv, UNCHANGED life PROVE IInv'
    BY <2>2 DEF TypeOK, Working, LimitKept
  <2> QED
    BY <2>1, <2>2
<1>3. IInv => LimitKept
  OBVIOUS
<1> QED
  BY <1>1, <1>2, <1>3, PTL DEF Spec

=============================================================================
