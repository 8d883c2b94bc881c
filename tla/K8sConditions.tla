--------------------------- MODULE K8sConditions ---------------------------
(***************************************************************************)
(* What KubernetesJobStatus (mapchete_hub/k8s.py) makes of the conditions   *)
(* the cluster lists for a Kubernetes job: the first condition that holds   *)
(* decides.                                                                 *)
(***************************************************************************)
EXTENDS Naturals, Sequences

Condition == [type : {"Complete", "Failed"}, status : {"True", "False", "Unknown"}]

Holds(conditions, type) ==
    \E i \in DOMAIN conditions : conditions[i] = [type |-> type, status |-> "True"]

\* Mutant: a condition is taken for true whatever its status.
DecidesAny(conditions, i) == \A k \in 1..(i - 1) : i = k

Decides(conditions, i) ==
    /\ conditions[i].status = "True"
    /\ \A k \in 1..(i - 1) : conditions[k].status # "True"

IsFailed(conditions) ==
    \E i \in DOMAIN conditions : Decides(conditions, i) /\ conditions[i].type = "Failed"

IsDone(conditions) ==
    \E i \in DOMAIN conditions : Decides(conditions, i) /\ conditions[i].type = "Complete"

(***************************************************************************)
(* A job is never both failed and done, and is one of them exactly if such  *)
(* a condition holds, wherever it is listed: the cluster never sets both.   *)
(***************************************************************************)
ConditionsDecide(conditions) ==
    ~(Holds(conditions, "Complete") /\ Holds(conditions, "Failed")) =>
        /\ ~(IsFailed(conditions) /\ IsDone(conditions))
        /\ IsFailed(conditions) = Holds(conditions, "Failed")
        /\ IsDone(conditions) = Holds(conditions, "Complete")

=============================================================================
