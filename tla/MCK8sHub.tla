------------------------------ MODULE MCK8sHub ------------------------------
(***************************************************************************)
(* Small instances of K8sHub for TLC.                                       *)
(***************************************************************************)
EXTENDS K8sHub, TLC

\* Bounds on K8sAttempts: either a call fails or a process crashes, not both,
\* and a pod is killed only where no call fails and "clean" does not run.
OneThingGoesWrong ==
    /\ faults + crashes > 0
    /\ kills < MaxKills => faults = MaxFaults /\ mgr["clean"].pc = "sleep"

=============================================================================
