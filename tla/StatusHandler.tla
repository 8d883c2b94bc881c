--------------------------- MODULE StatusHandler ---------------------------
(***************************************************************************)
(* The job registry: the collection of job entries behind BaseStatusHandler *)
(* (mapchete_hub/db), shared by the API, the manager and the processes that *)
(* execute jobs.  An entry keeps the fields other parts act on; geometry,   *)
(* configuration, names and timestamps are left out, except for the age of  *)
(* "updated", as far as the manager tells ages apart.                       *)
(***************************************************************************)
EXTENDS Naturals, FiniteSets

CONSTANTS
    Jobs,         \* the job identifiers uuid4() may hand out
    None,         \* Python's None
    MaxFaults     \* bound: how many calls to other systems may fail

Status == {"pending", "parsing", "initializing", "running", "post_processing",
           "retrying", "done", "failed", "cancelled"}
Terminal == {"done", "failed", "cancelled"}

ASSUME NoneAssumption ==
    None \notin Status /\ None \notin BOOLEAN /\ None \notin Nat /\ None # "url"
ASSUME MaxFaultsAssumption == MaxFaults \in Nat

VARIABLES
    db,      \* job identifier -> entry; status "absent" before insertion
    faults   \* calls to the database, the cluster or Slack that may still fail

\* How old "updated" is: older than inactive_since, or even older than --since.
Ages == {"recent", "inactive", "expired"}

Entry == [status : Status \cup {"absent"},
          submitted_to_k8s : BOOLEAN,
          k8s_attempts : Nat,
          dask_dashboard_link : {None, "url"},
          result : BOOLEAN,      \* a non-empty result has been stored
          age : Ages]

AbsentEntry == [status |-> "absent", submitted_to_k8s |-> FALSE, k8s_attempts |-> 0,
                dask_dashboard_link |-> None, result |-> FALSE, age |-> "recent"]

\* What new() inserts: a pending job nobody has submitted anywhere.
NewEntry == [AbsentEntry EXCEPT !.status = "pending"]

Exists(j) == db[j].status # "absent"

(***************************************************************************)
(* set(job_id, ...): the keyword arguments that are None are dropped before *)
(* the update, so no field can be set back to None; "updated" is always     *)
(* refreshed.                                                               *)
(***************************************************************************)
NoAttributes == [status |-> None, submitted_to_k8s |-> None, k8s_attempts |-> None,
                 dask_dashboard_link |-> None, result |-> None]

Given(new, old) == IF new = None THEN old ELSE new

SetAttributes(entry, new) ==
    [status |-> Given(new.status, entry.status),
     submitted_to_k8s |-> Given(new.submitted_to_k8s, entry.submitted_to_k8s),
     k8s_attempts |-> Given(new.k8s_attempts, entry.k8s_attempts),
     dask_dashboard_link |-> Given(new.dask_dashboard_link, entry.dask_dashboard_link),
     result |-> Given(new.result, entry.result),
     age |-> "recent"]

WithStatus(s) == [NoAttributes EXCEPT !.status = s]

Set(j, new) == db' = [db EXCEPT ![j] = SetAttributes(@, new)]
SetStatus(j, s) == Set(j, WithStatus(s))

\* Inserting a job: new() assigns an identifier no entry has yet.
New(j) ==
    /\ ~Exists(j)
    /\ db' = [db EXCEPT ![j] = NewEntry]

Fault ==
    /\ faults > 0
    /\ faults' = faults - 1

StatusHandlerTypeOK ==
    /\ db \in [Jobs -> Entry]
    /\ faults \in 0..MaxFaults

=============================================================================
