-------------------------------- MODULE Api --------------------------------
(***************************************************************************)
(* The HTTP endpoints that change jobs (mapchete_hub/app.py).  The          *)
(* endpoints never await, so the server handles one request at a time; but  *)
(* other processes act between two database calls of a request.  What       *)
(* post_job() does after it has created the entry depends on the job        *)
(* handler: the modules that extend this one add it.                        *)
(***************************************************************************)
EXTENDS StatusHandler

CONSTANT Cancelling   \* whether this instance has DELETE requests

ASSUME CancellingAssumption == Cancelling \in BOOLEAN

VARIABLE api   \* the request being handled

\* submit, created, record: stages of post_job(); cancel: cancel_job() has
\* read a status it may cancel; stopped: the server is shutting down.
ApiStages == {"idle", "submit", "created", "record", "cancel", "stopped"}

Request == [pc : ApiStages, job : Jobs \cup {None}]

ASSUME NoneIsNoJob == None \notin Jobs

NoRequest == [pc |-> "idle", job |-> None]

ApiInit == api = NoRequest

Cancellable == {"pending", "parsing", "initializing", "running", "retrying"}

\* post_job() has the registry create the entry.
PostNew(j) ==
    /\ api.pc = "idle"
    /\ New(j)
    /\ api' = [pc |-> "submit", job |-> j]
    /\ UNCHANGED faults

CancelRead(j) ==
    /\ Cancelling
    /\ api.pc = "idle"
    /\ db[j].status \in Cancellable
    /\ api' = [pc |-> "cancel", job |-> j]
    /\ UNCHANGED <<db, faults>>

CancelWrite(j) ==
    /\ api = [pc |-> "cancel", job |-> j]
    /\ SetStatus(j, "cancelled")
    /\ api' = NoRequest
    /\ UNCHANGED faults

\* The database times out between the two calls: the request fails.
CancelFails(j) ==
    /\ api = [pc |-> "cancel", job |-> j]
    /\ Fault
    /\ api' = NoRequest
    /\ UNCHANGED db

ApiStep(j) == PostNew(j) \/ CancelRead(j) \/ CancelWrite(j) \/ CancelFails(j)

(***************************************************************************)
(* get_job_results(): the status code of the response; None stands for the  *)
(* ValueError that leaves the endpoint.                                     *)
(***************************************************************************)
ResultsResponse(status) ==
    CASE status = "absent" -> 404
      [] status = "done" -> 200
      [] status \in {"pending", "parsing", "initializing", "running"} -> 404
      [] status \in {"cancelled", "failed"} -> 400
      [] OTHER -> None

ApiTypeOK == api \in Request

=============================================================================
