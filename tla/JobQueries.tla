----------------------------- MODULE JobQueries -----------------------------
(***************************************************************************)
(* How the two registries answer jobs(status, bounds, from_date, to_date,   *)
(* job_name) (mapchete_hub/db), which list_jobs() and the manager ask.  An  *)
(* area is a set of cells; a point in time is a number of ticks, of which   *)
(* TicksPerMs make the millisecond MongoDB keeps.                           *)
(***************************************************************************)
EXTENDS Naturals, Functions

CONSTANTS None, TicksPerMs

ASSUME TicksAssumption == TicksPerMs \in Nat \ {0}

-----------------------------------------------------------------------------
(***************************************************************************)
(* list_jobs(): the parameters of the request become the keyword arguments  *)
(* of jobs().  The statuses are a list of names, of which an unknown one is *)
(* answered with 400; an empty list is taken for none.                      *)
(***************************************************************************)
StatusNames == {"pending", "parsing", "initializing", "running", "post_processing",
                "retrying", "done", "failed", "cancelled"}

Refuses(request) ==
    request.status # None /\ ~(Range(request.status) \subseteq StatusNames)

QueryOf(request) ==
    [request EXCEPT !.status = IF @ \in {None, <<>>} THEN None ELSE Range(@)]

-----------------------------------------------------------------------------

\* The keyword arguments that are None are no part of the query.
Asked(query) == {field \in DOMAIN query : query[field] # None}

\* What MongoDB keeps of a date, in an entry and in a query.
MongoDate(ticks) == ticks \div TicksPerMs

-----------------------------------------------------------------------------
(***************************************************************************)
(* The memory registry goes through the fields of the query and skips the   *)
(* entry at the first that does not match.                                  *)
(***************************************************************************)
MemoryMatches(job, field, value) ==
    CASE field = "bounds" -> job.area \cap value # {}
      [] field = "from_date" -> job.updated >= value
      [] field = "to_date" -> job.updated <= value
      [] field = "status" -> job.status \in value
      [] OTHER -> job[field] = value

MemoryJobs(jobs, query) ==
    {job \in jobs : \A field \in Asked(query) : MemoryMatches(job, field, query[field])}

(***************************************************************************)
(* The MongoDB registry rewrites the query into one of the database: each   *)
(* pair is a field of the documents and a condition on it.  The two dates   *)
(* are put together as the lower and the upper bound of "updated".          *)
(***************************************************************************)
\* Mutant: the bounds the other way round, as the comment there considers.
MongoDatesSwapped(query) ==
    {<<"updated", IF field = "from_date" THEN "$lte" ELSE "$gte", MongoDate(query[field])>>
        : field \in Asked(query) \cap {"from_date", "to_date"}}

MongoDates(query) ==
    {<<"updated", IF field = "from_date" THEN "$gte" ELSE "$lte", MongoDate(query[field])>>
        : field \in Asked(query) \cap {"from_date", "to_date"}}

MongoQuery(query) ==
    MongoDates(query)
    \cup {<<"status", "$in", query[field]>> : field \in Asked(query) \cap {"status"}}
    \cup {<<"area", "$geoIntersects", query[field]>> : field \in Asked(query) \cap {"bounds"}}
    \cup {<<field, "$eq", query[field]>>
            : field \in Asked(query) \ {"from_date", "to_date", "status", "bounds"}}

\* The database: whether a document meets a condition.
MongoHolds(job, condition) ==
    LET value == IF condition[1] = "updated" THEN MongoDate(job.updated) ELSE job[condition[1]]
    IN  CASE condition[2] = "$gte" -> value >= condition[3]
          [] condition[2] = "$lte" -> value <= condition[3]
          [] condition[2] = "$in" -> value \in condition[3]
          [] condition[2] = "$geoIntersects" -> value \cap condition[3] # {}
          [] OTHER -> value = condition[3]

MongoJobs(jobs, query) ==
    {job \in jobs : \A condition \in MongoQuery(query) : MongoHolds(job, condition)}

-----------------------------------------------------------------------------
\* A job that was updated within the millisecond of a bound of the query.
Borderline(job, query) ==
    \E field \in Asked(query) \cap {"from_date", "to_date"} :
        MongoDate(job.updated) = MongoDate(query[field])

(***************************************************************************)
(* The two registries give the same answer, up to the millisecond: whatever *)
(* the memory registry finds, with which the hub is tested, MongoDB finds   *)
(* as well, and what only MongoDB finds was updated within the millisecond  *)
(* of a bound.                                                              *)
(***************************************************************************)
RegistriesAgree(jobs, query) ==
    /\ MemoryJobs(jobs, query) \subseteq MongoJobs(jobs, query)
    /\ \A job \in MongoJobs(jobs, query) \ MemoryJobs(jobs, query) : Borderline(job, query)

=============================================================================
