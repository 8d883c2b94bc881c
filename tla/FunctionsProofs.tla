-------------------------- MODULE FunctionsProofs --------------------------
(***************************************************************************)
(* Proofs about the functions without state: what MCFunctions checks for    *)
(* inputs up to a bound holds for all.  Each function has a theorem about   *)
(* all its inputs, and one that states MCFunctions' invariant.              *)
(***************************************************************************)
EXTENDS MCFunctions, WellFoundedInduction, SequenceTheorems, TLAPS

-----------------------------------------------------------------------------
\* The workers wanted are a number, at most one per task, and not none.
LEMMA WorkersForTasksBounds ==
    ASSUME NEW preprocessing_tasks \in Nat, NEW tile_tasks \in Nat, NEW process_graph \in BOOLEAN
    PROVE  LET wanted == WorkersForTasks(preprocessing_tasks, tile_tasks, process_graph)
               tasks == preprocessing_tasks + tile_tasks
           IN  wanted \in Nat /\ wanted <= Larger(1, tasks) /\ (tasks > 0 => wanted > 0)
<1> DEFINE tasks == preprocessing_tasks + tile_tasks
<1>1. tasks \in Nat /\ tasks \div 8 \in Nat /\ tasks \div 8 <= tasks
  OBVIOUS
<1>2. CASE process_graph
  BY <1>1, <1>2 DEF WorkersForTasks, Larger
<1>3. CASE ~process_graph
  BY <1>3 DEF WorkersForTasks, Larger
<1> QED
  BY <1>2, <1>3

\* cluster_adapt() never asks dask for limits that are out of order or beyond
\* what is configured, whatever the configuration and the number of tasks.
THEOREM AdaptKeepsLimits ==
    ASSUME NEW options \in AdaptOptions, NEW preprocessing_tasks \in Nat,
           NEW tile_tasks \in Nat, NEW process_graph \in BOOLEAN
    PROVE  WithinLimits(options, preprocessing_tasks, tile_tasks, process_graph)
<1> DEFINE wanted == WorkersForTasks(preprocessing_tasks, tile_tasks, process_graph)
<1>1. /\ wanted \in Nat
      /\ wanted <= Larger(1, preprocessing_tasks + tile_tasks)
      /\ preprocessing_tasks + tile_tasks > 0 => wanted > 0
  BY WorkersForTasksBounds
<1>2. options.minimum \in Nat /\ options.maximum \in Nat
  BY DEF AdaptOptions
<1> HIDE DEF wanted
<1>3. Adapted(options, preprocessing_tasks, tile_tasks, process_graph)
        = [minimum |-> Smaller(options.minimum, tile_tasks),
           maximum |-> Larger(Smaller(options.maximum, wanted),
                              Smaller(options.minimum, tile_tasks))]
  BY DEF Adapted, MinWorkers, MaxWorkers, wanted
<1> QED
  BY <1>1, <1>2, <1>3 DEF WithinLimits, Larger, Smaller

-----------------------------------------------------------------------------
Time == INSTANCE TimeTools

(***************************************************************************)
(* What watch announces and what it does part at one day: shorter intervals *)
(* it sleeps as announced, down to the second, longer ones it never does,   *)
(* as timedelta.seconds has no days ("1d" does not pause at all).           *)
(***************************************************************************)
LEMMA SleptAsAnnouncedBelowADay ==
    ASSUME NEW interval \in [tenths : Nat, unit : {"w", "d", "h", "m", "s"}]
    PROVE  Time!SleepsAsAnnounced(interval)
               <=> Time!IntervalToTimedelta(interval) < 10 * Time!SecondsPerDay
  <1> DEFINE announced == Time!IntervalToTimedelta(interval)
             seconds == announced \div 10
             slept == seconds % 86400
  <1>1. announced \in Nat
    <2>1. /\ Time!Units.w \in Nat /\ Time!Units.d \in Nat /\ Time!Units.h \in Nat
          /\ Time!Units.m \in Nat /\ Time!Units.s \in Nat
      BY DEF Time!Units, Time!SecondsPerDay
    <2>2. Time!Units[interval.unit] \in Nat /\ interval.tenths \in Nat
      BY <2>1
    <2> DEFINE unit == Time!Units[interval.unit]
               n == interval.tenths
    <2>3. announced = n * unit
      BY DEF Time!IntervalToTimedelta
    <2> HIDE DEF unit, n, announced
    <2>4. unit \in Nat /\ n \in Nat
      BY <2>2 DEF unit, n
    <2> QED
      BY <2>3, <2>4
  <1> HIDE DEF announced
  <1>2. /\ seconds \in Nat /\ 10 * seconds <= announced /\ announced - 10 * seconds < 10
        /\ announced < 864000 <=> seconds < 86400
    BY <1>1, SMT
  <1> HIDE DEF seconds
  <1>3. /\ slept \in Nat /\ slept < 86400
        /\ seconds < 86400 => slept = seconds
    <2>1. seconds \in Nat
      BY <1>2
    <2> QED
      BY <2>1, SMT
  <1>4. /\ Time!SecondsSlept(interval) = slept
        /\ Time!IntervalToTimedelta(interval) = announced
        /\ Time!SecondsPerDay = 86400
    BY DEF Time!SecondsSlept, Time!SecondsPerDay, seconds, announced
  <1> HIDE DEF slept
  <1>5. ASSUME announced < 864000
        PROVE  10 * slept <= announced /\ announced - 10 * slept < 10
    BY <1>2, <1>3, <1>5, SMT
  <1>6. ASSUME 10 * slept <= announced, announced - 10 * slept < 10
        PROVE  announced < 864000
    <2>1. 10 * slept <= 863990
      BY <1>3, SMT
    <2>2. 10 * slept \in Nat
      BY <1>3, SMT
    <2> QED
      BY <1>1, <1>6, <2>1, <2>2, SMT
  <1> QED
    BY <1>4, <1>5, <1>6, SMT DEF Time!SleepsAsAnnounced

-----------------------------------------------------------------------------
(***************************************************************************)
(* is_failed() and is_done(): what holds is found, wherever it is listed.   *)
(***************************************************************************)
LEMMA SmallestExists ==
    ASSUME NEW S, S \subseteq Nat, S # {}
    PROVE  \E n \in S : \A k \in S : n <= k
  <1>1. PICK n \in S : \A k \in S : <<k, n>> \notin OpToRel(<, Nat)
    BY WFMin, NatLessThanWellFounded
  <1>2. ASSUME NEW k \in S PROVE n <= k
    <2>1. \A i, m \in Nat : i < m => <<i, m>> \in OpToRel(<, Nat)
      BY DEF OpToRel
    <2>2. k \in Nat /\ n \in Nat /\ ~(k < n)
      BY <1>1, <2>1
    <2> QED
      BY <2>2
  <1> QED
    BY <1>2

LEMMA ConditionsAreFound ==
    ASSUME NEW n \in Nat, NEW conditions \in [1..n -> K8s!Condition]
    PROVE  K8s!ConditionsDecide(conditions)
  <1> SUFFICES ASSUME ~(K8s!Holds(conditions, "Complete") /\ K8s!Holds(conditions, "Failed"))
               PROVE  /\ ~(K8s!IsFailed(conditions) /\ K8s!IsDone(conditions))
                      /\ K8s!IsFailed(conditions) = K8s!Holds(conditions, "Failed")
                      /\ K8s!IsDone(conditions) = K8s!Holds(conditions, "Complete")
    BY DEF K8s!ConditionsDecide
  <1> DEFINE Met == {i \in 1..n : conditions[i].status = "True"}
  <1>1. \A i \in 1..n : /\ conditions[i].type \in {"Complete", "Failed"}
                        /\ conditions[i].status = "True" =>
                              conditions[i] = [type |-> conditions[i].type, status |-> "True"]
    BY DEF K8s!Condition
  <1>2. \A type : K8s!Holds(conditions, type)
                      <=> \E i \in Met : conditions[i] = [type |-> type, status |-> "True"]
    BY DEF K8s!Holds
  <1>3. \A i \in Met : conditions[i].type = "Complete" \/ conditions[i].type = "Failed"
    BY <1>1
  <1>4. \A type : \A i \in Met : conditions[i].type = type => K8s!Holds(conditions, type)
    BY <1>1, <1>2
  <1>5. \A i \in 1..n : K8s!Decides(conditions, i) => i \in Met
    BY DEF K8s!Decides
  <1>6. /\ K8s!IsFailed(conditions) => K8s!Holds(conditions, "Failed")
        /\ K8s!IsDone(conditions) => K8s!Holds(conditions, "Complete")
    BY <1>4, <1>5 DEF K8s!IsFailed, K8s!IsDone
  <1>7. Met # {} => \E i \in 1..n : i \in Met /\ K8s!Decides(conditions, i)
    <2> SUFFICES ASSUME Met # {}
                 PROVE  \E i \in 1..n : i \in Met /\ K8s!Decides(conditions, i)
      OBVIOUS
    <2>1. PICK i \in Met : \A k \in Met : i <= k
      <3>1. Met \subseteq Nat
        OBVIOUS
      <3> HIDE DEF Met
      <3> QED
        BY <3>1, SmallestExists
    <2>2. \A k \in 1..(i - 1) : k \in 1..n /\ ~(i <= k)
      OBVIOUS
    <2>3. K8s!Decides(conditions, i)
      BY <2>1, <2>2 DEF K8s!Decides
    <2> QED
      BY <2>3
  <1>8. ASSUME K8s!Holds(conditions, "Failed") PROVE K8s!IsFailed(conditions)
    BY <1>2, <1>3, <1>4, <1>7, <1>8 DEF K8s!IsFailed
  <1>9. ASSUME K8s!Holds(conditions, "Complete") PROVE K8s!IsDone(conditions)
    BY <1>2, <1>3, <1>4, <1>7, <1>9 DEF K8s!IsDone
  <1>10. /\ K8s!IsFailed(conditions) \in BOOLEAN /\ K8s!IsDone(conditions) \in BOOLEAN
         /\ \A type : K8s!Holds(conditions, type) \in BOOLEAN
    BY DEF K8s!IsFailed, K8s!IsDone, K8s!Holds
  <1> QED
    BY <1>6, <1>8, <1>9, <1>10

-----------------------------------------------------------------------------
(***************************************************************************)
(* process_area_from_config(): no other area than the one asked for.        *)
(***************************************************************************)
Areas == (SUBSET Cells) \cup {None}

Params == [bounds : Areas, geometry : Areas, area : Area!AreaTexts \cup {None},
           point : Areas, tile : Areas]

Config == [bounds : Areas, area : Area!AreaTexts \cup {None}]

LEMMA AreaOrNone == \A area \in Areas : area # None => area \in SUBSET Cells
  BY DEF Areas

LEMMA ParamsAreRead ==
    ASSUME NEW params \in Params, params # Area!Nothing
    PROVE  /\ Area!FromParams(params) = Area!AskedFor(params)
           /\ Area!FromParams(params) # Invalid
  <1>1. \E field \in {"bounds", "geometry", "area", "point", "tile"} : params[field] # None
    BY DEF Params, Area!Nothing
  <1>2. /\ params.bounds # None => params.bounds \in SUBSET Cells
        /\ params.geometry # None => params.geometry \in SUBSET Cells
        /\ params.point # None => params.point \in SUBSET Cells
        /\ params.tile # None => params.tile \in SUBSET Cells
    <2>1. /\ params.bounds \in Areas /\ params.geometry \in Areas
          /\ params.point \in Areas /\ params.tile \in Areas
      BY DEF Params
    <2> QED
      BY <2>1, AreaOrNone
  <1>3. params.area # None => /\ Area!ReadArea(params, params.area) = params.area.cells
                              /\ params.area.cells \in SUBSET Cells
    <2>1. params.area # None => params.area.kind \in {"wkt", "file"}
                                /\ params.area.cells \in SUBSET Cells
      BY DEF Params, Area!AreaTexts
    <2> QED
      BY <2>1 DEF Area!ReadArea, Area!FromWkt
  <1>4. CASE params.bounds # None /\ params.area # None
    <2>1. Area!Intersection(params.bounds, params.area.cells) = params.bounds \cap params.area.cells
      BY <1>2, <1>3, <1>4, InvalidAssumption DEF Area!Intersection
    <2>2. params.bounds \cap params.area.cells \in SUBSET Cells
      BY <1>2, <1>4
    <2>3. Area!FromParams(params) = params.bounds \cap params.area.cells
      BY <1>3, <1>4, <2>1 DEF Area!FromParams
    <2>4. Area!AskedFor(params) = params.bounds \cap params.area.cells
      BY <1>4 DEF Area!AskedFor
    <2> QED
      BY <2>2, <2>3, <2>4, InvalidAssumption
  <1>5. CASE params.bounds # None /\ params.area = None
    <2>1. Area!FromParams(params) = params.bounds
      BY <1>5 DEF Area!FromParams
    <2>2. Area!AskedFor(params) = params.bounds \cap Cells
      BY <1>5 DEF Area!AskedFor
    <2>3. params.bounds \cap Cells = params.bounds
      BY <1>2, <1>5
    <2> QED
      BY <1>2, <1>5, <2>1, <2>2, <2>3, InvalidAssumption
  <1>6. CASE params.bounds = None /\ params.geometry # None
    BY <1>2, <1>6, InvalidAssumption DEF Area!FromParams, Area!AskedFor
  <1>7. CASE params.bounds = None /\ params.geometry = None /\ params.area # None
    BY <1>3, <1>7, InvalidAssumption DEF Area!FromParams, Area!AskedFor
  <1>8. CASE params.bounds = None /\ params.geometry = None /\ params.area = None
    <2>1. params.point # None \/ params.tile # None
      BY <1>1, <1>8
    <2> QED
      BY <1>2, <1>8, <2>1, InvalidAssumption DEF Area!FromParams, Area!AskedFor
  <1> QED
    BY <1>4, <1>5, <1>6, <1>7, <1>8

LEMMA ConfigIsRead ==
    ASSUME NEW config \in Config
    PROVE  LET area == Area!FromConfig(Area!Nothing, config)
               given == [Area!Nothing EXCEPT !.bounds = config.bounds, !.area = config.area]
           IN  IF area = Invalid
               THEN config.area # None => config.area.kind = "file" \/ config.bounds # None
               ELSE area = Area!AskedFor(given)
  <1> DEFINE area == Area!FromConfig(Area!Nothing, config)
             given == [Area!Nothing EXCEPT !.bounds = config.bounds, !.area = config.area]
  <1>1. /\ given.bounds = config.bounds /\ given.area = config.area
        /\ given.geometry = None /\ given.point = None /\ given.tile = None
    BY DEF Area!Nothing
  <1>2. /\ config.bounds # None => config.bounds \in SUBSET Cells
        /\ config.area # None => /\ config.area.kind \in {"wkt", "file"}
                                 /\ config.area.cells \in SUBSET Cells
    <2>1. config.bounds \in Areas /\ config.area \in Area!AreaTexts \cup {None}
      BY DEF Config
    <2>2. config.area # None => /\ config.area.kind \in {"wkt", "file"}
                                /\ config.area.cells \in SUBSET Cells
      BY <2>1 DEF Area!AreaTexts
    <2> QED
      BY <2>1, <2>2, AreaOrNone
  <1>3. Area!ReadArea(Area!Nothing, config.area) = Area!FromWkt(config.area)
    BY DEF Area!ReadArea, Area!Nothing
  <1>4. CASE config.bounds # None /\ config.area # None
    <2>1. area = Invalid
      BY <1>4 DEF Area!FromConfig, Area!Intersection, Area!ConfigGet
    <2> QED
      BY <1>4, <2>1
  <1>5. CASE config.bounds # None /\ config.area = None
    <2>1. area = config.bounds
      BY <1>5 DEF Area!FromConfig
    <2>2. Area!AskedFor(given) = config.bounds \cap Cells
      BY <1>1, <1>5 DEF Area!AskedFor
    <2>3. config.bounds \cap Cells = config.bounds
      BY <1>2, <1>5
    <2> QED
      BY <1>2, <1>5, <2>1, <2>2, <2>3, InvalidAssumption
  <1>6. CASE config.bounds = None /\ config.area # None
    <2>1. area = Area!FromWkt(config.area)
      BY <1>3, <1>6 DEF Area!FromConfig
    <2>2. Area!AskedFor(given) = config.area.cells
      BY <1>1, <1>6 DEF Area!AskedFor
    <2>3. area = IF config.area.kind = "wkt" THEN config.area.cells ELSE Invalid
      BY <1>6, <2>1 DEF Area!FromWkt
    <2> HIDE DEF area, given
    <2>4. CASE config.area.kind = "wkt"
      <3>1. area = config.area.cells /\ area \in SUBSET Cells
        BY <1>2, <1>6, <2>3, <2>4
      <3> QED
        BY <2>2, <3>1, InvalidAssumption DEF area, given
    <2>5. CASE config.area.kind # "wkt"
      <3>1. config.area.kind = "file" /\ area = Invalid
        BY <1>2, <1>6, <2>3, <2>5
      <3> QED
        BY <3>1 DEF area
    <2> QED
      BY <2>4, <2>5
  <1>7. CASE config.bounds = None /\ config.area = None
    <2>1. area = Invalid
      BY <1>7 DEF Area!FromConfig
    <2> QED
      BY <1>7, <2>1
  <1> QED
    BY <1>4, <1>5, <1>6, <1>7

LEMMA NoOtherArea ==
    ASSUME NEW params \in Params, NEW config \in Config
    PROVE  Area!AreaIsAsAskedFor(params, config)
  <1>1. DOMAIN params = {"bounds", "geometry", "area", "point", "tile"}
    BY DEF Params
  <1>2. CASE params # Area!Nothing
    <2>1. \E field \in DOMAIN params : params[field] # None
      BY <1>1, <1>2 DEF Params, Area!Nothing
    <2>2. Area!ProcessAreaFromConfig(params, config) = Area!FromParams(params)
      BY <2>1 DEF Area!ProcessAreaFromConfig
    <2> QED
      BY <1>2, <2>2, ParamsAreRead DEF Area!AreaIsAsAskedFor
  <1>3. CASE params = Area!Nothing
    <2>1. \A field \in DOMAIN params : params[field] = None
      BY <1>1, <1>3 DEF Area!Nothing
    <2>2. Area!ProcessAreaFromConfig(params, config) = Area!FromConfig(Area!Nothing, config)
      BY <1>3, <2>1 DEF Area!ProcessAreaFromConfig
    <2> QED
      BY <1>3, <2>2, ConfigIsRead DEF Area!AreaIsAsAskedFor
  <1> QED
    BY <1>2, <1>3

-----------------------------------------------------------------------------
(***************************************************************************)
(* jobs(): the two registries agree.  A job has any fields, of which a      *)
(* query asks for some.                                                     *)
(***************************************************************************)
LEMMA QuotientGrows ==
    ASSUME NEW k \in Nat \ {0}, NEW a \in Nat, NEW b \in Nat, a <= b
    PROVE  a \div k \in Nat /\ b \div k \in Nat /\ a \div k <= b \div k
  <1> DEFINE p == a \div k
             q == b \div k
  <1>1. /\ p \in Nat /\ k * p <= a
        /\ q \in Nat /\ b < k * q + k
    OBVIOUS
  <1> HIDE DEF p, q
  <1>2. ASSUME q < p PROVE FALSE
    <2>1. q + 1 <= p
      BY <1>1, <1>2
    <2>2. k * (q + 1) <= k * p
      BY <1>1, <2>1
    <2>3. k * (q + 1) = k * q + k
      BY <1>1
    <2>4. k * q \in Nat /\ k * p \in Nat
      BY <1>1
    <2> QED
      BY <1>1, <2>2, <2>3, <2>4
  <1>3. p <= q
    BY <1>1, <1>2
  <1> QED
    BY <1>1, <1>3 DEF p, q

\* The bounds of a query that are no dates mean the same to both registries;
\* the dates MongoDB rounds.
LEMMA SameCondition ==
    ASSUME NEW job, NEW query, NEW field \in Asked(query), field # "updated"
    PROVE  /\ field \notin {"from_date", "to_date"} =>
                 \E condition \in MongoQuery(query) :
                    MongoHolds(job, condition) = MemoryMatches(job, field, query[field])
           /\ field \in {"from_date", "to_date"} =>
                 \E condition \in MongoQuery(query) :
                    MongoHolds(job, condition) =
                        IF field = "from_date"
                        THEN MongoDate(job.updated) >= MongoDate(query[field])
                        ELSE MongoDate(job.updated) <= MongoDate(query[field])
  <1>1. CASE field \in {"from_date", "to_date"}
    <2> DEFINE condition == <<"updated", IF field = "from_date" THEN "$gte" ELSE "$lte",
                              MongoDate(query[field])>>
    <2>1. condition \in MongoQuery(query)
      BY <1>1 DEF MongoQuery, MongoDates
    <2>2. /\ condition[1] = "updated" /\ condition[3] = MongoDate(query[field])
          /\ condition[2] = IF field = "from_date" THEN "$gte" ELSE "$lte"
      OBVIOUS
    <2> HIDE DEF condition
    <2>3. MongoHolds(job, condition) =
              IF field = "from_date" THEN MongoDate(job.updated) >= MongoDate(query[field])
              ELSE MongoDate(job.updated) <= MongoDate(query[field])
      BY <2>2 DEF MongoHolds
    <2> QED
      BY <1>1, <2>1, <2>3
  <1>2. CASE field = "status"
    <2> DEFINE condition == <<"status", "$in", query[field]>>
    <2>1. condition \in MongoQuery(query)
      BY <1>2 DEF MongoQuery
    <2>2. condition[1] = "status" /\ condition[2] = "$in" /\ condition[3] = query[field]
      OBVIOUS
    <2> HIDE DEF condition
    <2>3. MongoHolds(job, condition) = MemoryMatches(job, field, query[field])
      BY <1>2, <2>2 DEF MongoHolds, MemoryMatches
    <2> QED
      BY <1>2, <2>1, <2>3
  <1>3. CASE field = "bounds"
    <2> DEFINE condition == <<"area", "$geoIntersects", query[field]>>
    <2>1. condition \in MongoQuery(query)
      BY <1>3 DEF MongoQuery
    <2>2. /\ condition[1] = "area" /\ condition[2] = "$geoIntersects"
          /\ condition[3] = query[field]
      OBVIOUS
    <2> HIDE DEF condition
    <2>3. MongoHolds(job, condition) = MemoryMatches(job, field, query[field])
      BY <1>3, <2>2 DEF MongoHolds, MemoryMatches
    <2> QED
      BY <1>3, <2>1, <2>3
  <1>4. CASE field \notin {"from_date", "to_date", "status", "bounds"}
    <2> DEFINE condition == <<field, "$eq", query[field]>>
    <2>1. condition \in MongoQuery(query)
      BY <1>4 DEF MongoQuery
    <2>2. condition[1] = field /\ condition[2] = "$eq" /\ condition[3] = query[field]
      OBVIOUS
    <2> HIDE DEF condition
    <2>3. MongoHolds(job, condition) = MemoryMatches(job, field, query[field])
      BY <1>4, <2>2 DEF MongoHolds, MemoryMatches
    <2> QED
      BY <1>4, <2>1, <2>3
  <1> QED
    BY <1>1, <1>2, <1>3, <1>4

LEMMA RegistriesAnswerAlike ==
    ASSUME NEW jobs, \A job \in jobs : job.updated \in Nat,
           NEW query, "updated" \notin DOMAIN query,
           \A field \in Asked(query) \cap {"from_date", "to_date"} : query[field] \in Nat
    PROVE  RegistriesAgree(jobs, query)
  <1>1. TicksPerMs \in Nat \ {0}
    BY TicksAssumption
  <1>2. \A a, b \in Nat : /\ MongoDate(a) \in Nat
                          /\ a <= b => MongoDate(a) <= MongoDate(b)
    BY <1>1, QuotientGrows DEF MongoDate
  <1>3. ASSUME NEW job \in MemoryJobs(jobs, query) PROVE job \in MongoJobs(jobs, query)
    <2>1. job \in jobs /\ \A field \in Asked(query) : MemoryMatches(job, field, query[field])
      BY DEF MemoryJobs
    <2> SUFFICES ASSUME NEW condition \in MongoQuery(query) PROVE MongoHolds(job, condition)
      BY <2>1 DEF MongoJobs
    <2>2. CASE condition \in MongoDates(query)
      <3>1. PICK field \in Asked(query) \cap {"from_date", "to_date"} :
                condition = <<"updated", IF field = "from_date" THEN "$gte" ELSE "$lte",
                              MongoDate(query[field])>>
        BY <2>2 DEF MongoDates
      <3>2. /\ condition[1] = "updated" /\ condition[3] = MongoDate(query[field])
            /\ condition[2] = IF field = "from_date" THEN "$gte" ELSE "$lte"
        BY <3>1
      <3>3. job.updated \in Nat /\ query[field] \in Nat
        BY <2>1
      <3>4. IF field = "from_date" THEN job.updated >= query[field]
            ELSE job.updated <= query[field]
        BY <2>1 DEF MemoryMatches
      <3>5. IF field = "from_date" THEN MongoDate(job.updated) >= MongoDate(query[field])
            ELSE MongoDate(job.updated) <= MongoDate(query[field])
        BY <1>2, <3>3, <3>4
      <3> QED
        BY <3>2, <3>5 DEF MongoHolds
    <2>3. ASSUME NEW field \in Asked(query), field \notin {"from_date", "to_date"},
                 condition[3] = query[field],
                 \/ field = "status" /\ condition[1] = "status" /\ condition[2] = "$in"
                 \/ field = "bounds" /\ condition[1] = "area" /\ condition[2] = "$geoIntersects"
                 \/ /\ field \notin {"status", "bounds", "updated"}
                    /\ condition[1] = field /\ condition[2] = "$eq"
          PROVE  MongoHolds(job, condition)
      <3>1. MemoryMatches(job, field, query[field])
        BY <2>1
      <3> QED
        BY <2>3, <3>1 DEF MemoryMatches, MongoHolds
    <2>4. CASE condition \in {<<"status", "$in", query[field]>> :
                                field \in Asked(query) \cap {"status"}}
      <3>1. "status" \in Asked(query) /\ condition = <<"status", "$in", query["status"]>>
        BY <2>4
      <3>2. /\ condition[1] = "status" /\ condition[2] = "$in"
            /\ condition[3] = query["status"]
        BY <3>1
      <3> QED
        BY <2>3, <3>1, <3>2
    <2>5. CASE condition \in {<<"area", "$geoIntersects", query[field]>> :
                                field \in Asked(query) \cap {"bounds"}}
      <3>1. /\ "bounds" \in Asked(query)
            /\ condition = <<"area", "$geoIntersects", query["bounds"]>>
        BY <2>5
      <3>2. /\ condition[1] = "area" /\ condition[2] = "$geoIntersects"
            /\ condition[3] = query["bounds"]
        BY <3>1
      <3> QED
        BY <2>3, <3>1, <3>2
    <2>6. CASE condition \in {<<field, "$eq", query[field]>> :
                                field \in Asked(query)
                                          \ {"from_date", "to_date", "status", "bounds"}}
      <3>1. PICK field \in Asked(query) \ {"from_date", "to_date", "status", "bounds"} :
                condition = <<field, "$eq", query[field]>>
        BY <2>6
      <3>2. condition[1] = field /\ condition[2] = "$eq" /\ condition[3] = query[field]
        BY <3>1
      <3>3. field # "updated"
        BY DEF Asked
      <3> QED
        BY <2>3, <3>2, <3>3
    <2> QED
      BY <2>2, <2>4, <2>5, <2>6 DEF MongoQuery
  <1>4. ASSUME NEW job \in MongoJobs(jobs, query), job \notin MemoryJobs(jobs, query)
        PROVE  Borderline(job, query)
    <2>1. job \in jobs /\ \A condition \in MongoQuery(query) : MongoHolds(job, condition)
      BY DEF MongoJobs
    <2>2. PICK field \in Asked(query) : ~MemoryMatches(job, field, query[field])
      BY <1>4, <2>1 DEF MemoryJobs
    <2>3. field # "updated"
      BY DEF Asked
    <2>4. field \in {"from_date", "to_date"}
      BY <2>1, <2>2, <2>3, SameCondition
    <2>5. job.updated \in Nat /\ query[field] \in Nat
      BY <2>1, <2>4
    <2>6. IF field = "from_date" THEN MongoDate(job.updated) >= MongoDate(query[field])
          ELSE MongoDate(job.updated) <= MongoDate(query[field])
      BY <2>1, <2>3, <2>4, SameCondition
    <2>7. IF field = "from_date" THEN ~(job.updated >= query[field])
          ELSE ~(job.updated <= query[field])
      BY <2>2, <2>4 DEF MemoryMatches
    <2>8. MongoDate(job.updated) = MongoDate(query[field])
      BY <1>2, <2>5, <2>6, <2>7
    <2> QED
      BY <2>4, <2>8 DEF Borderline
  <1> QED
    BY <1>3, <1>4 DEF RegistriesAgree

-----------------------------------------------------------------------------
(***************************************************************************)
(* get_dask_specs() and update_gateway_cluster_options(): what a job gives  *)
(* reaches its cluster.                                                     *)
(***************************************************************************)
LEMMA OverIs ==
    ASSUME NEW f, NEW g
    PROVE  /\ DOMAIN Specs!Over(f, g) = DOMAIN f \cup DOMAIN g
           /\ \A x \in DOMAIN f : Specs!Over(f, g)[x] = f[x]
           /\ \A x \in (DOMAIN g) \ DOMAIN f : Specs!Over(f, g)[x] = g[x]
  BY DEF Specs!Over

Fields == {"worker_memory", "image", "worker_environment", "adapt_options"}

\* What a job may give: any of the fields, of which only the image may be None,
\* which is no dictionary.
IsSpecs(given) ==
    /\ DOMAIN given \subseteq Fields
    /\ Specs!Completed(given) # None
    /\ \A field \in (DOMAIN given) \ {"image"} : given[field] # None
    /\ "adapt_options" \in DOMAIN given =>
          Specs!Over(given.adapt_options, Specs!ClassSpecs.adapt_options) # None

NoneAssumed ==
    /\ None # "mapchete"
    /\ None # Specs!NoEnvironment /\ None # Specs!ClassSpecs.adapt_options

AsTexts(environment) ==
    [name \in DOMAIN environment |-> Specs!AsText(environment[name])]

LEMMA DefaultsAre ==
    /\ DOMAIN Specs!HubSpecs = Fields /\ DOMAIN Specs!ClassSpecs = Fields
    /\ Specs!HubSpecs.worker_memory = "hub" /\ Specs!ClassSpecs.worker_memory = "mapchete"
    /\ Specs!HubSpecs.image = "hub" /\ Specs!ClassSpecs.image = None
    /\ Specs!HubSpecs.worker_environment = Specs!NoEnvironment
    /\ Specs!ClassSpecs.worker_environment = Specs!NoEnvironment
    /\ DOMAIN Specs!NoEnvironment = {}
  BY DEF Specs!HubSpecs, Specs!ClassSpecs, Fields, Specs!NoEnvironment

LEMMA OptionsComplete ==
    LET defaults == Specs!ClassSpecs.adapt_options IN
    /\ Specs!Over(defaults, defaults) = defaults
    /\ Specs!Over(Specs!HubSpecs.adapt_options, defaults) = Specs!HubSpecs.adapt_options
    /\ \A options : Specs!Over(Specs!Over(options, defaults), defaults)
                        = Specs!Over(options, defaults)
  <1>1. DOMAIN Specs!ClassSpecs.adapt_options = {"minimum", "maximum"}
        /\ DOMAIN Specs!HubSpecs.adapt_options = {"minimum", "maximum"}
    BY DEF Specs!HubSpecs, Specs!ClassSpecs
  <1>2. /\ Specs!HubSpecs.adapt_options = [key \in {"minimum", "maximum"} |-> "hub"]
        /\ Specs!ClassSpecs.adapt_options = [key \in {"minimum", "maximum"} |-> "mapchete"]
    BY DEF Specs!HubSpecs, Specs!ClassSpecs
  <1> DEFINE defaults == Specs!ClassSpecs.adapt_options
             hub == Specs!HubSpecs.adapt_options
  <1>3. Specs!Over(defaults, defaults) = defaults
    BY <1>2 DEF Specs!Over
  <1>4. Specs!Over(hub, defaults) = hub
    BY <1>2 DEF Specs!Over
  <1>5. ASSUME NEW options
        PROVE  Specs!Over(Specs!Over(options, defaults), defaults) = Specs!Over(options, defaults)
    <2> DEFINE once == Specs!Over(options, defaults)
    <2>1. /\ DOMAIN once = DOMAIN options \cup DOMAIN defaults
          /\ once = [key \in DOMAIN options \cup DOMAIN defaults |->
                        IF key \in DOMAIN options THEN options[key] ELSE defaults[key]]
      BY DEF Specs!Over
    <2> HIDE DEF once, defaults
    <2>2. Specs!Over(once, defaults) = [key \in DOMAIN once |-> once[key]]
      BY <2>1 DEF Specs!Over
    <2>3. once = [key \in DOMAIN once |-> once[key]]
      BY <2>1
    <2> QED
      BY <2>2, <2>3 DEF once
  <1> QED
    BY <1>3, <1>4, <1>5

LEMMA CompletedIs ==
    ASSUME NEW given, DOMAIN given \subseteq Fields
    PROVE  /\ DOMAIN Specs!Completed(given) = Fields
           /\ \A field \in Fields \ {"adapt_options"} :
                Specs!Completed(given)[field] =
                    IF field \in DOMAIN given THEN given[field] ELSE Specs!ClassSpecs[field]
           /\ Specs!Completed(given).adapt_options =
                IF "adapt_options" \in DOMAIN given
                THEN Specs!Over(given.adapt_options, Specs!ClassSpecs.adapt_options)
                ELSE Specs!ClassSpecs.adapt_options
  <1> DEFINE specs == Specs!Over(given, Specs!ClassSpecs)
             options == Specs!Over(specs.adapt_options, Specs!ClassSpecs.adapt_options)
  <1>1. DOMAIN specs = Fields
    <2>1. DOMAIN specs = DOMAIN given \cup DOMAIN Specs!ClassSpecs
      BY OverIs
    <2> QED
      BY <2>1, DefaultsAre
  <1>2. \A field \in Fields :
            specs[field] = IF field \in DOMAIN given THEN given[field] ELSE Specs!ClassSpecs[field]
    BY DefaultsAre DEF Specs!Over
  <1>3. Specs!Completed(given) = [specs EXCEPT !.adapt_options = options]
    BY DEF Specs!Completed
  <1>4. options = IF "adapt_options" \in DOMAIN given
                  THEN Specs!Over(given.adapt_options, Specs!ClassSpecs.adapt_options)
                  ELSE Specs!ClassSpecs.adapt_options
    BY <1>2, OptionsComplete DEF Fields
  <1> HIDE DEF specs, options
  <1> QED
    BY <1>1, <1>2, <1>3, <1>4 DEF Fields

LEMMA EnforcedIs ==
    ASSUME NEW given
    PROVE  /\ DOMAIN Specs!EnforceStrings(given) = DOMAIN given
           /\ \A field \in (DOMAIN given) \ {"worker_environment"} :
                Specs!EnforceStrings(given)[field] = given[field]
           /\ "worker_environment" \in DOMAIN given =>
                Specs!EnforceStrings(given).worker_environment = AsTexts(given.worker_environment)
  BY DEF Specs!EnforceStrings, AsTexts

\* get_dask_specs() of what it is given last: gaps are filled with the hub's
\* specifications.
LEMMA OverHubIs ==
    ASSUME NEW given, DOMAIN given \subseteq Fields
    PROVE  LET specs == Specs!Completed(Specs!Over(Specs!EnforceStrings(given),
                                                   Specs!HubSpecs)) IN
           /\ \A field \in {"worker_memory", "image"} :
                specs[field] = IF field \in DOMAIN given THEN given[field]
                               ELSE Specs!HubSpecs[field]
           /\ specs.worker_environment =
                IF "worker_environment" \in DOMAIN given
                THEN AsTexts(given.worker_environment) ELSE Specs!NoEnvironment
           /\ specs.adapt_options =
                IF "adapt_options" \in DOMAIN given
                THEN Specs!Over(given.adapt_options, Specs!ClassSpecs.adapt_options)
                ELSE Specs!HubSpecs.adapt_options
  <1> DEFINE enforced == Specs!EnforceStrings(given)
             over == Specs!Over(enforced, Specs!HubSpecs)
  <1>1. DOMAIN over = Fields
    <2>1. DOMAIN over = DOMAIN enforced \cup DOMAIN Specs!HubSpecs
      BY OverIs
    <2>2. DOMAIN enforced = DOMAIN given
      BY EnforcedIs
    <2> QED
      BY <2>1, <2>2, DefaultsAre
  <1>2. \A field \in Fields :
            over[field] = IF field \in DOMAIN given THEN enforced[field]
                          ELSE Specs!HubSpecs[field]
    <2>1. DOMAIN enforced = DOMAIN given
      BY EnforcedIs
    <2> HIDE DEF enforced
    <2> QED
      BY <2>1, DefaultsAre DEF Specs!Over
  <1>3. /\ \A field \in Fields \ {"worker_environment"} :
              over[field] = IF field \in DOMAIN given THEN given[field]
                            ELSE Specs!HubSpecs[field]
        /\ over.worker_environment =
              IF "worker_environment" \in DOMAIN given
              THEN AsTexts(given.worker_environment) ELSE Specs!NoEnvironment
    <2>1. "worker_environment" \in Fields
      BY DEF Fields
    <2> HIDE DEF over
    <2> QED
      BY <1>2, <2>1, EnforcedIs, DefaultsAre
  <1> HIDE DEF over, enforced
  <1>4. /\ \A field \in Fields \ {"adapt_options"} : Specs!Completed(over)[field] = over[field]
        /\ Specs!Completed(over).adapt_options =
              Specs!Over(over.adapt_options, Specs!ClassSpecs.adapt_options)
    BY <1>1, CompletedIs DEF Fields
  <1>5. \A field \in {"worker_memory", "image"} :
            Specs!Completed(over)[field] = IF field \in DOMAIN given THEN given[field]
                                           ELSE Specs!HubSpecs[field]
    BY <1>3, <1>4 DEF Fields
  <1>6. Specs!Completed(over).worker_environment = over.worker_environment
    BY <1>4 DEF Fields
  <1>7. Specs!Completed(over).adapt_options =
            IF "adapt_options" \in DOMAIN given
            THEN Specs!Over(given.adapt_options, Specs!ClassSpecs.adapt_options)
            ELSE Specs!HubSpecs.adapt_options
    BY <1>3, <1>4, OptionsComplete DEF Fields
  <1> QED
    BY <1>3, <1>5, <1>6, <1>7 DEF over, enforced

\* The process configuration's specifications have been completed by their
\* class; what is left of them are all fields but an image that is missing.
LEMMA WithValueIs ==
    ASSUME NoneAssumed, NEW given, IsSpecs(given)
    PROVE  LET specs == Specs!WithValue(Specs!Completed(given))
               has_image == "image" \in DOMAIN given /\ given.image # None IN
           /\ DOMAIN specs = IF has_image THEN Fields ELSE Fields \ {"image"}
           /\ \A field \in DOMAIN specs : specs[field] = Specs!Completed(given)[field]
  <1> DEFINE completed == Specs!Completed(given)
             has_image == "image" \in DOMAIN given /\ given.image # None
  <1>1. DOMAIN given \subseteq Fields
    BY DEF IsSpecs
  <1>2. /\ DOMAIN completed = Fields
        /\ \A field \in Fields \ {"adapt_options"} :
                completed[field] =
                    IF field \in DOMAIN given THEN given[field] ELSE Specs!ClassSpecs[field]
        /\ completed.adapt_options =
                IF "adapt_options" \in DOMAIN given
                THEN Specs!Over(given.adapt_options, Specs!ClassSpecs.adapt_options)
                ELSE Specs!ClassSpecs.adapt_options
    BY <1>1, CompletedIs
  <1> HIDE DEF completed
  <1>3. completed.adapt_options # None
    BY <1>2 DEF IsSpecs, NoneAssumed
  <1>4. completed.worker_memory # None
    BY <1>2, DefaultsAre DEF IsSpecs, NoneAssumed, Fields
  <1>5. completed.worker_environment # None
    BY <1>2, DefaultsAre DEF IsSpecs, NoneAssumed, Fields
  <1>6. completed.image # None <=> has_image
    BY <1>2, DefaultsAre DEF Fields
  <1>7. {field \in DOMAIN completed : completed[field] # None}
            = IF has_image THEN Fields ELSE Fields \ {"image"}
    BY <1>2, <1>3, <1>4, <1>5, <1>6 DEF Fields
  <1>8. Specs!WithValue(completed)
            = [field \in {f \in DOMAIN completed : completed[f] # None} |-> completed[field]]
    BY DEF Specs!WithValue, Specs!Restrict, Restrict
  <1>9. /\ DOMAIN Specs!WithValue(completed) = IF has_image THEN Fields ELSE Fields \ {"image"}
        /\ \A field \in DOMAIN Specs!WithValue(completed) :
              Specs!WithValue(completed)[field] = completed[field]
    BY <1>7, <1>8
  <1> QED
    BY <1>9 DEF completed

\* Without variables there is nothing to make text of.
LEMMA NoTexts == AsTexts(Specs!NoEnvironment) = Specs!NoEnvironment
  BY DEF AsTexts, Specs!NoEnvironment

LEMMA SpecsReach ==
    ASSUME NoneAssumed,
           NEW config_specs, config_specs # None => IsSpecs(config_specs),
           NEW params_specs, params_specs # None => DOMAIN params_specs \subseteq Fields
    PROVE  /\ Specs!SpecsAsGiven(config_specs, params_specs)
           /\ Specs!SpecsOfJob(config_specs, params_specs).worker_environment =
                LET given == Specs!Given(config_specs, params_specs) IN
                IF "worker_environment" \in DOMAIN given
                THEN AsTexts(given.worker_environment) ELSE Specs!NoEnvironment
  <1> DEFINE specs == Specs!SpecsOfJob(config_specs, params_specs)
             given == Specs!Given(config_specs, params_specs)
             Is(field) == field \in DOMAIN given
                          /\ (given[field] # None \/ config_specs = None)
             Default(field) == IF config_specs # None /\ Specs!ClassSpecs[field] # None
                               THEN Specs!ClassSpecs[field] ELSE Specs!HubSpecs[field]
             Memory == specs.worker_memory = IF Is("worker_memory") THEN given.worker_memory
                                             ELSE Default("worker_memory")
             Image == specs.image = IF Is("image") THEN given.image ELSE Default("image")
             Options == specs.adapt_options =
                            IF Is("adapt_options")
                            THEN Specs!Over(given.adapt_options, Specs!ClassSpecs.adapt_options)
                            ELSE Default("adapt_options")
             Environment == specs.worker_environment =
                                IF "worker_environment" \in DOMAIN given
                                THEN AsTexts(given.worker_environment)
                                ELSE Specs!NoEnvironment
  <1> SUFFICES Memory /\ Image /\ Options /\ Environment
    BY DEF Specs!SpecsAsGiven
  <1>1. CASE config_specs # None
    <2> DEFINE completed == Specs!Completed(config_specs)
               valued == Specs!WithValue(completed)
               merged == Specs!Completed(Specs!Over(Specs!EnforceStrings(valued),
                                                    Specs!HubSpecs))
    <2>1. given = config_specs /\ IsSpecs(config_specs) /\ DOMAIN config_specs \subseteq Fields
      BY <1>1 DEF Specs!Given, IsSpecs
    <2>2. /\ DOMAIN valued = IF "image" \in DOMAIN config_specs /\ config_specs.image # None
                             THEN Fields ELSE Fields \ {"image"}
          /\ \A field \in DOMAIN valued : valued[field] = completed[field]
      BY <2>1, WithValueIs
    <2>3. /\ \A field \in Fields \ {"adapt_options"} :
                completed[field] = IF field \in DOMAIN config_specs THEN config_specs[field]
                                   ELSE Specs!ClassSpecs[field]
          /\ completed.adapt_options =
                IF "adapt_options" \in DOMAIN config_specs
                THEN Specs!Over(config_specs.adapt_options, Specs!ClassSpecs.adapt_options)
                ELSE Specs!ClassSpecs.adapt_options
      BY <2>1, CompletedIs
    <2>4. specs = merged
      BY <1>1, <2>1 DEF Specs!SpecsOfJob, Specs!GetDaskSpecs, IsSpecs
    <2> HIDE DEF valued, completed
    <2>5. DOMAIN valued \subseteq Fields
      BY <2>2
    <2>6. /\ \A field \in {"worker_memory", "image"} :
                merged[field] = IF field \in DOMAIN valued THEN valued[field]
                                ELSE Specs!HubSpecs[field]
          /\ merged.worker_environment =
                IF "worker_environment" \in DOMAIN valued
                THEN AsTexts(valued.worker_environment) ELSE Specs!NoEnvironment
          /\ merged.adapt_options =
                IF "adapt_options" \in DOMAIN valued
                THEN Specs!Over(valued.adapt_options, Specs!ClassSpecs.adapt_options)
                ELSE Specs!HubSpecs.adapt_options
      BY <2>5, OverHubIs
    <2> HIDE DEF merged, specs, given
    <2>7. Memory
      BY <1>1, <2>1, <2>2, <2>3, <2>4, <2>6, DefaultsAre DEF Fields, IsSpecs, NoneAssumed
    <2>8. Image
      BY <1>1, <2>1, <2>2, <2>3, <2>4, <2>6, DefaultsAre DEF Fields
    <2>9. Options
      <3>1. "adapt_options" \in DOMAIN valued /\ valued.adapt_options = completed.adapt_options
        BY <2>2 DEF Fields
      <3>2. specs.adapt_options = Specs!Over(completed.adapt_options,
                                             Specs!ClassSpecs.adapt_options)
        BY <2>4, <2>6, <3>1
      <3>3. CASE "adapt_options" \in DOMAIN config_specs
        <4>1. specs.adapt_options = Specs!Over(config_specs.adapt_options,
                                               Specs!ClassSpecs.adapt_options)
          BY <2>3, <3>2, <3>3, OptionsComplete
        <4>2. Is("adapt_options")
          BY <2>1, <3>3 DEF IsSpecs
        <4> QED
          BY <2>1, <4>1, <4>2
      <3>4. CASE "adapt_options" \notin DOMAIN config_specs
        <4>1. specs.adapt_options = Specs!ClassSpecs.adapt_options
          BY <2>3, <3>2, <3>4, OptionsComplete
        <4> QED
          BY <1>1, <2>1, <3>4, <4>1 DEF NoneAssumed
      <3> QED
        BY <3>3, <3>4
    <2>10. Environment
      <3>1. /\ "worker_environment" \in DOMAIN valued
            /\ valued.worker_environment = completed.worker_environment
        BY <2>2 DEF Fields
      <3>2. specs.worker_environment = AsTexts(completed.worker_environment)
        BY <2>4, <2>6, <3>1
      <3>3. completed.worker_environment =
                IF "worker_environment" \in DOMAIN given THEN given.worker_environment
                ELSE Specs!NoEnvironment
        BY <2>1, <2>3, DefaultsAre DEF Fields
      <3> QED
        BY <3>2, <3>3, NoTexts
    <2> QED
      BY <2>7, <2>8, <2>9, <2>10
  <1>2. ASSUME config_specs = None, params_specs # None
        PROVE  Memory /\ Image /\ Options /\ Environment
    <2> DEFINE merged == Specs!Completed(Specs!Over(Specs!EnforceStrings(params_specs),
                                                    Specs!HubSpecs))
    <2>1. given = params_specs /\ DOMAIN params_specs \subseteq Fields
      BY <1>2 DEF Specs!Given
    <2>2. specs = merged
      BY <1>2 DEF Specs!SpecsOfJob, Specs!GetDaskSpecs
    <2>3. /\ \A field \in {"worker_memory", "image"} :
                merged[field] = IF field \in DOMAIN params_specs THEN params_specs[field]
                                ELSE Specs!HubSpecs[field]
          /\ merged.worker_environment =
                IF "worker_environment" \in DOMAIN params_specs
                THEN AsTexts(params_specs.worker_environment) ELSE Specs!NoEnvironment
          /\ merged.adapt_options =
                IF "adapt_options" \in DOMAIN params_specs
                THEN Specs!Over(params_specs.adapt_options, Specs!ClassSpecs.adapt_options)
                ELSE Specs!HubSpecs.adapt_options
      BY <2>1, OverHubIs
    <2> HIDE DEF merged, specs, given
    <2> QED
      BY <1>2, <2>1, <2>2, <2>3
  <1>3. ASSUME config_specs = None, params_specs = None
        PROVE  Memory /\ Image /\ Options /\ Environment
    <2>1. given = Specs!NoEnvironment /\ specs = Specs!HubSpecs
      BY <1>3 DEF Specs!Given, Specs!SpecsOfJob, Specs!GetDaskSpecs
    <2> HIDE DEF specs, given
    <2> QED
      BY <1>3, <2>1, DefaultsAre
  <1> QED
    BY <1>1, <1>2, <1>3

LEMMA EnvironmentReaches ==
    ASSUME NoneAssumed,
           NEW config_specs, config_specs # None => IsSpecs(config_specs),
           NEW params_specs, params_specs # None => DOMAIN params_specs \subseteq Fields,
           NEW options, {"worker_memory", "image", "environment"} \subseteq DOMAIN options,
           NEW environ, NEW prefixes
    PROVE  Specs!EnvironmentOfJob(options, environ, prefixes, config_specs, params_specs)
  <1> DEFINE job == Specs!Given(config_specs, params_specs)
             specs == Specs!SpecsOfJob(config_specs, params_specs)
             wanted == Specs!EnforceStrings(Specs!Over(job, Specs!HubSpecs)).worker_environment
             passed == Specs!Passed(environ, prefixes)
             environment == Specs!UpdateGatewayClusterOptions(options, environ, prefixes,
                                                              specs).environment
  <1>1. wanted = specs.worker_environment
    <2>1. /\ DOMAIN Specs!Over(job, Specs!HubSpecs) = DOMAIN job \cup DOMAIN Specs!HubSpecs
          /\ "worker_environment" \in DOMAIN job =>
                Specs!Over(job, Specs!HubSpecs).worker_environment = job.worker_environment
          /\ "worker_environment" \notin DOMAIN job =>
                Specs!Over(job, Specs!HubSpecs).worker_environment = Specs!NoEnvironment
      BY DefaultsAre DEF Specs!Over, Fields
    <2>2. wanted = AsTexts(Specs!Over(job, Specs!HubSpecs).worker_environment)
      BY <2>1, EnforcedIs, DefaultsAre DEF Fields
    <2>3. specs.worker_environment =
                IF "worker_environment" \in DOMAIN job
                THEN AsTexts(job.worker_environment) ELSE Specs!NoEnvironment
      BY SpecsReach
    <2> HIDE DEF job, specs, wanted
    <2> QED
      BY <2>1, <2>2, <2>3, NoTexts
  <1>2. environment = Specs!Over(specs.worker_environment,
                                 Specs!Over(passed, options.environment))
    <2> HIDE DEF specs
    <2> QED
      BY DEF Specs!UpdateGatewayClusterOptions, Specs!ClusterEnvironment
  <1>3. \A name \in DOMAIN passed : Specs!StartsWith(name, prefixes)
    BY DEF Specs!Passed, Specs!Restrict, Restrict
  <1> HIDE DEF wanted, specs, passed, environment
  <1>4. \A name \in DOMAIN wanted : environment[name] = wanted[name]
    <2> DEFINE rest == Specs!Over(passed, options.environment)
    <2>1. \A name \in DOMAIN wanted : Specs!Over(wanted, rest)[name] = wanted[name]
      BY OverIs
    <2> QED
      BY <1>1, <1>2, <2>1
  <1>5. DOMAIN environment = DOMAIN wanted \cup (DOMAIN passed \cup DOMAIN options.environment)
    <2> DEFINE rest == Specs!Over(passed, options.environment)
    <2>1. \A f, g : DOMAIN Specs!Over(f, g) = DOMAIN f \cup DOMAIN g
      BY OverIs
    <2>2. DOMAIN rest = DOMAIN passed \cup DOMAIN options.environment
      BY <2>1
    <2>3. DOMAIN environment = DOMAIN wanted \cup DOMAIN rest
      <3>1. environment = Specs!Over(wanted, rest)
        BY <1>1, <1>2
      <3> HIDE DEF rest
      <3> QED
        BY <2>1, <3>1
    <2> QED
      BY <2>2, <2>3
  <1>6. ASSUME "" \notin prefixes, NEW name \in DOMAIN environment,
               name \notin DOMAIN wanted \cup DOMAIN options.environment
        PROVE  name[1] \in prefixes
    BY <1>3, <1>5, <1>6 DEF Specs!StartsWith
  <1> QED
    BY <1>4, <1>6 DEF Specs!EnvironmentOfJob, wanted, environment, specs, job

-----------------------------------------------------------------------------
(***************************************************************************)
(* Induction over prefixes: a set of numbers up to n that holds 0, and with *)
(* each number its successor, holds them all.                               *)
(***************************************************************************)
LEMMA UpTo ==
    ASSUME NEW n \in Nat, NEW S, 0 \in S,
           \A i \in 1..n : i - 1 \in S => i \in S
    PROVE  0..n \subseteq S
  <1> DEFINE T == (0..n) \ S
  <1> SUFFICES ASSUME T # {} PROVE FALSE
    OBVIOUS
  <1>1. PICK k \in T : \A i \in T : k <= i
    <2>1. T \subseteq Nat
      OBVIOUS
    <2> HIDE DEF T
    <2> QED
      BY <2>1, SmallestExists
  <1>2. k # 0 /\ k \in 1..n
    BY <1>1
  <1>3. k - 1 \in S
    BY <1>1, <1>2
  <1> QED
    BY <1>1, <1>2, <1>3

(***************************************************************************)
(* A function may be defined by recursion over prefixes.                    *)
(***************************************************************************)
Follows(f, n, base, step) == f[0] = base /\ \A i \in 1..n : f[i] = step[i][f[i - 1]]

LEMMA RecursionExists ==
    ASSUME NEW V, NEW n \in Nat, NEW base \in V, NEW step \in [1..n -> [V -> V]]
    PROVE  \E f \in [0..n -> V] : Follows(f, n, base, step)
  <1> DEFINE Rec(k, f) == f[0] = base /\ \A i \in 1..k : f[i] = step[i][f[i - 1]]
             S == {k \in 0..n : \E f \in [0..n -> V] : Rec(k, f)}
  <1>1. 0 \in S
    <2> DEFINE f == [i \in 0..n |-> base]
    <2>1. f \in [0..n -> V]
      OBVIOUS
    <2>2. Rec(0, f)
      OBVIOUS
    <2> HIDE DEF f
    <2> QED
      BY <2>1, <2>2
  <1>2. ASSUME NEW k \in 1..n, k - 1 \in S PROVE k \in S
    <2>1. PICK f \in [0..n -> V] : Rec(k - 1, f)
      BY <1>2
    <2> DEFINE g == [f EXCEPT ![k] = step[k][f[k - 1]]]
    <2>2. g \in [0..n -> V]
      OBVIOUS
    <2>3. g[k] = step[k][f[k - 1]] /\ \A i \in 0..n : i # k => g[i] = f[i]
      OBVIOUS
    <2> HIDE DEF g
    <2>4. Rec(k, g)
      BY <2>1, <2>3
    <2> QED
      BY <2>2, <2>4
  <1>3. n \in S
    <2> HIDE DEF S
    <2>1. 0..n \subseteq S
      BY <1>1, <1>2, UpTo
    <2> QED
      BY <2>1
  <1>4. PICK f \in [0..n -> V] : Rec(n, f)
    BY <1>3
  <1> QED
    BY <1>4 DEF Follows

-----------------------------------------------------------------------------
(***************************************************************************)
(* FlattenSeq() puts the pieces together one after the other.               *)
(***************************************************************************)
Joins(f, seqs, n) ==
    /\ f[0] = seqs[1]
    /\ \A i \in 1..n : f[i] = f[i - 1] \o seqs[i + 1]
    /\ FlattenSeq(seqs) = f[n]

\* FlattenSeq() is defined by a function over prefixes, and it exists.
LEMMA FlattenIs ==
    ASSUME NEW V, NEW seqs \in Seq(Seq(V)), NEW n \in Nat, Len(seqs) = n + 1
    PROVE  \E f \in [0..n -> Seq(V)] : Joins(f, seqs, n)
  <1> DEFINE step == [i \in 1..n |-> [v \in Seq(V) |-> v \o seqs[i + 1]]]
             f == CHOOSE f : f = [i \in 1..Len(seqs) |->
                                    IF i = 1 THEN seqs[i] ELSE f[i - 1] \o seqs[i]]
             g == [i \in 0..n |-> f[i + 1]]
  <1>1. \A i \in 0..n : seqs[i + 1] \in Seq(V)
    OBVIOUS
  <1>2. \E h : h = [i \in 1..Len(seqs) |-> IF i = 1 THEN seqs[i] ELSE h[i - 1] \o seqs[i]]
    <2>1. step \in [1..n -> [Seq(V) -> Seq(V)]]
      <3> SUFFICES ASSUME NEW i \in 1..n, NEW v \in Seq(V)
                   PROVE  v \o seqs[i + 1] \in Seq(V)
        OBVIOUS
      <3> QED
        BY <1>1, ConcatProperties
    <2>2. seqs[1] \in Seq(V)
      BY <1>1
    <2>3. \A i \in 1..n, v \in Seq(V) : step[i][v] = v \o seqs[i + 1]
      OBVIOUS
    <2> DEFINE W == Seq(V)
    <2> HIDE DEF step, W
    <2>4. PICK k \in [0..n -> W] : Follows(k, n, seqs[1], step)
      <3>1. step \in [1..n -> [W -> W]] /\ seqs[1] \in W
        BY <2>1, <2>2 DEF W
      <3> QED
        BY <3>1, RecursionExists
    <2>5. ASSUME NEW i \in 1..n PROVE k[i] = k[i - 1] \o seqs[i + 1]
      <3>1. k[i - 1] \in Seq(V)
        BY DEF W
      <3> QED
        BY <2>3, <2>4, <3>1 DEF Follows
    <2> DEFINE h == [i \in 1..(n + 1) |-> k[i - 1]]
    <2>6. ASSUME NEW i \in 1..(n + 1)
          PROVE  h[i] = IF i = 1 THEN seqs[i] ELSE h[i - 1] \o seqs[i]
      <3>1. CASE i = 1
        BY <2>4, <3>1 DEF Follows
      <3>2. CASE i # 1
        <4>1. i - 1 \in 1..n /\ (i - 1) + 1 = i
          BY <3>2
        <4>2. k[i - 1] = k[(i - 1) - 1] \o seqs[i]
          BY <2>5, <4>1
        <4>3. h[i] = k[i - 1] /\ h[i - 1] = k[(i - 1) - 1]
          BY <4>1
        <4> QED
          BY <3>2, <4>2, <4>3
      <3> QED
        BY <3>1, <3>2
    <2>7. h = [i \in 1..(n + 1) |-> h[i]]
      OBVIOUS
    <2> HIDE DEF h
    <2>8. h = [i \in 1..(n + 1) |-> IF i = 1 THEN seqs[i] ELSE h[i - 1] \o seqs[i]]
      BY <2>6, <2>7
    <2> QED
      BY <2>8
  <1>3. f = [i \in 1..Len(seqs) |-> IF i = 1 THEN seqs[i] ELSE f[i - 1] \o seqs[i]]
    BY <1>2
  <1>4. FlattenSeq(seqs) = f[Len(seqs)]
    BY DEF FlattenSeq
  <1> HIDE DEF f
  <1>5. g[0] = seqs[1] /\ \A i \in 1..n : g[i] = g[i - 1] \o seqs[i + 1]
    <2>1. f[1] = seqs[1]
      BY <1>3
    <2>2. ASSUME NEW i \in 1..n PROVE f[i + 1] = f[i] \o seqs[i + 1]
      <3>1. i + 1 \in 1..Len(seqs) /\ i + 1 # 1 /\ (i + 1) - 1 = i
        OBVIOUS
      <3> QED
        BY <1>3, <3>1
    <2>3. g[0] = f[1] /\ \A i \in 1..n : g[i] = f[i + 1] /\ g[i - 1] = f[i]
      OBVIOUS
    <2> HIDE DEF g
    <2> QED
      BY <2>1, <2>2, <2>3
  <1>6. g[n] = FlattenSeq(seqs)
    BY <1>4
  <1>7. g = [i \in 0..n |-> g[i]]
    OBVIOUS
  <1> HIDE DEF g
  <1>8. \A i \in 0..n : g[i] \in Seq(V)
    <2> DEFINE S == {k \in 0..n : g[k] \in Seq(V)}
    <2>1. 0 \in S
      BY <1>1, <1>5
    <2>2. ASSUME NEW k \in 1..n, k - 1 \in S PROVE k \in S
      <3>1. g[k - 1] \in Seq(V)
        BY <2>2
      <3>2. g[k] = g[k - 1] \o seqs[k + 1]
        BY <1>5
      <3>4. seqs[k + 1] \in Seq(V)
        BY <1>1
      <3>3. g[k] \in Seq(V)
        BY <3>1, <3>2, <3>4, ConcatProperties
      <3> QED
        BY <3>3
    <2> HIDE DEF S
    <2>3. 0..n \subseteq S
      BY <2>1, <2>2, UpTo
    <2> USE DEF S
    <2> QED
      BY <2>3
  <1> QED
    BY <1>5, <1>6, <1>7, <1>8 DEF Joins

LEMMA FlattenEmpty == FlattenSeq(<<>>) = <<>>
  BY DEF FlattenSeq

\* The index of the last element, less one.
LEMMA LastIndex ==
    ASSUME NEW V, NEW s \in Seq(V), s # <<>>
    PROVE  \E n \in Nat : Len(s) = n + 1
  <1>1. Len(s) \in Nat \ {0}
    BY EmptySeq
  <1>2. Len(s) - 1 \in Nat /\ Len(s) = (Len(s) - 1) + 1
    BY <1>1
  <1> QED
    BY <1>2

\* Putting pieces together adds nothing.
LEMMA FlattenType ==
    ASSUME NEW V, NEW seqs \in Seq(Seq(V))
    PROVE  FlattenSeq(seqs) \in Seq(V)
  <1>1. CASE seqs = <<>>
    BY <1>1, FlattenEmpty, EmptySeq
  <1>2. CASE seqs # <<>>
    <2>1. PICK n \in Nat : Len(seqs) = n + 1
      BY <1>2, LastIndex
    <2>2. PICK f \in [0..n -> Seq(V)] : Joins(f, seqs, n)
      BY <2>1, FlattenIs
    <2> QED
      BY <2>2 DEF Joins
  <1> QED
    BY <1>1, <1>2

LEMMA FlattenAppend ==
    ASSUME NEW V, NEW seqs \in Seq(Seq(V)), NEW s \in Seq(V)
    PROVE  FlattenSeq(Append(seqs, s)) = FlattenSeq(seqs) \o s
  <1> DEFINE more == Append(seqs, s)
  <1>1. /\ more \in Seq(Seq(V)) /\ Len(more) = Len(seqs) + 1
        /\ \A i \in 1..Len(seqs) : more[i] = seqs[i]
        /\ more[Len(seqs) + 1] = s
    BY AppendProperties
  <1> HIDE DEF more
  <1>2. CASE seqs = <<>>
    <2>1. Len(more) = 0 + 1 /\ more[1] = s
      BY <1>1, <1>2
    <2>2. PICK f \in [0..0 -> Seq(V)] : Joins(f, more, 0)
      BY <1>1, <2>1, FlattenIs
    <2>3. FlattenSeq(more) = s
      BY <2>1, <2>2 DEF Joins
    <2> QED
      BY <1>2, <2>3, FlattenEmpty, ConcatEmptySeq DEF more
  <1>3. CASE seqs # <<>>
    <2>1. PICK n \in Nat : Len(seqs) = n + 1
      BY <1>3, LastIndex
    <2>2. PICK f \in [0..n -> Seq(V)] : Joins(f, seqs, n)
      BY <2>1, FlattenIs
    <2>3. PICK m \in Nat : m = n + 1
      OBVIOUS
    <2>4. Len(more) = m + 1
      BY <1>1, <2>1, <2>3
    <2>5. PICK g \in [0..m -> Seq(V)] : Joins(g, more, m)
      BY <1>1, <2>4, FlattenIs
    <2> DEFINE S == {i \in 0..n : f[i] = g[i]}
    <2>6. 0 \in S
      BY <1>1, <2>1, <2>2, <2>5 DEF Joins
    <2>7. ASSUME NEW i \in 1..n, i - 1 \in S PROVE i \in S
      <3>1. f[i] = f[i - 1] \o seqs[i + 1]
        BY <2>2 DEF Joins
      <3>0. i \in 1..m
        BY <2>3
      <3>2. g[i] = g[i - 1] \o more[i + 1]
        BY <2>5, <3>0 DEF Joins
      <3>3. more[i + 1] = seqs[i + 1]
        BY <1>1, <2>1
      <3>4. f[i - 1] = g[i - 1]
        BY <2>7
      <3>5. f[i] = g[i]
        BY <3>1, <3>2, <3>3, <3>4
      <3> QED
        BY <3>5
    <2> HIDE DEF S
    <2>8. 0..n \subseteq S
      BY <2>6, <2>7, UpTo
    <2> USE DEF S
    <2>9. f[n] = g[n]
      BY <2>8
    <2>10. g[m] = g[m - 1] \o more[m + 1] /\ m - 1 = n
      <3>1. m \in 1..m /\ m - 1 = n
        BY <2>3
      <3> QED
        BY <2>5, <3>1 DEF Joins
    <2>11. more[m + 1] = s
      BY <1>1, <2>1, <2>3
    <2> QED
      BY <2>2, <2>5, <2>9, <2>10, <2>11 DEF more, Joins
  <1> QED
    BY <1>2, <1>3

LEMMA FlattenOne ==
    ASSUME NEW V, NEW s \in Seq(V)
    PROVE  FlattenSeq(<<s>>) = s
  <1>1. Append(<<>>, s) = <<s>> /\ <<>> \in Seq(Seq(V))
    OBVIOUS
  <1>2. FlattenSeq(Append(<<>>, s)) = FlattenSeq(<<>>) \o s
    BY <1>1, FlattenAppend
  <1> QED
    BY <1>1, <1>2, FlattenEmpty, ConcatEmptySeq

\* The first elements of a sequence, one more at a time.
LEMMA PrefixGrows ==
    ASSUME NEW V, NEW s \in Seq(V), NEW i \in 1..Len(s)
    PROVE  /\ SubSeq(s, 1, i - 1) \in Seq(V) /\ s[i] \in V
           /\ SubSeq(s, 1, i) = Append(SubSeq(s, 1, i - 1), s[i])
  <1>1. s[i] \in V /\ SubSeq(s, 1, i - 1) \in Seq(V)
    OBVIOUS
  <1>2. SubSeq(s, 1, i) = SubSeq(s, 1, i - 1) \o << s[i] >>
    BY SubSeqRecursiveSecond
  <1> QED
    BY <1>1, <1>2, AppendIsConcat

LEMMA AppendToConcat ==
    ASSUME NEW V, NEW x \in Seq(V), NEW y \in Seq(V), NEW e \in V
    PROVE  x \o y \in Seq(V) /\ x \o Append(y, e) = Append(x \o y, e)
  <1>1. x \o y \in Seq(V) /\ Append(y, e) \in Seq(V)
    BY ConcatProperties, AppendProperties
  <1> DEFINE left == x \o Append(y, e)
             right == Append(x \o y, e)
  <1>2. left \in Seq(V) /\ right \in Seq(V) /\ Len(left) = Len(right)
    BY <1>1, ConcatProperties, AppendProperties
  <1>3. \A i \in 1..Len(left) : left[i] = right[i]
    BY <1>1
  <1> HIDE DEF left, right
  <1>4. left = right
    BY <1>2, <1>3, SeqEqual
  <1> QED
    BY <1>1, <1>4 DEF left, right

Associated(x, y, z) == (x \o y) \o z = x \o (y \o z)

LEMMA Associates ==
    ASSUME NEW V, NEW x \in Seq(V), NEW y \in Seq(V), NEW z \in Seq(V)
    PROVE  Associated(x, y, z)
  BY DEF Associated

\* Two rows of pieces are put together one after the other.
LEMMA FlattenConcat ==
    ASSUME NEW V, NEW seqs \in Seq(Seq(V)), NEW more \in Seq(Seq(V))
    PROVE  FlattenSeq(seqs \o more) = FlattenSeq(seqs) \o FlattenSeq(more)
  <1> DEFINE Pre(i) == SubSeq(more, 1, i)
             Good(i) == FlattenSeq(seqs \o Pre(i)) = FlattenSeq(seqs) \o FlattenSeq(Pre(i))
             S == {i \in 0..Len(more) : Good(i)}
  <1>0. Len(more) \in Nat
    BY LenProperties
  <1>1. 0 \in S
    <2>1. Pre(0) = <<>> /\ FlattenSeq(seqs) \in Seq(V)
      BY SubSeqEmpty, FlattenType
    <2> HIDE DEF Pre
    <2>2. seqs \o <<>> = seqs /\ FlattenSeq(seqs) \o <<>> = FlattenSeq(seqs)
      BY <2>1, ConcatEmptySeq
    <2>3. Good(0)
      BY <2>1, <2>2, FlattenEmpty
    <2> QED
      BY <1>0, <2>3
  <1>2. ASSUME NEW i \in 1..Len(more), i - 1 \in S PROVE i \in S
    <2> DEFINE pre == Pre(i - 1)
               e == more[i]
    <2>1. pre \in Seq(Seq(V)) /\ e \in Seq(V) /\ Pre(i) = Append(pre, e)
      BY PrefixGrows
    <2>2. FlattenSeq(seqs \o pre) = FlattenSeq(seqs) \o FlattenSeq(pre)
      BY <1>2
    <2> HIDE DEF Pre, pre, e
    <2>3. seqs \o Append(pre, e) = Append(seqs \o pre, e) /\ seqs \o pre \in Seq(Seq(V))
      <3>1. pre \in Seq(Seq(V)) /\ e \in Seq(V)
        BY <2>1
      <3> DEFINE W == Seq(V)
      <3> HIDE DEF W
      <3>2. seqs \in Seq(W) /\ pre \in Seq(W) /\ e \in W
        BY <3>1 DEF W
      <3>3. seqs \o pre \in Seq(W) /\ seqs \o Append(pre, e) = Append(seqs \o pre, e)
        BY <3>2, AppendToConcat
      <3> QED
        BY <3>3 DEF W
    <2>4. FlattenSeq(Append(seqs \o pre, e)) = FlattenSeq(seqs \o pre) \o e
      BY <2>1, <2>3, FlattenAppend
    <2>5. FlattenSeq(Append(pre, e)) = FlattenSeq(pre) \o e
      BY <2>1, FlattenAppend
    <2>6. (FlattenSeq(seqs) \o FlattenSeq(pre)) \o e = FlattenSeq(seqs) \o (FlattenSeq(pre) \o e)
      <3> DEFINE a == FlattenSeq(seqs)
                 b == FlattenSeq(pre)
      <3>1. a \in Seq(V) /\ b \in Seq(V) /\ e \in Seq(V)
        BY <2>1, FlattenType
      <3> HIDE DEF a, b
      <3>2. Associated(a, b, e)
        BY <3>1, Associates
      <3> QED
        BY <3>2 DEF a, b, Associated
    <2>7. Good(i)
      BY <2>1, <2>2, <2>3, <2>4, <2>5, <2>6
    <2> QED
      BY <2>7
  <1> HIDE DEF S
  <1>3. 0..Len(more) \subseteq S
    BY <1>0, <1>1, <1>2, UpTo
  <1> USE DEF S
  <1>4. Good(Len(more))
    BY <1>0, <1>3
  <1>5. Pre(Len(more)) = more
    BY SubSeqFull
  <1> HIDE DEF Pre
  <1> QED
    BY <1>4, <1>5

-----------------------------------------------------------------------------
(***************************************************************************)
(* What is read of two texts in a row is read one after the other.          *)
(***************************************************************************)
Glyphs(text) ==
    [i \in DOMAIN text |-> IF text[i] \in {Newline, Space} THEN <<>> ELSE << text[i] >>]

LEMMA GlyphsType ==
    ASSUME NEW C, NEW text \in Seq(C)
    PROVE  /\ Glyphs(text) \in Seq(Seq(C)) /\ Len(Glyphs(text)) = Len(text)
           /\ \A i \in 1..Len(text) :
                 Glyphs(text)[i] = IF text[i] \in {Newline, Space} THEN <<>> ELSE << text[i] >>
  <1>1. ASSUME NEW i \in 1..Len(text)
        PROVE  (IF text[i] \in {Newline, Space} THEN <<>> ELSE << text[i] >>) \in Seq(C)
    <2>1. text[i] \in C
      BY ElementOfSeq
    <2> QED
      BY <2>1
  <1>2. DOMAIN text = 1..Len(text) /\ Len(text) \in Nat
    BY LenProperties
  <1> QED
    BY <1>1, <1>2 DEF Glyphs

LEMMA ReadableType ==
    ASSUME NEW C, NEW text \in Seq(C)
    PROVE  Readable(text) = FlattenSeq(Glyphs(text)) /\ Readable(text) \in Seq(C)
  <1>1. Readable(text) = FlattenSeq(Glyphs(text))
    BY DEF Readable, Glyphs
  <1> QED
    BY <1>1, GlyphsType, FlattenType

LEMMA ReadableConcat ==
    ASSUME NEW C, NEW s \in Seq(C), NEW t \in Seq(C)
    PROVE  Readable(s \o t) = Readable(s) \o Readable(t)
  <1>1. s \o t \in Seq(C) /\ Len(s \o t) = Len(s) + Len(t) /\ Len(s) \in Nat /\ Len(t) \in Nat
    BY ConcatProperties, LenProperties
  <1> DEFINE left == Glyphs(s \o t)
             right == Glyphs(s) \o Glyphs(t)
  <1>2. /\ left \in Seq(Seq(C)) /\ Len(left) = Len(s) + Len(t)
        /\ right \in Seq(Seq(C)) /\ Len(right) = Len(s) + Len(t)
    <2>1. left \in Seq(Seq(C)) /\ Len(left) = Len(s \o t)
      BY <1>1, GlyphsType
    <2>2. /\ Glyphs(s) \in Seq(Seq(C)) /\ Len(Glyphs(s)) = Len(s)
          /\ Glyphs(t) \in Seq(Seq(C)) /\ Len(Glyphs(t)) = Len(t)
      BY GlyphsType
    <2>3. right \in Seq(Seq(C)) /\ Len(right) = Len(Glyphs(s)) + Len(Glyphs(t))
      BY <2>2, ConcatProperties
    <2> QED
      BY <1>1, <2>1, <2>2, <2>3
  <1>3. ASSUME NEW i \in 1..(Len(s) + Len(t)) PROVE left[i] = right[i]
    <2>1. left[i] = IF (s \o t)[i] \in {Newline, Space} THEN <<>> ELSE << (s \o t)[i] >>
      BY <1>1, GlyphsType
    <2>2. (s \o t)[i] = IF i <= Len(s) THEN s[i] ELSE t[i - Len(s)]
      BY ConcatProperties
    <2>3. right[i] = IF i <= Len(s) THEN Glyphs(s)[i] ELSE Glyphs(t)[i - Len(s)]
      BY GlyphsType, ConcatProperties
    <2>4. CASE i <= Len(s)
      <3>1. i \in 1..Len(s)
        BY <1>1, <2>4
      <3>2. Glyphs(s)[i] = IF s[i] \in {Newline, Space} THEN <<>> ELSE << s[i] >>
        BY <3>1, GlyphsType
      <3> QED
        BY <2>1, <2>2, <2>3, <2>4, <3>2
    <2>5. CASE ~(i <= Len(s))
      <3> DEFINE k == i - Len(s)
      <3>1. k \in 1..Len(t)
        BY <1>1, <2>5
      <3>2. Glyphs(t)[k] = IF t[k] \in {Newline, Space} THEN <<>> ELSE << t[k] >>
        BY <3>1, GlyphsType
      <3> QED
        BY <2>1, <2>2, <2>3, <2>5, <3>2
    <2> QED
      BY <2>4, <2>5
  <1> HIDE DEF left, right
  <1>4. left = right
    BY <1>2, <1>3, SeqEqual
  <1>5. FlattenSeq(Glyphs(s) \o Glyphs(t)) = FlattenSeq(Glyphs(s)) \o FlattenSeq(Glyphs(t))
    BY GlyphsType, FlattenConcat
  <1>6. /\ Readable(s) = FlattenSeq(Glyphs(s)) /\ Readable(t) = FlattenSeq(Glyphs(t))
        /\ Readable(s \o t) = FlattenSeq(left)
    BY <1>1, ReadableType DEF left
  <1> QED
    BY <1>4, <1>5, <1>6 DEF right

LEMMA ReadableOne ==
    ASSUME NEW C, NEW c \in C
    PROVE  Readable(<<c>>) = IF c \in {Newline, Space} THEN <<>> ELSE <<c>>
  <1> DEFINE glyph == IF c \in {Newline, Space} THEN <<>> ELSE <<c>>
  <1>1. PICK text \in Seq(C) : text = <<c>> /\ Len(text) = 1 /\ text[1] = c
    <2>1. <<c>> \in Seq(C) /\ Len(<<c>>) = 1 /\ <<c>>[1] = c
      OBVIOUS
    <2> QED
      BY <2>1
  <1>2. Glyphs(text) \in Seq(Seq(C)) /\ Len(Glyphs(text)) = 1 /\ Glyphs(text)[1] = glyph
    <2>1. 1 \in 1..Len(text)
      BY <1>1
    <2>2. Glyphs(text)[1] = IF text[1] \in {Newline, Space} THEN <<>> ELSE << text[1] >>
      BY <2>1, GlyphsType
    <2>3. Glyphs(text) \in Seq(Seq(C)) /\ Len(Glyphs(text)) = Len(text)
      BY GlyphsType
    <2> QED
      BY <1>1, <2>2, <2>3
  <1>3. glyph \in Seq(C)
    OBVIOUS
  <1> HIDE DEF glyph
  <1>4. Glyphs(text) = << glyph >>
    BY <1>2, <1>3
  <1> QED
    BY <1>1, <1>3, <1>4, ReadableType, FlattenOne DEF glyph

LEMMA ReadableAppend ==
    ASSUME NEW C, NEW s \in Seq(C), NEW c \in C
    PROVE  /\ Append(s, c) \in Seq(C)
           /\ Readable(Append(s, c)) = Readable(s) \o Readable(<<c>>)
           /\ c \in {Newline, Space} => Readable(Append(s, c)) = Readable(s)
  <1>1. Append(s, c) = s \o <<c>> /\ <<c>> \in Seq(C) /\ Append(s, c) \in Seq(C)
    BY AppendIsConcat, AppendProperties
  <1>2. Readable(Append(s, c)) = Readable(s) \o Readable(<<c>>)
    BY <1>1, ReadableConcat
  <1>3. c \in {Newline, Space} => Readable(<<c>>) = <<>>
    BY ReadableOne
  <1>4. Readable(s) \in Seq(C)
    BY ReadableType
  <1>5. Readable(s) \o <<>> = Readable(s)
    BY <1>4, ConcatEmptySeq
  <1> QED
    BY <1>1, <1>2, <1>3, <1>5

-----------------------------------------------------------------------------
(***************************************************************************)
(* What is read of pieces put together.                                     *)
(***************************************************************************)
Reads(seqs) == Readable(FlattenSeq(seqs))

LEMMA ReadsAppend ==
    ASSUME NEW C, NEW seqs \in Seq(Seq(C)), NEW s \in Seq(C)
    PROVE  /\ Reads(Append(seqs, s)) = Reads(seqs) \o Readable(s)
           /\ Reads(seqs) \in Seq(C) /\ Readable(s) \in Seq(C)
  <1>1. PICK flat \in Seq(C) : flat = FlattenSeq(seqs)
    BY FlattenType
  <1>2. FlattenSeq(Append(seqs, s)) = flat \o s
    BY <1>1, FlattenAppend
  <1>3. Readable(flat \o s) = Readable(flat) \o Readable(s)
    BY ReadableConcat
  <1>4. Readable(flat) \in Seq(C) /\ Readable(s) \in Seq(C)
    BY ReadableType
  <1> QED
    BY <1>1, <1>2, <1>3, <1>4 DEF Reads

LEMMA NothingToRead == Reads(<<>>) = <<>> /\ Readable(<<>>) = <<>>
  <1>1. Readable(<<>>) = FlattenSeq(<<>>)
    <2>1. Glyphs(<<>>) = <<>>
      BY DEF Glyphs
    <2> QED
      BY <2>1 DEF Readable, Glyphs
  <1> QED
    BY <1>1, FlattenEmpty DEF Reads

\* Pieces that read like the chunks they were cut from read like them together.
LEMMA ReadsAlike ==
    ASSUME NEW C, NEW pieces \in Seq(Seq(Seq(C))), NEW chunks \in Seq(Seq(C)),
           Len(pieces) = Len(chunks),
           \A i \in 1..Len(chunks) : Reads(pieces[i]) = Readable(chunks[i])
    PROVE  Reads(FlattenSeq(pieces)) = Reads(chunks)
  <1> DEFINE P(i) == SubSeq(pieces, 1, i)
             Q(i) == SubSeq(chunks, 1, i)
             Good(i) == Reads(FlattenSeq(P(i))) = Reads(Q(i))
             S == {i \in 0..Len(chunks) : Good(i)}
  <1>0. Len(chunks) \in Nat
    BY LenProperties
  <1>1. 0 \in S
    <2>1. P(0) = <<>> /\ Q(0) = <<>>
      BY SubSeqEmpty
    <2> HIDE DEF P, Q
    <2>2. Good(0)
      BY <2>1, FlattenEmpty
    <2> QED
      BY <1>0, <2>2
  <1>2. ASSUME NEW i \in 1..Len(chunks), i - 1 \in S PROVE i \in S
    <2>1. PICK p \in Seq(Seq(Seq(C))) : p = P(i - 1)
      BY PrefixGrows
    <2>2. PICK q \in Seq(Seq(C)) : q = Q(i - 1)
      BY PrefixGrows
    <2>3. PICK piece \in Seq(Seq(C)) : piece = pieces[i]
      BY PrefixGrows
    <2>4. PICK chunk \in Seq(C) : chunk = chunks[i]
      BY PrefixGrows
    <2>5. P(i) = Append(p, piece) /\ Q(i) = Append(q, chunk)
      BY <2>1, <2>2, <2>3, <2>4, PrefixGrows
    <2>6. Reads(FlattenSeq(p)) = Reads(q) /\ Reads(piece) = Readable(chunk)
      BY <1>2, <2>1, <2>2, <2>3, <2>4
    <2> HIDE DEF P, Q
    <2>7. PICK flat \in Seq(Seq(C)) : flat = FlattenSeq(p)
      BY FlattenType
    <2>8. FlattenSeq(Append(p, piece)) = flat \o piece
      BY <2>7, FlattenAppend
    <2>9. Reads(flat \o piece) = Reads(flat) \o Reads(piece)
      <3>1. FlattenSeq(flat \o piece) = FlattenSeq(flat) \o FlattenSeq(piece)
        BY FlattenConcat
      <3>2. PICK s \in Seq(C) : s = FlattenSeq(flat)
        BY FlattenType
      <3>3. PICK t \in Seq(C) : t = FlattenSeq(piece)
        BY FlattenType
      <3>4. Readable(s \o t) = Readable(s) \o Readable(t)
        BY ReadableConcat
      <3> QED
        BY <3>1, <3>2, <3>3, <3>4 DEF Reads
    <2>10. Reads(Append(q, chunk)) = Reads(q) \o Readable(chunk)
      BY ReadsAppend
    <2>11. Good(i)
      BY <2>5, <2>6, <2>7, <2>8, <2>9, <2>10
    <2> QED
      BY <2>11
  <1> HIDE DEF S
  <1>3. 0..Len(chunks) \subseteq S
    BY <1>0, <1>1, <1>2, UpTo
  <1>4. Good(Len(chunks))
    <2>1. Len(chunks) \in S
      BY <1>0, <1>3
    <2> QED
      BY <2>1 DEF S
  <1>5. P(Len(chunks)) = pieces /\ Q(Len(chunks)) = chunks
    BY SubSeqFull
  <1> HIDE DEF P, Q
  <1> QED
    BY <1>4, <1>5

-----------------------------------------------------------------------------
(***************************************************************************)
(* text.split(): the elements read like the text.                           *)
(***************************************************************************)
Grown(elements, c, split_by) ==
    IF c = split_by THEN Append(elements, <<>>)
    ELSE [elements EXCEPT ![Len(elements)] = Append(@, c)]

\* To replace the last element is to append another one.
LEMMA LastReplaced ==
    ASSUME NEW V, NEW s \in Seq(V), NEW a \in V, NEW b \in V
    PROVE  /\ [Append(s, a) EXCEPT ![Len(s) + 1] = b] = Append(s, b)
           /\ Append(s, b) \in Seq(V) /\ Append(s, b) # <<>>
  <1>1. /\ Append(s, a) \in Seq(V) /\ Len(Append(s, a)) = Len(s) + 1
        /\ Append(s, b) \in Seq(V) /\ Len(Append(s, b)) = Len(s) + 1
        /\ Append(s, b) # <<>> /\ Append(s, b)[Len(s) + 1] = b
        /\ \A i \in 1..Len(s) : Append(s, a)[i] = s[i] /\ Append(s, b)[i] = s[i]
    BY AppendProperties
  <1>2. PICK t \in Seq(V) : t = Append(s, a)
    BY <1>1
  <1>3. Len(s) \in Nat /\ Len(s) + 1 \in 1..Len(t)
    BY <1>1, <1>2, LenProperties
  <1>4. /\ [t EXCEPT ![Len(s) + 1] = b] \in Seq(V)
        /\ Len([t EXCEPT ![Len(s) + 1] = b]) = Len(t)
        /\ \A i \in 1..Len(t) : [t EXCEPT ![Len(s) + 1] = b][i] = IF i = Len(s) + 1 THEN b ELSE t[i]
    BY <1>3, ExceptSeq
  <1>5. PICK g \in Seq(V) : g = [t EXCEPT ![Len(s) + 1] = b]
    BY <1>4
  <1>6. PICK h \in Seq(V) : h = Append(s, b)
    BY <1>1
  <1>7. \A i \in 1..Len(g) : g[i] = h[i]
    BY <1>1, <1>2, <1>3, <1>4, <1>5, <1>6
  <1>8. g = h
    <2>1. Len(g) = Len(h)
      BY <1>1, <1>2, <1>4, <1>5, <1>6
    <2> QED
      BY <1>7, <2>1, SeqEqual
  <1> QED
    BY <1>1, <1>2, <1>5, <1>6, <1>8

LEMMA AppendedNotEmpty ==
    ASSUME NEW V, NEW s \in Seq(V), NEW e \in V
    PROVE  Append(s, e) # <<>>
  BY AppendProperties

\* One reads like the other followed by u.
TextReadsOn(t, s, u) == Readable(t) = Readable(s) \o u
ReadsOn(more, seqs, u) == Reads(more) = Reads(seqs) \o u

\* If the last piece reads on, so do the pieces.
LEMMA LongerLastReads ==
    ASSUME NEW C, NEW seqs \in Seq(Seq(C)), NEW s \in Seq(C), NEW t \in Seq(C), NEW u \in Seq(C),
           TextReadsOn(t, s, u)
    PROVE  ReadsOn(Append(seqs, t), Append(seqs, s), u)
  <1>1. /\ Reads(Append(seqs, t)) = Reads(seqs) \o Readable(t)
        /\ Reads(Append(seqs, s)) = Reads(seqs) \o Readable(s)
    BY ReadsAppend
  <1> DEFINE a == Reads(seqs)
             b == Readable(s)
             d == u
  <1>2. a \in Seq(C) /\ b \in Seq(C) /\ d \in Seq(C)
    BY ReadsAppend
  <1> HIDE DEF a, b, d
  <1>3. Associated(a, b, d)
    BY <1>2, Associates
  <1> QED
    BY <1>1, <1>3 DEF a, b, d, Associated, TextReadsOn, ReadsOn

\* One character more.
LEMMA GrownReads ==
    ASSUME NEW C, NEW split_by \in {Newline, Space}, NEW c \in C,
           NEW elements \in Seq(Seq(C)), elements # <<>>
    PROVE  /\ Grown(elements, c, split_by) \in Seq(Seq(C)) /\ Grown(elements, c, split_by) # <<>>
           /\ Reads(Grown(elements, c, split_by)) = Reads(elements) \o Readable(<<c>>)
  <1>1. CASE c = split_by
    <2>1. PICK empty \in Seq(C) : empty = <<>>
      BY EmptySeq
    <2>2. /\ Append(elements, empty) \in Seq(Seq(C)) /\ Append(elements, empty) # <<>>
          /\ Reads(Append(elements, empty)) = Reads(elements) \o Readable(empty)
      BY ReadsAppend, AppendProperties
    <2>3. Readable(<<c>>) = <<>> /\ Readable(empty) = <<>>
      BY <1>1, <2>1, ReadableOne, NothingToRead
    <2> QED
      BY <1>1, <2>1, <2>2, <2>3 DEF Grown
  <1>2. CASE c # split_by
    <2>1. PICK first \in Seq(Seq(C)), element \in Seq(C) : elements = Append(first, element)
      BY SequenceEmptyOrAppend
    <2>2. PICK longer \in Seq(C) :
              /\ longer = Append(element, c)
              /\ Readable(longer) = Readable(element) \o Readable(<<c>>)
      BY ReadableAppend
    <2>3. Grown(elements, c, split_by) = Append(first, longer)
      <3>1. /\ Len(elements) = Len(first) + 1 /\ Len(first) \in Nat
            /\ elements[Len(first) + 1] = element
            /\ \A i \in 1..Len(first) : elements[i] = first[i]
        BY <2>1, AppendProperties, LenProperties
      <3>2. Grown(elements, c, split_by) = [elements EXCEPT ![Len(first) + 1] = longer]
        BY <1>2, <2>2, <3>1 DEF Grown
      <3>3. [Append(first, element) EXCEPT ![Len(first) + 1] = longer] = Append(first, longer)
        BY LastReplaced
      <3> QED
        BY <2>1, <3>1, <3>2, <3>3
    <2>4. Append(first, longer) \in Seq(Seq(C)) /\ Append(first, longer) # <<>>
      <3> DEFINE W == Seq(C)
      <3>1. first \in Seq(W) /\ longer \in W
        OBVIOUS
      <3> HIDE DEF W
      <3>2. Append(first, longer) \in Seq(W)
        BY <3>1
      <3>3. Append(first, longer) # <<>>
        BY <3>1, AppendedNotEmpty
      <3> QED
        BY <3>2, <3>3 DEF W
    <2>5. <<c>> \in Seq(C) /\ Readable(<<c>>) \in Seq(C)
      <3>1. <<c>> \in Seq(C)
        OBVIOUS
      <3> QED
        BY <3>1, ReadableType
    <2>6. Reads(Append(first, longer)) = Reads(Append(first, element)) \o Readable(<<c>>)
      <3>1. PICK u \in Seq(C) : u = Readable(<<c>>)
        BY <2>5
      <3>2. TextReadsOn(longer, element, u)
        BY <2>2, <3>1 DEF TextReadsOn
      <3>3. ReadsOn(Append(first, longer), Append(first, element), u)
        BY <3>2, LongerLastReads
      <3> QED
        BY <3>1, <3>3 DEF ReadsOn
    <2> QED
      BY <2>1, <2>3, <2>4, <2>6
  <1> QED
    BY <1>1, <1>2

LEMMA ElementsRead ==
    ASSUME NEW C, NEW split_by \in {Newline, Space}, NEW text \in Seq(C)
    PROVE  /\ Elements(text, split_by) \in Seq(Seq(C))
           /\ Reads(Elements(text, split_by)) = Readable(text)
  <1> DEFINE n == Len(text)
             V == Seq(Seq(C)) \ {<<>>}
             step == [i \in 1..n |-> [v \in V |-> Grown(v, text[i], split_by)]]
             f == CHOOSE f : f = [i \in 0..n |->
                    IF i = 0 THEN << <<>> >>
                    ELSE IF text[i] = split_by THEN Append(f[i - 1], <<>>)
                    ELSE [f[i - 1] EXCEPT ![Len(f[i - 1])] = Append(@, text[i])]]
             Start == << <<>> >>
  <1>0. n \in Nat /\ \A i \in 1..n : text[i] \in C
    BY LenProperties, ElementOfSeq
  <1>1. Start \in V
    OBVIOUS
  <1>2. \A i \in 1..n, v \in V : Grown(v, text[i], split_by) \in V
    BY <1>0, GrownReads
  <1>3. \E h : h = [i \in 0..n |-> IF i = 0 THEN Start ELSE Grown(h[i - 1], text[i], split_by)]
    <2>1. /\ step \in [1..n -> [V -> V]]
          /\ \A i \in 1..n, v \in V : step[i][v] = Grown(v, text[i], split_by)
      BY <1>2
    <2> HIDE DEF step, V, Start, n
    <2>2. PICK h \in [0..n -> V] : Follows(h, n, Start, step)
      BY <1>0, <1>1, <2>1, RecursionExists
    <2>3. ASSUME NEW i \in 0..n
          PROVE  h[i] = IF i = 0 THEN Start ELSE Grown(h[i - 1], text[i], split_by)
      <3>1. CASE i = 0
        BY <2>2, <3>1 DEF Follows
      <3>2. CASE i # 0
        <4>1. i \in 1..n /\ i - 1 \in 0..n
          BY <1>0, <3>2
        <4>2. h[i] = step[i][h[i - 1]] /\ h[i - 1] \in V
          BY <2>2, <4>1 DEF Follows
        <4> QED
          BY <2>1, <3>2, <4>1, <4>2
      <3> QED
        BY <3>1, <3>2
    <2>4. h = [i \in 0..n |-> h[i]]
      OBVIOUS
    <2>5. h = [i \in 0..n |-> IF i = 0 THEN Start ELSE Grown(h[i - 1], text[i], split_by)]
      BY <2>3, <2>4
    <2> QED
      BY <2>5
  <1>4. f = [i \in 0..n |-> IF i = 0 THEN Start ELSE Grown(f[i - 1], text[i], split_by)]
    BY <1>3 DEF Grown
  <1>5. Elements(text, split_by) = f[n]
    BY DEF Elements
  <1> HIDE DEF f, V, Start, n
  <1>6. f[0] = Start
    BY <1>0, <1>4
  <1>7. ASSUME NEW i \in 1..n PROVE f[i] = Grown(f[i - 1], text[i], split_by)
    <2>1. i \in 0..n /\ i # 0
      BY <1>0
    <2> QED
      BY <1>4, <2>1
  <1> DEFINE Good(i) == f[i] \in V /\ Reads(f[i]) = Readable(SubSeq(text, 1, i))
             S == {i \in 0..n : Good(i)}
  <1>8. 0 \in S
    <2>1. SubSeq(text, 1, 0) = <<>>
      BY SubSeqEmpty
    <2>2. Reads(Start) = <<>>
      BY FlattenOne, EmptySeq, NothingToRead DEF Reads, Start
    <2>3. Good(0)
      BY <1>1, <1>6, <2>1, <2>2, NothingToRead
    <2> QED
      BY <1>0, <2>3
  <1>9. ASSUME NEW i \in 1..n, i - 1 \in S PROVE i \in S
    <2>1. PICK v \in Seq(Seq(C)) : v = f[i - 1] /\ v # <<>>
      BY <1>9 DEF V
    <2>2. PICK c \in C : c = text[i]
      BY <1>0
    <2>3. PICK pre \in Seq(C) : pre = SubSeq(text, 1, i - 1) /\ SubSeq(text, 1, i) = Append(pre, c)
      BY <2>2, PrefixGrows DEF n
    <2>4. Reads(v) = Readable(pre)
      BY <1>9, <2>1, <2>3
    <2>5. f[i] = Grown(v, c, split_by)
      BY <1>7, <2>1, <2>2
    <2>6. /\ Grown(v, c, split_by) \in V
          /\ Reads(Grown(v, c, split_by)) = Reads(v) \o Readable(<<c>>)
      BY <2>1, GrownReads DEF V
    <2>7. Readable(Append(pre, c)) = Readable(pre) \o Readable(<<c>>)
      BY ReadableAppend
    <2>8. Good(i)
      BY <2>3, <2>4, <2>5, <2>6, <2>7
    <2> QED
      BY <2>8
  <1> HIDE DEF S
  <1>10. 0..n \subseteq S
    BY <1>0, <1>8, <1>9, UpTo
  <1>11. Good(n)
    <2>1. n \in S
      BY <1>0, <1>10
    <2> QED
      BY <2>1 DEF S
  <1>12. SubSeq(text, 1, n) = text
    BY SubSeqFull DEF n
  <1> QED
    BY <1>5, <1>11, <1>12 DEF V

-----------------------------------------------------------------------------
(***************************************************************************)
(* _split(): the chunks read like the elements, turn by turn.               *)
(***************************************************************************)
Turns(C) == [chunks : Seq(Seq(C)), chunk : Seq(C)]
SoFar(split) == Append(split.chunks, split.chunk)

LEMMA SoFarType ==
    ASSUME NEW C, NEW split \in Turns(C)
    PROVE  /\ split.chunks \in Seq(Seq(C)) /\ split.chunk \in Seq(C)
           /\ SoFar(split) \in Seq(Seq(C)) /\ SoFar(split) # <<>>
  <1>1. split.chunks \in Seq(Seq(C)) /\ split.chunk \in Seq(C)
    BY DEF Turns
  <1> QED
    BY <1>1, AppendProperties DEF SoFar

\* One turn reads on by its element, whichever way it takes.
LEMMA TurnReads ==
    ASSUME NEW C, NEW split_by \in {Newline, Space}, split_by \in C, NEW max_length,
           NEW split \in Turns(C), NEW element \in Seq(C)
    PROVE  /\ AddElement(max_length, split_by, split, element) \in Turns(C)
           /\ ReadsOn(SoFar(AddElement(max_length, split_by, split, element)), SoFar(split),
                      Readable(element))
  <1> DEFINE next == AddElement(max_length, split_by, split, element)
  <1>1. PICK piece \in Seq(C) : piece = Append(element, split_by) /\ Readable(piece) = Readable(element)
    BY ReadableAppend
  <1>2. PICK chunks \in Seq(Seq(C)), chunk \in Seq(C) : chunks = split.chunks /\ chunk = split.chunk
    BY SoFarType
  <1>3. PICK u \in Seq(C) : u = Readable(element)
    BY ReadableType
  <1>4. CASE Len(split.chunk) + Len(piece) <= max_length
    <2>1. next = [split EXCEPT !.chunk = chunk \o piece]
      BY <1>1, <1>2, <1>4 DEF AddElement
    <2>2. PICK longer \in Seq(C) : longer = chunk \o piece
      BY ConcatProperties
    <2>3. next \in Turns(C) /\ next.chunks = chunks /\ next.chunk = longer
      BY <1>2, <2>1, <2>2 DEF Turns
    <2>4. Readable(chunk \o piece) = Readable(chunk) \o Readable(piece)
      BY ReadableConcat
    <2>5. TextReadsOn(longer, chunk, u)
      BY <1>1, <1>3, <2>2, <2>4 DEF TextReadsOn
    <2>6. ReadsOn(Append(chunks, longer), Append(chunks, chunk), u)
      BY <2>5, LongerLastReads
    <2> HIDE DEF next
    <2> QED
      BY <1>2, <1>3, <2>3, <2>6 DEF SoFar, next
  <1> DEFINE first == Append(chunks, chunk)
             second == Append(first, piece)
  <1>5. first \in Seq(Seq(C))
    BY AppendProperties
  <1> HIDE DEF first
  <1>6. second \in Seq(Seq(C)) /\ ReadsOn(second, first, u)
    <2>1. Reads(Append(first, piece)) = Reads(first) \o Readable(piece)
      BY <1>5, ReadsAppend
    <2> QED
      BY <1>1, <1>3, <1>5, <2>1, AppendProperties DEF ReadsOn
  <1> HIDE DEF second
  <1>7. CASE ~(Len(split.chunk) + Len(piece) <= max_length) /\ Len(piece) > max_length
    <2>1. next = [chunks |-> chunks \o <<chunk, piece>>, chunk |-> <<>>]
      BY <1>1, <1>2, <1>7 DEF AddElement
    <2>2. chunks \o <<chunk, piece>> = second
      BY DEF first, second
    <2>3. PICK empty \in Seq(C) : empty = <<>>
      BY EmptySeq
    <2>4. Reads(Append(second, empty)) = Reads(second) \o Readable(empty) /\ Reads(second) \in Seq(C)
      BY <1>6, ReadsAppend
    <2>5. Readable(empty) = <<>>
      BY <2>3, NothingToRead
    <2>6. Reads(second) \o <<>> = Reads(second)
      BY <2>4, ConcatEmptySeq
    <2>7. Reads(Append(second, empty)) = Reads(second)
      BY <2>4, <2>5, <2>6
    <2>8. next = [chunks |-> second, chunk |-> empty]
      BY <2>1, <2>2, <2>3
    <2> HIDE DEF next
    <2>9. next \in Turns(C) /\ next.chunks = second /\ next.chunk = empty
      BY <1>6, <2>8 DEF Turns
    <2> QED
      BY <1>2, <1>3, <1>6, <2>7, <2>9 DEF SoFar, ReadsOn, first, next
  <1>8. CASE ~(Len(split.chunk) + Len(piece) <= max_length) /\ ~(Len(piece) > max_length)
    <2>1. next = [chunks |-> first, chunk |-> piece]
      BY <1>1, <1>2, <1>8 DEF AddElement, first
    <2>2. next \in Turns(C) /\ next.chunks = first /\ next.chunk = piece
      BY <1>5, <2>1 DEF Turns
    <2> HIDE DEF next
    <2> QED
      BY <1>2, <1>3, <1>6, <2>2 DEF SoFar, first, second, next
  <1> QED
    BY <1>4, <1>7, <1>8

LEMMA SplitReads ==
    ASSUME NEW C, NEW split_by \in {Newline, Space}, split_by \in C, NEW max_length,
           NEW text \in Seq(C)
    PROVE  /\ Split(text, max_length, split_by) \in Seq(Seq(C))
           /\ Reads(Split(text, max_length, split_by)) = Readable(text)
  <1> DEFINE elements == Elements(text, split_by)
             n == Len(elements)
             V == Turns(C)
             Turn(i, v) == AddElement(max_length, split_by, v, elements[i])
             Start == [chunks |-> <<>>, chunk |-> <<>>]
             step == [i \in 1..n |-> [v \in V |-> Turn(i, v)]]
             f == CHOOSE f : f = [i \in 0..Len(elements) |->
                    IF i = 0 THEN [chunks |-> <<>>, chunk |-> <<>>]
                    ELSE AddElement(max_length, split_by, f[i - 1], elements[i])]
  <1>0. elements \in Seq(Seq(C)) /\ Reads(elements) = Readable(text)
    BY ElementsRead
  <1>1. Split(text, max_length, split_by) = SoFar(f[n])
    BY DEF Split, SoFar
  <1> HIDE DEF elements
  <1>2. n \in Nat /\ \A i \in 1..n : elements[i] \in Seq(C)
    BY <1>0, LenProperties, ElementOfSeq
  <1>3. Start \in V
    BY DEF Turns
  <1>4. \A i \in 1..n, v \in V : Turn(i, v) \in V
    BY <1>2, TurnReads
  <1>5. \E h : h = [i \in 0..n |-> IF i = 0 THEN Start ELSE Turn(i, h[i - 1])]
    <2>1. /\ step \in [1..n -> [V -> V]]
          /\ \A i \in 1..n, v \in V : step[i][v] = Turn(i, v)
      BY <1>4
    <2> HIDE DEF step, V, Start, n, Turn
    <2>2. PICK h \in [0..n -> V] : Follows(h, n, Start, step)
      BY <1>2, <1>3, <2>1, RecursionExists
    <2>3. ASSUME NEW i \in 0..n
          PROVE  h[i] = IF i = 0 THEN Start ELSE Turn(i, h[i - 1])
      <3>1. CASE i = 0
        BY <2>2, <3>1 DEF Follows
      <3>2. CASE i # 0
        <4>1. i \in 1..n /\ i - 1 \in 0..n
          BY <1>2, <3>2
        <4>2. h[i] = step[i][h[i - 1]] /\ h[i - 1] \in V
          BY <2>2, <4>1 DEF Follows
        <4> QED
          BY <2>1, <3>2, <4>1, <4>2
      <3> QED
        BY <3>1, <3>2
    <2>4. h = [i \in 0..n |-> h[i]]
      OBVIOUS
    <2>5. h = [i \in 0..n |-> IF i = 0 THEN Start ELSE Turn(i, h[i - 1])]
      BY <2>3, <2>4
    <2> QED
      BY <2>5
  <1>6. f = [i \in 0..n |-> IF i = 0 THEN Start ELSE Turn(i, f[i - 1])]
    BY <1>5
  <1> HIDE DEF f, Start, n, Turn
  <1>7. f[0] = Start
    BY <1>2, <1>6
  <1>8. ASSUME NEW i \in 1..n PROVE f[i] = Turn(i, f[i - 1])
    <2>1. i \in 0..n /\ i # 0
      BY <1>2
    <2> QED
      BY <1>6, <2>1
  <1> DEFINE Good(i) == f[i] \in V /\ Reads(SoFar(f[i])) = Reads(SubSeq(elements, 1, i))
             S == {i \in 0..n : Good(i)}
  <1> HIDE DEF V
  <1>9. 0 \in S
    <2>1. SubSeq(elements, 1, 0) = <<>>
      BY SubSeqEmpty
    <2>2. SoFar(Start) = << <<>> >>
      BY DEF SoFar, Start
    <2>3. Reads(<< <<>> >>) = <<>>
      BY FlattenOne, EmptySeq, NothingToRead DEF Reads
    <2>4. Good(0)
      BY <1>3, <1>7, <2>1, <2>2, <2>3, NothingToRead
    <2> QED
      BY <1>2, <2>4
  <1>10. ASSUME NEW i \in 1..n, i - 1 \in S PROVE i \in S
    <2>1. PICK v \in V : v = f[i - 1] /\ Reads(SoFar(v)) = Reads(SubSeq(elements, 1, i - 1))
      BY <1>10
    <2>2. PICK e \in Seq(C) : e = elements[i]
      BY <1>2
    <2>3. PICK pre \in Seq(Seq(C)) :
              pre = SubSeq(elements, 1, i - 1) /\ SubSeq(elements, 1, i) = Append(pre, e)
      BY <1>0, <2>2, PrefixGrows DEF n
    <2>4. PICK next \in V : next = f[i] /\ ReadsOn(SoFar(next), SoFar(v), Readable(e))
      <3>1. f[i] = AddElement(max_length, split_by, v, e)
        BY <1>8, <2>1, <2>2 DEF Turn
      <3> QED
        BY <3>1, TurnReads DEF V
    <2>5. Reads(Append(pre, e)) = Reads(pre) \o Readable(e)
      BY ReadsAppend
    <2>6. Reads(SoFar(next)) = Reads(SubSeq(elements, 1, i))
      BY <2>1, <2>3, <2>4, <2>5 DEF ReadsOn
    <2>7. Good(i)
      BY <2>4, <2>6
    <2> QED
      BY <1>2, <2>7
  <1> HIDE DEF S
  <1>11. 0..n \subseteq S
    BY <1>2, <1>9, <1>10, UpTo
  <1>12. Good(n)
    <2>1. n \in S
      BY <1>2, <1>11
    <2> QED
      BY <2>1 DEF S
  <1>13. SubSeq(elements, 1, n) = elements
    BY <1>0, SubSeqFull DEF n
  <1> QED
    BY <1>0, <1>1, <1>12, <1>13, SoFarType DEF V

-----------------------------------------------------------------------------
(***************************************************************************)
(* chunk_by_length(): slices of a word that follow each other.              *)
(***************************************************************************)
Fitting(C, max_length) == {t \in Seq(C) : Len(t) <= max_length}

\* There are as many slices as needed, and no more.
LEMMA SlicesEnough ==
    ASSUME NEW n \in Nat, NEW m \in Nat \ {0}
    PROVE  LET q == (n + m - 1) \div m IN q \in Nat /\ q * m >= n /\ q * m < n + m
  <1> DEFINE a == n + m - 1
             q == a \div m
  <1>1. q \in Nat /\ m * q <= a /\ a < m * q + m
    OBVIOUS
  <1> HIDE DEF q
  <1>2. m * q = q * m /\ q * m \in Nat
    BY <1>1
  <1> QED
    BY <1>1, <1>2 DEF q

LEMMA ChunkByLengthRight ==
    ASSUME NEW C, NEW text \in Seq(C), NEW max_length \in Nat \ {0}
    PROVE  /\ ChunkByLength(text, max_length) \in Seq(Fitting(C, max_length))
           /\ FlattenSeq(ChunkByLength(text, max_length)) = text
  <1> DEFINE n == Len(text)
             m == max_length
             q == (n + m - 1) \div m
             chunks == ChunkByLength(text, m)
             End(i) == IF i * m <= n THEN i * m ELSE n
  <1>0. n \in Nat /\ q \in Nat /\ q * m >= n /\ q * m < n + m
    BY LenProperties, SlicesEnough
  <1>1. chunks = [i \in 1..q |-> SubSeq(text, (i - 1) * m + 1, End(i))]
    BY DEF ChunkByLength
  <1>2. ASSUME NEW i \in 1..q
        PROVE  /\ (i - 1) * m \in 0..n /\ (i - 1) * m < n
               /\ End(i) \in (i - 1) * m .. n /\ End(i) <= (i - 1) * m + m
    <2>1. i * m = (i - 1) * m + m /\ q * m = (q - i) * m + i * m
      OBVIOUS
    <2>2. (q - i) * m \in Nat /\ (i - 1) * m \in Nat
      BY <1>0
    <2> QED
      BY <1>0, <2>1, <2>2
  <1>3. \A i \in 1..q : End(i - 1) = (i - 1) * m
    BY <1>2
  <1> HIDE DEF q, m, End
  <1>4. ASSUME NEW i \in 1..q
        PROVE  /\ chunks[i] = SubSeq(text, End(i - 1) + 1, End(i))
               /\ chunks[i] \in Fitting(C, m)
    <2>1. PICK from \in Nat : from = (i - 1) * m
      BY <1>2
    <2>2. PICK to \in Nat : to = End(i)
      BY <1>0, <1>2
    <2>3. from < n /\ from <= to /\ to <= n /\ to <= from + m
      BY <1>0, <1>2, <2>1, <2>2
    <2>4. chunks[i] = SubSeq(text, from + 1, to)
      BY <1>1, <2>1, <2>2
    <2>5. /\ SubSeq(text, from + 1, to) \in Seq(C)
          /\ Len(SubSeq(text, from + 1, to)) = IF from + 1 <= to THEN to - (from + 1) + 1 ELSE 0
      <3>1. \A k \in (from + 1)..to : text[k] \in C
        BY <1>0, <2>3, ElementOfSeq
      <3> QED
        BY <3>1, SubSeqProperties
    <2>6. Len(SubSeq(text, from + 1, to)) <= m
      BY <2>3, <2>5 DEF m
    <2> QED
      BY <1>3, <2>1, <2>2, <2>4, <2>5, <2>6 DEF Fitting
  <1>5. chunks \in Seq(Fitting(C, m)) /\ chunks \in Seq(Seq(C)) /\ Len(chunks) = q
    <2>1. chunks = [i \in 1..q |-> chunks[i]]
      BY <1>1
    <2> HIDE DEF chunks
    <2>2. chunks \in Seq(Fitting(C, m)) /\ Len(chunks) = q
      BY <1>0, <1>4, <2>1
    <2>3. Fitting(C, m) \subseteq Seq(C)
      BY DEF Fitting
    <2> QED
      BY <2>2, <2>3, SeqMonotonic
  <1> HIDE DEF chunks
  <1> DEFINE Good(i) == FlattenSeq(SubSeq(chunks, 1, i)) = SubSeq(text, 1, End(i))
             S == {i \in 0..q : Good(i)}
  <1>6. 0 \in S
    <2>1. End(0) = 0
      BY <1>0 DEF End, m
    <2>2. SubSeq(chunks, 1, 0) = <<>> /\ SubSeq(text, 1, 0) = <<>>
      BY SubSeqEmpty
    <2>3. Good(0)
      BY <2>1, <2>2, FlattenEmpty
    <2> QED
      BY <1>0, <2>3
  <1>7. ASSUME NEW i \in 1..q, i - 1 \in S PROVE i \in S
    <2>1. PICK c \in Seq(C) : c = chunks[i]
      BY <1>4 DEF Fitting
    <2>2. PICK pre \in Seq(Seq(C)) : pre = SubSeq(chunks, 1, i - 1) /\ SubSeq(chunks, 1, i) = Append(pre, c)
      BY <1>5, <2>1, PrefixGrows
    <2>3. FlattenSeq(Append(pre, c)) = FlattenSeq(pre) \o c
      BY FlattenAppend
    <2>4. FlattenSeq(pre) = SubSeq(text, 1, End(i - 1))
      BY <1>7, <2>2
    <2>5. PICK from \in 0..n : from = End(i - 1)
      BY <1>2, <1>3
    <2>6. PICK to \in from..n : to = End(i)
      BY <1>2, <1>3, <2>5
    <2>7. SubSeq(text, 1, from) \o SubSeq(text, from + 1, to) = SubSeq(text, 1, to)
      <3>1. 1 \in 1..(n + 1) /\ from \in (1 - 1)..n /\ to \in from..n
        BY <1>0
      <3> QED
        BY <3>1, ConcatAdjacentSubSeq
    <2>8. Good(i)
      BY <1>4, <2>1, <2>2, <2>3, <2>4, <2>5, <2>6, <2>7
    <2> QED
      BY <2>8
  <1> HIDE DEF S
  <1>8. 0..q \subseteq S
    BY <1>0, <1>6, <1>7, UpTo
  <1>9. Good(q)
    <2>1. q \in S
      BY <1>0, <1>8
    <2> QED
      BY <2>1 DEF S
  <1>10. End(q) = n
    <2>1. q * m \in Nat
      BY <1>0 DEF m
    <2> QED
      BY <1>0, <2>1 DEF End
  <1>11. SubSeq(chunks, 1, q) = chunks /\ SubSeq(text, 1, n) = text
    BY <1>5, SubSeqFull
  <1> QED
    BY <1>5, <1>9, <1>10, <1>11 DEF chunks, m

-----------------------------------------------------------------------------
(***************************************************************************)
(* split_long_text(): cutting what is too long, first at spaces, then       *)
(* anywhere.                                                                *)
(***************************************************************************)
\* Chunks are replaced by pieces that fit and read like them.
CutRight(Piece, chunks, C, max_length) ==
    /\ Piece = [i \in DOMAIN chunks |-> Piece[i]]
    /\ \A i \in 1..Len(chunks) :
          Piece[i] \in Seq(Fitting(C, max_length)) /\ Reads(Piece[i]) = Readable(chunks[i])

CutLike(cut, chunks, C, max_length) ==
    cut \in Seq(Fitting(C, max_length)) /\ Reads(cut) = Reads(chunks)

LEMMA PiecesRight ==
    ASSUME NEW C, NEW max_length \in Nat, NEW chunks \in Seq(Seq(C)), NEW Piece,
           CutRight(Piece, chunks, C, max_length)
    PROVE  CutLike(FlattenSeq(Piece), chunks, C, max_length)
  <1>1. DOMAIN chunks = 1..Len(chunks) /\ Len(chunks) \in Nat
    BY LenProperties
  <1>2. Piece \in Seq(Seq(Fitting(C, max_length))) /\ Len(Piece) = Len(chunks)
    <2> DEFINE V == Seq(Fitting(C, max_length))
    <2>1. Piece = [i \in DOMAIN chunks |-> Piece[i]] /\ \A i \in 1..Len(chunks) : Piece[i] \in V
      BY DEF CutRight
    <2> HIDE DEF V
    <2>2. Piece \in Seq(V) /\ Len(Piece) = Len(chunks)
      BY <1>1, <2>1
    <2> QED
      BY <2>2 DEF V
  <1>3. Piece \in Seq(Seq(Seq(C)))
    <2>1. Fitting(C, max_length) \subseteq Seq(C)
      BY DEF Fitting
    <2>2. Seq(Fitting(C, max_length)) \subseteq Seq(Seq(C))
      BY <2>1, SeqMonotonic
    <2> QED
      BY <1>2, <2>2, SeqMonotonic
  <1>4. FlattenSeq(Piece) \in Seq(Fitting(C, max_length))
    BY <1>2, FlattenType
  <1>5. \A i \in 1..Len(chunks) : Reads(Piece[i]) = Readable(chunks[i])
    BY DEF CutRight
  <1>6. Reads(FlattenSeq(Piece)) = Reads(chunks)
    BY <1>2, <1>3, <1>5, ReadsAlike
  <1> QED
    BY <1>4, <1>6 DEF CutLike

\* What fits stays as it is.
LEMMA WholePiece ==
    ASSUME NEW C, NEW max_length \in Nat, NEW chunk \in Seq(C), ~(Len(chunk) > max_length)
    PROVE  <<chunk>> \in Seq(Fitting(C, max_length)) /\ Reads(<<chunk>>) = Readable(chunk)
  <1>1. chunk \in Fitting(C, max_length)
    BY LenProperties DEF Fitting
  <1>2. FlattenSeq(<<chunk>>) = chunk
    BY FlattenOne
  <1> QED
    BY <1>1, <1>2 DEF Reads

WordPieces(words, max_length) ==
    [i \in DOMAIN words |->
        IF Len(words[i]) > max_length THEN ChunkByLength(words[i], max_length) ELSE << words[i] >>]

CutLine(line, max_length) ==
    FlattenSeq(WordPieces(Split(line, max_length, Space), max_length))

LinePieces(lines, max_length) ==
    [i \in DOMAIN lines |->
        IF Len(lines[i]) > max_length THEN CutLine(lines[i], max_length) ELSE << lines[i] >>]

\* split_long_text() written without operators as arguments.
LEMMA SplitLongTextIs ==
    ASSUME NEW text, NEW max_length
    PROVE  SplitLongText(text, max_length)
             = FlattenSeq(LinePieces(Split(text, max_length, Newline), max_length))
  BY DEF SplitLongText, CutWhereLong, CutLine, WordPieces, LinePieces

\* A line is cut into words and slices that fit and read like it.
LEMMA CutLineRight ==
    ASSUME NEW C, {Newline, Space} \subseteq C, NEW max_length \in Nat \ {0}, NEW line \in Seq(C)
    PROVE  /\ CutLine(line, max_length) \in Seq(Fitting(C, max_length))
           /\ Reads(CutLine(line, max_length)) = Readable(line)
  <1>1. PICK words \in Seq(Seq(C)) :
            words = Split(line, max_length, Space) /\ Reads(words) = Readable(line)
    BY SplitReads
  <1> DEFINE pieces == WordPieces(words, max_length)
  <1>2. ASSUME NEW i \in 1..Len(words)
        PROVE  pieces[i] \in Seq(Fitting(C, max_length)) /\ Reads(pieces[i]) = Readable(words[i])
    <2>1. PICK word \in Seq(C) : word = words[i]
      BY ElementOfSeq
    <2>2. pieces[i] = IF Len(word) > max_length THEN ChunkByLength(word, max_length) ELSE <<word>>
      BY <2>1, LenProperties DEF WordPieces
    <2> HIDE DEF pieces
    <2>3. CASE Len(word) > max_length
      <3>1. ChunkByLength(word, max_length) \in Seq(Fitting(C, max_length))
        BY ChunkByLengthRight
      <3>2. Reads(ChunkByLength(word, max_length)) = Readable(word)
        BY ChunkByLengthRight DEF Reads
      <3> QED
        BY <2>1, <2>2, <2>3, <3>1, <3>2
    <2>4. CASE ~(Len(word) > max_length)
      BY <2>1, <2>2, <2>4, WholePiece
    <2> QED
      BY <2>3, <2>4
  <1>3. pieces = [i \in DOMAIN words |-> pieces[i]]
    BY DEF WordPieces
  <1> HIDE DEF pieces
  <1>4. CutRight(pieces, words, C, max_length)
    BY <1>2, <1>3 DEF CutRight
  <1>5. CutLike(FlattenSeq(pieces), words, C, max_length)
    BY <1>4, PiecesRight
  <1> QED
    BY <1>1, <1>5 DEF CutLine, CutLike, pieces

(***************************************************************************)
(* Whatever the text and the maximum, every chunk fits, and the chunks read *)
(* like the text.                                                           *)
(***************************************************************************)
THEOREM LongTextsAreCut ==
    ASSUME NEW C, {Newline, Space} \subseteq C, NEW max_length \in Nat \ {0}, NEW text \in Seq(C)
    PROVE  EveryChunkFits(text, max_length) /\ NothingLost(text, max_length)
  <1>1. PICK lines \in Seq(Seq(C)) :
            lines = Split(text, max_length, Newline) /\ Reads(lines) = Readable(text)
    BY SplitReads
  <1> DEFINE pieces == LinePieces(lines, max_length)
  <1>2. ASSUME NEW i \in 1..Len(lines)
        PROVE  pieces[i] \in Seq(Fitting(C, max_length)) /\ Reads(pieces[i]) = Readable(lines[i])
    <2>1. PICK line \in Seq(C) : line = lines[i]
      BY ElementOfSeq
    <2>2. pieces[i] = IF Len(line) > max_length THEN CutLine(line, max_length) ELSE <<line>>
      BY <2>1, LenProperties DEF LinePieces
    <2> HIDE DEF pieces
    <2>3. CASE Len(line) > max_length
      BY <2>1, <2>2, <2>3, CutLineRight
    <2>4. CASE ~(Len(line) > max_length)
      BY <2>1, <2>2, <2>4, WholePiece
    <2> QED
      BY <2>3, <2>4
  <1>3. pieces = [i \in DOMAIN lines |-> pieces[i]]
    BY DEF LinePieces
  <1> HIDE DEF pieces
  <1>4. CutRight(pieces, lines, C, max_length)
    BY <1>2, <1>3 DEF CutRight
  <1>5. CutLike(FlattenSeq(pieces), lines, C, max_length)
    BY <1>4, PiecesRight
  <1>6. PICK chunks \in Seq(Fitting(C, max_length)) :
            chunks = SplitLongText(text, max_length) /\ Reads(chunks) = Readable(text)
    BY <1>1, <1>5, SplitLongTextIs DEF CutLike, pieces
  <1>7. EveryChunkFits(text, max_length)
    <2>1. \A i \in 1..Len(chunks) : Len(chunks[i]) <= max_length
      BY ElementOfSeq DEF Fitting
    <2>2. DOMAIN chunks = 1..Len(chunks)
      BY LenProperties
    <2> QED
      BY <1>6, <2>1, <2>2 DEF EveryChunkFits
  <1>8. NothingLost(text, max_length)
    BY <1>6 DEF NothingLost, Reads
  <1> QED
    BY <1>7, <1>8

-----------------------------------------------------------------------------
(***************************************************************************)
(* MCFunctions' inputs are inputs of that kind, whatever their bounds.      *)
(***************************************************************************)
SpecsInput(config_specs, params_specs, options_environment, environ, prefixes) ==
    [function |-> "dask_specs", config_specs |-> config_specs, params_specs |-> params_specs,
     options |-> [worker_memory |-> None, image |-> None, environment |-> options_environment],
     environ |-> environ, prefixes |-> prefixes]

LEMMA ChosenSpecs ==
    ASSUME ChooseSpecs
    PROVE  \E config_specs \in GivenSpecs \cup {None},
              params_specs \in GivenSpecs \cup {None, [worker_memory |-> "params"]} :
              \E options_environment, environ, prefixes :
                  input' = SpecsInput(config_specs, params_specs, options_environment,
                                      environ, prefixes)
  <1> DEFINE Pairs == ({None} \X (GivenSpecs \cup {None}))
                          \cup (GivenSpecs \X {None, [worker_memory |-> "params"]})
  <1>1. PICK specs \in Pairs,
             options_environment \in {<<>>, [name \in {<<"HOME", "">>} |-> <<"text", 3>>]},
             environ \in Environments, prefixes \in {{"MHUB"}, {"MHUB", ""}} :
            input' = SpecsInput(specs[1], specs[2], options_environment, environ, prefixes)
    BY DEF ChooseSpecs, SpecsInput
  <1>2. \A pair \in Pairs : /\ pair[1] \in GivenSpecs \cup {None}
                            /\ pair[2] \in GivenSpecs \cup {None, [worker_memory |-> "params"]}
    OBVIOUS
  <1> QED
    BY <1>1, <1>2

LEMMA OneFunctionAtATime ==
    ASSUME Next
    PROVE  \/ ChooseTasks /\ input'.function = "cluster_adapt"
           \/ ChooseText /\ input'.function = "split_long_text"
           \/ ChooseQuery /\ input'.function = "jobs"
           \/ ChooseArea /\ input'.function = "process_area_from_config"
           \/ ChooseSpecs /\ input'.function = "dask_specs"
           \/ ChooseConditions /\ input'.function = "is_failed"
  <1>1. ChooseTasks => input'.function = "cluster_adapt"
    BY DEF ChooseTasks
  <1>2. ChooseText => input'.function = "split_long_text"
    BY DEF ChooseText
  <1>3. ChooseQuery => input'.function = "jobs"
    BY DEF ChooseQuery
  <1>4. ChooseArea => input'.function = "process_area_from_config"
    BY DEF ChooseArea
  <1>5. ChooseSpecs => input'.function = "dask_specs"
    BY ChosenSpecs DEF SpecsInput
  <1>6. ChooseConditions => input'.function = "is_failed"
    BY DEF ChooseConditions
  <1> QED
    BY <1>1, <1>2, <1>3, <1>4, <1>5, <1>6 DEF Next

LEMMA BoundsAreNumbers ==
    /\ MaxConditions \in Nat /\ MaxWorkersConfigured \in Nat
    /\ MaxTasks \in Nat /\ MaxTicks \in Nat
  BY BoundsAssumption

(***************************************************************************)
(* cluster_adapt() keeps to its limits, also where it does not know how     *)
(* many tasks there are.                                                    *)
(***************************************************************************)
THEOREM LimitsKept == Spec => []AdaptWithinLimits
  <1>1. Init => AdaptWithinLimits
    BY DEF Init, AdaptWithinLimits
  <1>2. AdaptWithinLimits /\ [Next]_input => AdaptWithinLimits'
    <2>1. CASE UNCHANGED input
      BY <2>1 DEF AdaptWithinLimits
    <2>2. ASSUME ChooseTasks PROVE AdaptWithinLimits'
      <3>1. PICK minimum, maximum \in 0..MaxWorkersConfigured,
                 preprocessing_tasks, tile_tasks \in 0..MaxTasks \cup {None},
                 process_graph \in BOOLEAN :
                input' = [function |-> "cluster_adapt",
                          options |-> [minimum |-> minimum, maximum |-> maximum],
                          preprocessing_tasks |-> preprocessing_tasks,
                          tile_tasks |-> tile_tasks, process_graph |-> process_graph]
        BY <2>2 DEF ChooseTasks
      <3> DEFINE options == [minimum |-> minimum, maximum |-> maximum]
      <3>2. options \in AdaptOptions /\ options.minimum = minimum /\ options.maximum = maximum
        BY BoundsAreNumbers DEF AdaptOptions
      <3> HIDE DEF options
      <3>3. WithinLimits(options, preprocessing_tasks, tile_tasks, process_graph)
        <4>1. CASE preprocessing_tasks \in Nat /\ tile_tasks \in Nat
          BY <3>2, <4>1, AdaptKeepsLimits
        <4>2. CASE ~(preprocessing_tasks \in Nat /\ tile_tasks \in Nat)
          BY <3>2, <4>2, BoundsAreNumbers DEF WithinLimits, Adapted
        <4> QED
          BY <4>1, <4>2
      <3> QED
        BY <3>1, <3>3 DEF AdaptWithinLimits, options
    <2> QED
      BY <2>1, <2>2, OneFunctionAtATime DEF AdaptWithinLimits
  <1> QED
    BY <1>1, <1>2, PTL DEF Spec

(***************************************************************************)
(* is_failed() and is_done() find a condition wherever it is listed.        *)
(***************************************************************************)
THEOREM ConditionsKept == Spec => []ConditionsRead
  <1>1. Init => ConditionsRead
    BY DEF Init, ConditionsRead
  <1>2. ConditionsRead /\ [Next]_input => ConditionsRead'
    <2>1. CASE UNCHANGED input
      BY <2>1 DEF ConditionsRead
    <2>2. ASSUME ChooseConditions PROVE ConditionsRead'
      <3>1. PICK length \in 0..MaxConditions : \E conditions \in [1..length -> K8s!Condition] :
                input' = [function |-> "is_failed", conditions |-> conditions]
        BY <2>2 DEF ChooseConditions
      <3>2. PICK conditions \in [1..length -> K8s!Condition] :
                input' = [function |-> "is_failed", conditions |-> conditions]
        BY <3>1
      <3>3. length \in Nat
        BY BoundsAreNumbers
      <3> QED
        BY <3>2, <3>3, ConditionsAreFound DEF ConditionsRead
    <2> QED
      BY <2>1, <2>2, OneFunctionAtATime DEF ConditionsRead
  <1> QED
    BY <1>1, <1>2, PTL DEF Spec

(***************************************************************************)
(* jobs(): what the memory registry finds, with which the hub is tested,    *)
(* MongoDB finds as well, and nothing else, up to the millisecond.          *)
(***************************************************************************)
THEOREM SameJobs == Spec => []SameJobsFound
  <1>1. Init => SameJobsFound
    BY DEF Init, SameJobsFound
  <1>2. SameJobsFound /\ [Next]_input => SameJobsFound'
    <2>1. CASE UNCHANGED input
      BY <2>1 DEF SameJobsFound
    <2>2. ASSUME ChooseQuery PROVE SameJobsFound'
      <3>1. PICK updated \in 0..MaxTicks, area \in {{1}, {1, 2}}, status \in {"pending", "done"},
                 asked \in {None, <<>>, <<"done">>, <<"pending", "done">>, <<"done", "aborted">>},
                 bounds \in {None, {2}},
                 from_date, to_date \in Dates, name \in {None, "a", "b"} :
                input' = [function |-> "jobs",
                          jobs |-> {[updated |-> updated, area |-> area, status |-> status,
                                     job_name |-> "a"]},
                          request |-> [status |-> asked, bounds |-> bounds,
                                       from_date |-> from_date, to_date |-> to_date,
                                       job_name |-> name]]
        BY <2>2 DEF ChooseQuery
      <3> DEFINE jobs == {[updated |-> updated, area |-> area, status |-> status,
                           job_name |-> "a"]}
                 request == [status |-> asked, bounds |-> bounds, from_date |-> from_date,
                             to_date |-> to_date, job_name |-> name]
                 query == QueryOf(request)
      <3>2. \A job \in jobs : job.updated \in Nat
        BY BoundsAreNumbers
      <3>3. /\ DOMAIN query = {"status", "bounds", "from_date", "to_date", "job_name"}
            /\ query.from_date = from_date /\ query.to_date = to_date
        BY DEF QueryOf
      <3> HIDE DEF query, jobs
      <3>4. \A field \in Asked(query) \cap {"from_date", "to_date"} : query[field] \in Nat
        <4>1. \A date \in Dates : date # None => date \in Nat
          BY BoundsAreNumbers DEF Dates
        <4> QED
          BY <3>3, <4>1 DEF Asked
      <3>5. "updated" \notin DOMAIN query
        BY <3>3
      <3>6. RegistriesAgree(jobs, query)
        BY <3>2, <3>4, <3>5, RegistriesAnswerAlike
      <3> QED
        BY <3>1, <3>6 DEF SameJobsFound, jobs, query
    <2> QED
      BY <2>1, <2>2, OneFunctionAtATime DEF SameJobsFound
  <1> QED
    BY <1>1, <1>2, PTL DEF Spec

(***************************************************************************)
(* process_area_from_config(): a job is never given another area than the   *)
(* one asked for.                                                           *)
(***************************************************************************)
THEOREM AreaKept == Spec => []AreaAsAskedFor
  <1>1. Init => AreaAsAskedFor
    BY DEF Init, AreaAsAskedFor
  <1>2. AreaAsAskedFor /\ [Next]_input => AreaAsAskedFor'
    <2>1. CASE UNCHANGED input
      BY <2>1 DEF AreaAsAskedFor
    <2>2. ASSUME ChooseArea PROVE AreaAsAskedFor'
      <3>1. PICK bounds, config_bounds \in Some \cup {None},
                 area, config_area \in [kind : {"wkt", "file"}, cells : Some] \cup {None},
                 geometry, point, tile \in {None} \cup {{cell} : cell \in Cells} :
                input' = [function |-> "process_area_from_config",
                          params |-> [bounds |-> bounds, geometry |-> geometry, area |-> area,
                                      point |-> point, tile |-> tile],
                          config |-> [bounds |-> config_bounds, area |-> config_area]]
        BY <2>2 DEF ChooseArea
      <3> DEFINE params == [bounds |-> bounds, geometry |-> geometry, area |-> area,
                            point |-> point, tile |-> tile]
                 config == [bounds |-> config_bounds, area |-> config_area]
      <3>2. Some \subseteq SUBSET Cells /\ {{cell} : cell \in Cells} \subseteq SUBSET Cells
        BY DEF Some
      <3>3. /\ bounds \in Areas /\ config_bounds \in Areas
            /\ geometry \in Areas /\ point \in Areas /\ tile \in Areas
        <4> HIDE DEF params, config
        <4>1. {{cell} : cell \in Cells} \subseteq Areas /\ Some \subseteq Areas /\ None \in Areas
          BY <3>2 DEF Areas
        <4> QED
          BY <4>1
      <3>4. [kind : {"wkt", "file"}, cells : Some] \subseteq Area!AreaTexts
        BY <3>2 DEF Area!AreaTexts
      <3>5. area \in Area!AreaTexts \cup {None} /\ config_area \in Area!AreaTexts \cup {None}
        BY <3>4
      <3>6. params \in Params /\ config \in Config
        BY <3>3, <3>5 DEF Params, Config
      <3> HIDE DEF params, config
      <3>7. Area!AreaIsAsAskedFor(params, config)
        BY <3>6, NoOtherArea
      <3> QED
        BY <3>1, <3>7 DEF AreaAsAskedFor, params, config
    <2> QED
      BY <2>1, <2>2, OneFunctionAtATime DEF AreaAsAskedFor
  <1> QED
    BY <1>1, <1>2, PTL DEF Spec

\* What ChooseSpecs gives are specifications.
LEMMA GivenAreSpecs ==
    /\ NoneAssumed
    /\ \A given \in GivenSpecs : IsSpecs(given)
    /\ DOMAIN [worker_memory |-> "params"] \subseteq Fields
  <1>1. NoneAssumed
    BY NoneAssumption DEF NoneAssumed
  <1>2. ASSUME NEW given \in GivenSpecs PROVE IsSpecs(given)
    <2>1. PICK fields \in {<<>>} \cup [worker_memory : {"job"}] \cup [image : {"job", None}]
                            \cup [worker_memory : {"job"}, image : {"job", None}],
               environment \in {<<>>} \cup [{"worker_environment"} -> Environments],
               options \in {<<>>, [adapt_options |-> [minimum |-> "job"]]} :
              given = Specs!Over(fields, Specs!Over(environment, options))
      BY DEF GivenSpecs
    <2>2. DOMAIN <<>> = {}
      OBVIOUS
    <2>3. /\ DOMAIN fields \subseteq {"worker_memory", "image"}
          /\ "worker_memory" \in DOMAIN fields => fields.worker_memory = "job"
      BY <2>2
    <2>4. /\ DOMAIN environment \subseteq {"worker_environment"}
          /\ "worker_environment" \in DOMAIN environment =>
                environment.worker_environment \in Environments
      BY <2>2
    <2>5. /\ DOMAIN options \subseteq {"adapt_options"}
          /\ "adapt_options" \in DOMAIN options => options.adapt_options = [minimum |-> "job"]
      BY <2>2
    <2>6. /\ DOMAIN given = DOMAIN fields \cup (DOMAIN environment \cup DOMAIN options)
          /\ \A field \in DOMAIN fields : given[field] = fields[field]
          /\ \A field \in (DOMAIN environment) \ DOMAIN fields :
                given[field] = environment[field]
          /\ \A field \in (DOMAIN options) \ (DOMAIN fields \cup DOMAIN environment) :
                given[field] = options[field]
      BY <2>1 DEF Specs!Over
    <2>7. DOMAIN given \subseteq Fields
      BY <2>3, <2>4, <2>5, <2>6 DEF Fields
    <2>8. ASSUME NEW field \in (DOMAIN given) \ {"image"} PROVE given[field] # None
      <3>1. CASE field \in DOMAIN fields
        BY <2>3, <2>6, <2>8, <3>1, NoneAssumption
      <3>2. CASE field \in (DOMAIN environment) \ DOMAIN fields
        <4>1. given[field] \in Environments
          BY <2>4, <2>6, <3>2
        <4> QED
          BY <4>1, NoneAssumption
      <3>3. CASE field \in (DOMAIN options) \ (DOMAIN fields \cup DOMAIN environment)
        <4>1. given[field] = [minimum |-> "job"]
          BY <2>5, <2>6, <3>3
        <4> QED
          BY <4>1, NoneAssumption
      <3> QED
        BY <2>6, <3>1, <3>2, <3>3
    <2>9. Specs!Completed(given) # None /\ Specs!Completed(given).adapt_options # None
      BY NoneAssumption
    <2>10. "adapt_options" \in DOMAIN given =>
                Specs!Over(given.adapt_options, Specs!ClassSpecs.adapt_options) # None
      BY <2>7, <2>9, CompletedIs
    <2> QED
      BY <2>7, <2>8, <2>9, <2>10 DEF IsSpecs
  <1>3. DOMAIN [worker_memory |-> "params"] \subseteq Fields
    BY DEF Fields
  <1> QED
    BY <1>1, <1>2, <1>3

(***************************************************************************)
(* get_dask_specs(): a job gets the specifications it gives, and the        *)
(* defaults for the rest.                                                   *)
(***************************************************************************)
THEOREM SpecsKept == Spec => []SpecsReachCluster
  <1>1. Init => SpecsReachCluster
    BY DEF Init, SpecsReachCluster
  <1>2. SpecsReachCluster /\ [Next]_input => SpecsReachCluster'
    <2>1. CASE UNCHANGED input
      BY <2>1 DEF SpecsReachCluster
    <2>2. ASSUME ChooseSpecs PROVE SpecsReachCluster'
      <3>0. PICK config_specs \in GivenSpecs \cup {None},
                 params_specs \in GivenSpecs \cup {None, [worker_memory |-> "params"]} :
                \E options_environment, environ, prefixes :
                    input' = SpecsInput(config_specs, params_specs, options_environment,
                                        environ, prefixes)
        BY <2>2, ChosenSpecs
      <3>1. PICK options_environment, environ, prefixes :
                input' = SpecsInput(config_specs, params_specs, options_environment,
                                    environ, prefixes)
        BY <3>0
      <3>2. /\ config_specs # None => IsSpecs(config_specs)
            /\ params_specs # None => DOMAIN params_specs \subseteq Fields
        BY GivenAreSpecs DEF IsSpecs
      <3>3. Specs!SpecsAsGiven(config_specs, params_specs)
        BY <3>2, GivenAreSpecs, SpecsReach
      <3> QED
        BY <3>1, <3>3 DEF SpecsInput, SpecsReachCluster
    <2> QED
      BY <2>1, <2>2, OneFunctionAtATime DEF SpecsReachCluster
  <1> QED
    BY <1>1, <1>2, PTL DEF Spec

(***************************************************************************)
(* update_gateway_cluster_options(): a job's variables go before the        *)
(* server's, of which only those with a listed prefix are passed on.        *)
(***************************************************************************)
THEOREM EnvironmentKept == Spec => []EnvironmentReachesCluster
  <1>1. Init => EnvironmentReachesCluster
    BY DEF Init, EnvironmentReachesCluster
  <1>2. EnvironmentReachesCluster /\ [Next]_input => EnvironmentReachesCluster'
    <2>1. CASE UNCHANGED input
      BY <2>1 DEF EnvironmentReachesCluster
    <2>2. ASSUME ChooseSpecs PROVE EnvironmentReachesCluster'
      <3>0. PICK config_specs \in GivenSpecs \cup {None},
                 params_specs \in GivenSpecs \cup {None, [worker_memory |-> "params"]} :
                \E options_environment, environ, prefixes :
                    input' = SpecsInput(config_specs, params_specs, options_environment,
                                        environ, prefixes)
        BY <2>2, ChosenSpecs
      <3>1. PICK options_environment, environ, prefixes :
                input' = SpecsInput(config_specs, params_specs, options_environment,
                                    environ, prefixes)
        BY <3>0
      <3> DEFINE options == [worker_memory |-> None, image |-> None,
                             environment |-> options_environment]
      <3>2. /\ config_specs # None => IsSpecs(config_specs)
            /\ params_specs # None => DOMAIN params_specs \subseteq Fields
        BY GivenAreSpecs DEF IsSpecs
      <3>3. {"worker_memory", "image", "environment"} \subseteq DOMAIN options
        OBVIOUS
      <3> HIDE DEF options
      <3>4. Specs!EnvironmentOfJob(options, environ, prefixes, config_specs, params_specs)
        BY <3>2, <3>3, GivenAreSpecs, EnvironmentReaches
      <3> QED
        BY <3>1, <3>4 DEF SpecsInput, EnvironmentReachesCluster, options
    <2> QED
      BY <2>1, <2>2, OneFunctionAtATime DEF EnvironmentReachesCluster
  <1> QED
    BY <1>1, <1>2, PTL DEF Spec

(***************************************************************************)
(* split_long_text(): no chunk is longer than Slack accepts, and the chunks *)
(* read like the text.                                                      *)
(***************************************************************************)
LEMMA ChosenText ==
    ASSUME ChooseText
    PROVE  \E text, max_length :
              /\ input' = [function |-> "split_long_text", text |-> text, max_length |-> max_length]
              /\ EveryChunkFits(text, max_length) /\ NothingLost(text, max_length)
  <1> DEFINE C == {Newline, Space} \cup {"a", "b"}
  <1>0. PICK length \in 0..MaxTextLength, max_length \in 1..MaxChunk :
            \E text \in [1..length -> C] :
                input' = [function |-> "split_long_text", text |-> text, max_length |-> max_length]
    BY DEF ChooseText
  <1>1. PICK text \in [1..length -> C] :
            input' = [function |-> "split_long_text", text |-> text, max_length |-> max_length]
    BY <1>0
  <1>2. length \in Nat /\ max_length \in Nat \ {0}
    BY BoundsAreNumbers
  <1>3. {Newline, Space} \subseteq C
    OBVIOUS
  <1> HIDE DEF C
  <1>4. text \in Seq(C)
    BY <1>2
  <1>5. EveryChunkFits(text, max_length) /\ NothingLost(text, max_length)
    BY <1>2, <1>3, <1>4, LongTextsAreCut
  <1> QED
    BY <1>1, <1>5

\* Every chunk of a long text fits into a message.
THEOREM ChunksAreCut == Spec => []ChunksFit
  <1>1. Init => ChunksFit
    BY DEF Init, ChunksFit
  <1>2. ChunksFit /\ [Next]_input => ChunksFit'
    <2>1. CASE UNCHANGED input
      BY <2>1 DEF ChunksFit
    <2>2. ASSUME ChooseText PROVE ChunksFit'
      BY <2>2, ChosenText DEF ChunksFit
    <2> QED
      BY <2>1, <2>2, OneFunctionAtATime DEF ChunksFit
  <1> QED
    BY <1>1, <1>2, PTL DEF Spec

\* The chunks of a long text read like it: nothing is lost, repeated or moved.
THEOREM TextsReadAlike == Spec => []TextKept
  <1>1. Init => TextKept
    BY DEF Init, TextKept
  <1>2. TextKept /\ [Next]_input => TextKept'
    <2>1. CASE UNCHANGED input
      BY <2>1 DEF TextKept
    <2>2. ASSUME ChooseText PROVE TextKept'
      BY <2>2, ChosenText DEF TextKept
    <2> QED
      BY <2>1, <2>2, OneFunctionAtATime DEF TextKept
  <1> QED
    BY <1>1, <1>2, PTL DEF Spec
=============================================================================
