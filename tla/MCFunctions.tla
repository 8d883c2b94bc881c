---------------------------- MODULE MCFunctions ----------------------------
(***************************************************************************)
(* The functions without state, over all inputs up to a bound: the single   *)
(* step chooses the input.                                                  *)
(***************************************************************************)
EXTENDS ClusterAdapt, SlackText, JobQueries

CONSTANTS
    Invalid,                          \* of ProcessArea
    Cells,                            \* the cells of ProcessArea's areas
    MaxConditions,                    \* bound of the conditions of a Kubernetes job
    MaxWorkersConfigured, MaxTasks,   \* bounds of the scaling's options and tasks
    MaxTextLength, MaxChunk,          \* bounds of texts and of Slack's maximum
    MaxTicks                          \* bound of points in time

ASSUME BoundsAssumption ==
    {MaxConditions, MaxWorkersConfigured, MaxTasks, MaxTextLength, MaxChunk, MaxTicks}
        \subseteq Nat

ASSUME InvalidAssumption == \A cells \in SUBSET Cells : cells # Invalid

VARIABLE input

Area == INSTANCE ProcessArea
Specs == INSTANCE DaskSpecs
K8s == INSTANCE K8sConditions

Init == input = [function |-> "none"]

ChooseTasks ==
    /\ input.function = "none"
    /\ \E minimum, maximum \in 0..MaxWorkersConfigured,
          preprocessing_tasks, tile_tasks \in 0..MaxTasks \cup {None},
          process_graph \in BOOLEAN :
        input' = [function |-> "cluster_adapt",
                  options |-> [minimum |-> minimum, maximum |-> maximum],
                  preprocessing_tasks |-> preprocessing_tasks,
                  tile_tasks |-> tile_tasks, process_graph |-> process_graph]

ChooseText ==
    /\ input.function = "none"
    /\ \E length \in 0..MaxTextLength, max_length \in 1..MaxChunk :
        \E text \in [1..length -> {Newline, Space} \cup {"a", "b"}] :
            input' = [function |-> "split_long_text", text |-> text, max_length |-> max_length]

Dates == 0..MaxTicks \cup {None}

ChooseQuery ==
    /\ input.function = "none"
    /\ \E updated \in 0..MaxTicks, area \in {{1}, {1, 2}}, status \in {"pending", "done"},
          asked \in {None, <<>>, <<"done">>, <<"pending", "done">>, <<"done", "aborted">>},
          bounds \in {None, {2}},
          from_date, to_date \in Dates, name \in {None, "a", "b"} :
        input' = [function |-> "jobs",
                  jobs |-> {[updated |-> updated, area |-> area, status |-> status,
                             job_name |-> "a"]},
                  request |-> [status |-> asked, bounds |-> bounds, from_date |-> from_date,
                               to_date |-> to_date, job_name |-> name]]

Some == (SUBSET Cells) \ {{}}

ChooseArea ==
    /\ input.function = "none"
    /\ \E bounds, config_bounds \in Some \cup {None},
          area, config_area \in [kind : {"wkt", "file"}, cells : Some] \cup {None},
          geometry, point, tile \in {None} \cup {{cell} : cell \in Cells} :
        input' = [function |-> "process_area_from_config",
                  params |-> [bounds |-> bounds, geometry |-> geometry, area |-> area,
                              point |-> point, tile |-> tile],
                  config |-> [bounds |-> config_bounds, area |-> config_area]]

Environments ==
    UNION {[names -> {<<"number", 1>>, <<"text", 2>>}] :
              names \in SUBSET {<<"MHUB", "A">>, <<"HOME", "">>}}

\* Any of the fields, of which only the image may be None, and the minimum of adapt_options without the maximum.
GivenSpecs ==
    {Specs!Over(fields, Specs!Over(environment, options)) :
        fields \in {<<>>} \cup [worker_memory : {"job"}] \cup [image : {"job", None}]
                  \cup [worker_memory : {"job"}, image : {"job", None}],
        environment \in {<<>>} \cup [{"worker_environment"} -> Environments],
        options \in {<<>>, [adapt_options |-> [minimum |-> "job"]]}}

\* None is neither a text nor a dictionary.
ASSUME NoneAssumption ==
    /\ None # "job" /\ None # "mapchete"
    /\ None # Specs!NoEnvironment /\ None # Specs!ClassSpecs.adapt_options
    /\ None # [minimum |-> "job"]
    /\ \A environment \in Environments : environment # None
    /\ \A specs \in GivenSpecs :
          Specs!Completed(specs) # None /\ Specs!Completed(specs).adapt_options # None

ChooseSpecs ==
    /\ input.function = "none"
    /\ \E specs \in ({None} \X (GivenSpecs \cup {None}))
                    \cup (GivenSpecs \X {None, [worker_memory |-> "params"]}),
          options_environment \in {<<>>, [name \in {<<"HOME", "">>} |-> <<"text", 3>>]},
          environ \in Environments, prefixes \in {{"MHUB"}, {"MHUB", ""}} :
        input' = [function |-> "dask_specs",
                  config_specs |-> specs[1], params_specs |-> specs[2],
                  options |-> [worker_memory |-> None, image |-> None,
                               environment |-> options_environment],
                  environ |-> environ, prefixes |-> prefixes]

ChooseConditions ==
    /\ input.function = "none"
    /\ \E length \in 0..MaxConditions :
        \E conditions \in [1..length -> K8s!Condition] :
            input' = [function |-> "is_failed", conditions |-> conditions]

Next ==
    \/ ChooseTasks \/ ChooseText \/ ChooseQuery
    \/ ChooseArea \/ ChooseSpecs \/ ChooseConditions

Spec == Init /\ [][Next]_input

\* cluster_adapt() keeps to its limits.
AdaptWithinLimits ==
    input.function = "cluster_adapt" =>
        WithinLimits(input.options, input.preprocessing_tasks, input.tile_tasks,
                     input.process_graph)

\* split_long_text(): every chunk fits.
ChunksFit ==
    input.function = "split_long_text" => EveryChunkFits(input.text, input.max_length)

\* split_long_text(): the chunks still read as the text.
TextKept ==
    input.function = "split_long_text" => NothingLost(input.text, input.max_length)

\* jobs(): the registries give the same answer.
SameJobsFound ==
    input.function = "jobs" =>
        Refuses(input.request) \/ RegistriesAgree(input.jobs, QueryOf(input.request))

\* process_area_from_config(): the area is the one asked for, or none.
AreaAsAskedFor ==
    input.function = "process_area_from_config" =>
        Area!AreaIsAsAskedFor(input.params, input.config)

\* get_dask_specs(): a job gets the specifications it gives.
SpecsReachCluster ==
    input.function = "dask_specs" => Specs!SpecsAsGiven(input.config_specs, input.params_specs)

\* update_gateway_cluster_options(): a job gets its environment.
EnvironmentReachesCluster ==
    input.function = "dask_specs" =>
        Specs!EnvironmentOfJob(input.options, input.environ, input.prefixes,
                               input.config_specs, input.params_specs)

\* is_failed(), is_done(): a condition is found wherever it is listed.
ConditionsRead ==
    input.function = "is_failed" => K8s!ConditionsDecide(input.conditions)

=============================================================================
