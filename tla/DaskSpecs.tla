----------------------------- MODULE DaskSpecs -----------------------------
(***************************************************************************)
(* The specifications of a job's dask cluster (mapchete_hub/settings.py):   *)
(* get_dask_specs() lays what the job gives over the hub's defaults, and    *)
(* update_gateway_cluster_options() hands the result to the gateway.  Of    *)
(* the plain fields, worker_memory and image stand for those which          *)
(* mapchete's class has a default of its own for and for those which it     *)
(* has not.                                                                 *)
(***************************************************************************)
EXTENDS Functions

CONSTANT None

\* dict(defaults, **values); the provers know nothing of TLC's @@.
Over(values, defaults) ==
    [key \in DOMAIN values \cup DOMAIN defaults |->
        IF key \in DOMAIN values THEN values[key] ELSE defaults[key]]

\* The environment, by prefix and the rest of a variable's name.
NoEnvironment == [name \in {} |-> None]

\* DASK_DEFAULT_SPECS
HubSpecs == [worker_memory |-> "hub", image |-> "hub", worker_environment |-> NoEnvironment,
             adapt_options |-> [minimum |-> "hub", maximum |-> "hub"]]

\* mapchete's defaults of its class DaskSpecs.
ClassSpecs == [worker_memory |-> "mapchete", image |-> None,
               worker_environment |-> NoEnvironment,
               adapt_options |-> [minimum |-> "mapchete", maximum |-> "mapchete"]]

\* DaskSpecs(**given): it completes what is given, also within adapt_options.
Completed(given) ==
    LET specs == Over(given, ClassSpecs) IN
    [specs EXCEPT !.adapt_options = Over(@, ClassSpecs.adapt_options)]

AsText(value) == <<"text", value[2]>>

EnforceStrings(specs) ==
    IF "worker_environment" \in DOMAIN specs
    THEN [specs EXCEPT !.worker_environment =
              [name \in DOMAIN @ |-> AsText(@[name])]]
    ELSE specs

\* Mutant: the fields of an object that are None count as given.
WithValueAll(specs) == specs

WithValue(specs) == Restrict(specs, {field \in DOMAIN specs : specs[field] # None})

\* given is a dictionary or, from the process configuration, an object.
GetDaskSpecs(given, is_object) ==
    IF given = None THEN HubSpecs
    ELSE Completed(Over(EnforceStrings(IF is_object THEN WithValue(given) ELSE given), HubSpecs))

\* post_job(): the configuration's specifications go before the parameters'.
SpecsOfJob(config_specs, params_specs) ==
    IF config_specs # None
    THEN GetDaskSpecs(Completed(config_specs), TRUE)
    ELSE GetDaskSpecs(params_specs, FALSE)

-----------------------------------------------------------------------------
\* str.startswith(): every name starts with an empty prefix.
StartsWith(name, prefixes) == name[1] \in prefixes \/ "" \in prefixes

\* The server's variables that are passed on.
Passed(environ, prefixes) ==
    Restrict(environ, {name \in DOMAIN environ : StartsWith(name, prefixes)})

\* Mutant: the server's environment goes before the job's.
ClusterEnvironmentServerFirst(options_environment, environ, prefixes, specs) ==
    Over(Passed(environ, prefixes), Over(specs.worker_environment, options_environment))

ClusterEnvironment(options_environment, environ, prefixes, specs) ==
    Over(specs.worker_environment, Over(Passed(environ, prefixes), options_environment))

UpdateGatewayClusterOptions(options, environ, prefixes, specs) ==
    [options EXCEPT !.worker_memory = specs.worker_memory, !.image = specs.image,
                    !.environment = ClusterEnvironment(@, environ, prefixes, specs)]

-----------------------------------------------------------------------------
(***************************************************************************)
(* What a job gives reaches its cluster, and an object with gaps, as the    *)
(* process configuration makes one, never takes the image away.  What the   *)
(* parameters leave out is the hub's; what the configuration leaves out, or *)
(* adapt_options when given in part, is mapchete's where it has a default.  *)
(***************************************************************************)
Given(config_specs, params_specs) ==
    CASE config_specs # None -> config_specs
      [] config_specs = None /\ params_specs # None -> params_specs
      [] OTHER -> NoEnvironment

SpecsAsGiven(config_specs, params_specs) ==
    LET specs == SpecsOfJob(config_specs, params_specs)
        given == Given(config_specs, params_specs)
        IsGiven(field) == field \in DOMAIN given
                          /\ (given[field] # None \/ config_specs = None)
        Default(field) == IF config_specs # None /\ ClassSpecs[field] # None
                          THEN ClassSpecs[field] ELSE HubSpecs[field]
    IN  /\ \A field \in {"worker_memory", "image"} :
              specs[field] = IF IsGiven(field) THEN given[field] ELSE Default(field)
        /\ specs.adapt_options = IF IsGiven("adapt_options")
                                 THEN Over(given.adapt_options, ClassSpecs.adapt_options)
                                 ELSE Default("adapt_options")

(***************************************************************************)
(* The cluster's environment: the job's variables, made text, go before the *)
(* server's, and of the server's only those with a listed prefix are passed *)
(* on - all of them where the list has an empty one.                        *)
(***************************************************************************)
EnvironmentOfJob(options, environ, prefixes, config_specs, params_specs) ==
    LET given == EnforceStrings(Over(Given(config_specs, params_specs),
                                     HubSpecs)).worker_environment
        environment ==
            UpdateGatewayClusterOptions(options, environ, prefixes,
                                        SpecsOfJob(config_specs, params_specs)).environment
    IN  /\ \A name \in DOMAIN given : environment[name] = given[name]
        /\ "" \notin prefixes =>
              \A name \in DOMAIN environment :
                  name \in DOMAIN given \cup DOMAIN options.environment \/ name[1] \in prefixes

=============================================================================
