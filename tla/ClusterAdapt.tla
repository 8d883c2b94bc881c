---------------------------- MODULE ClusterAdapt ----------------------------
(***************************************************************************)
(* The limits cluster_adapt() (mapchete_hub/cluster.py) computes for the    *)
(* adaptive scaling of a job's dask cluster.                                *)
(***************************************************************************)
EXTENDS Integers

\* adapt_options without "active", which switches the scaling on or off.
AdaptOptions == [minimum : Nat, maximum : Nat]

Smaller(a, b) == IF a <= b THEN a ELSE b
Larger(a, b) == IF a >= b THEN a ELSE b

\* The workers a job of so many tasks may use: one for eight tasks of a task
\* graph, and at least one.
WorkersForTasks(preprocessing_tasks, tile_tasks, process_graph) ==
    IF process_graph
    THEN LET eighth == (preprocessing_tasks + tile_tasks) \div 8 IN
         IF eighth = 0 THEN 1 ELSE eighth
    ELSE Larger(preprocessing_tasks, tile_tasks)

MinWorkers(options, tile_tasks) == Smaller(options.minimum, tile_tasks)

\* Mutant: the maximum may be smaller than the minimum.
MaxWorkersUnraised(options, preprocessing_tasks, tile_tasks, process_graph) ==
    Smaller(options.maximum, WorkersForTasks(preprocessing_tasks, tile_tasks, process_graph))

MaxWorkers(options, preprocessing_tasks, tile_tasks, process_graph) ==
    Larger(Smaller(options.maximum,
                   WorkersForTasks(preprocessing_tasks, tile_tasks, process_graph)),
           MinWorkers(options, tile_tasks))

\* The options stay as they are where the tasks are not known.
Adapted(options, preprocessing_tasks, tile_tasks, process_graph) ==
    IF preprocessing_tasks \in Nat /\ tile_tasks \in Nat
    THEN [minimum |-> MinWorkers(options, tile_tasks),
          maximum |-> MaxWorkers(options, preprocessing_tasks, tile_tasks, process_graph)]
    ELSE options

(***************************************************************************)
(* The limits are in order, keep within the configured ones, do not exceed  *)
(* the number of tasks (one worker for none), and leave a job that has      *)
(* tasks at least one worker.  A configuration whose minimum is above its   *)
(* maximum is the only one that is exceeded.                                *)
(***************************************************************************)
WithinLimits(options, preprocessing_tasks, tile_tasks, process_graph) ==
    LET adapted == Adapted(options, preprocessing_tasks, tile_tasks, process_graph) IN
    options.minimum <= options.maximum =>
        /\ adapted.minimum <= adapted.maximum
        /\ adapted.minimum <= options.minimum
        /\ adapted.maximum <= options.maximum
        /\ preprocessing_tasks \in Nat /\ tile_tasks \in Nat =>
            /\ adapted.maximum <= Larger(1, preprocessing_tasks + tile_tasks)
            /\ options.maximum > 0 /\ preprocessing_tasks + tile_tasks > 0
                  => adapted.maximum > 0

=============================================================================
