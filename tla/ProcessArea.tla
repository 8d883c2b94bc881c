---------------------------- MODULE ProcessArea ----------------------------
(***************************************************************************)
(* The area a job is to process (mapchete_hub/geometry.py), which new()     *)
(* stores with the job and jobs() filters by.  An area is a set of cells;   *)
(* a point or a tile stands for the cells of its tile.  What a user calls   *)
(* "area" is a text: the cells in WKT, or the path of a file that has them. *)
(***************************************************************************)
EXTENDS FiniteSets

CONSTANTS
    None,      \* Python's None
    Invalid,   \* an exception
    Cells      \* the cells areas are made of

AreaTexts == [kind : {"wkt", "file"}, cells : SUBSET Cells]

\* from_wkt(), which makes nothing of nothing.
FromWkt(area) ==
    IF area = None THEN None ELSE IF area.kind = "wkt" THEN area.cells ELSE Invalid

(***************************************************************************)
(* The path that is looked up is that of the parameters, also where the     *)
(* area of the configuration is read.                                       *)
(***************************************************************************)
ReadArea(params, area) ==
    IF params.area # None /\ params.area.kind = "file" THEN params.area.cells ELSE FromWkt(area)

Intersection(bounds, area) ==
    IF Invalid \in {bounds, area} THEN Invalid ELSE bounds \cap area

\* mapchete's ProcessConfig has fields, and no get().
ConfigGet(config, field) == Invalid

\* Mutant: the area does not narrow the bounds.
FromParamsBoundsOnly(params) ==
    CASE params.bounds # None -> params.bounds
      [] params.geometry # None -> params.geometry
      [] params.area # None -> ReadArea(params, params.area)
      [] params.point # None -> params.point
      [] OTHER -> params.tile

FromParams(params) ==
    CASE params.bounds # None /\ params.area # None ->
            Intersection(params.bounds, ReadArea(params, params.area))
      [] params.bounds # None /\ params.area = None -> params.bounds
      [] params.bounds = None /\ params.geometry # None -> params.geometry
      [] params.bounds = None /\ params.geometry = None /\ params.area # None ->
            ReadArea(params, params.area)
      [] OTHER -> IF params.point # None THEN params.point ELSE params.tile

FromConfig(params, config) ==
    CASE config.bounds # None /\ config.area # None ->
            Intersection(ConfigGet(config, "bounds"), ReadArea(params, params.area))
      [] config.bounds # None /\ config.area = None -> config.bounds
      [] config.bounds = None /\ config.area # None -> ReadArea(params, config.area)
      [] OTHER -> Invalid

ProcessAreaFromConfig(params, config) ==
    IF \E field \in DOMAIN params : params[field] # None
    THEN FromParams(params)
    ELSE FromConfig(params, config)

-----------------------------------------------------------------------------
(***************************************************************************)
(* What is asked for: the parameters go before the configuration, bounds    *)
(* before a geometry, a geometry before a sole area, these before a point   *)
(* and a point before a tile; an area that comes with bounds narrows them.  *)
(***************************************************************************)
AskedFor(given) ==
    LET area == IF given.area = None THEN Cells ELSE given.area.cells IN
    CASE given.bounds # None -> given.bounds \cap area
      [] given.bounds = None /\ given.geometry # None -> given.geometry
      [] given.bounds = None /\ given.geometry = None /\ given.area # None -> area
      [] OTHER -> IF given.point # None THEN given.point ELSE given.tile

Nothing == [bounds |-> None, geometry |-> None, area |-> None, point |-> None, tile |-> None]

(***************************************************************************)
(* A job is never given another area than the one asked for, and is given   *)
(* that area wherever the parameters name one.  Only a configuration's area *)
(* that is a file, or that comes with bounds, is refused.                   *)
(***************************************************************************)
AreaIsAsAskedFor(params, config) ==
    LET area == ProcessAreaFromConfig(params, config)
        given == IF params # Nothing
                 THEN params
                 ELSE [Nothing EXCEPT !.bounds = config.bounds, !.area = config.area]
    IN  IF area = Invalid
        THEN /\ params = Nothing
             /\ config.area # None => config.area.kind = "file" \/ config.bounds # None
        ELSE area = AskedFor(given)

=============================================================================
