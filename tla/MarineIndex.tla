------------------------------ MODULE MarineIndex ------------------------------
(***************************************************************************)
(* The index of a CMEMS dataset of native files: how it is fetched once    *)
(* and kept, what is read out of it, and which files a listing shows       *)
(* (backends/cmems/_index_store.py, _index_registry.py, _index_parser.py,  *)
(* _index_filter.py and list_files of backends/cmems/backend.py).          *)
(*                                                                         *)
(* A source row is a record of                                             *)
(*   file      its path, a number (paths are sorted)                       *)
(*   box       {} where a coordinate is missing, or one pair of spans      *)
(*   time      {} where an instant is missing or has no time zone, or one  *)
(*             span                                                        *)
(*   vars      the variables it names                                      *)
(*   platform  {}, or one platform type                                    *)
(*   ours      whether a path has the shape and prefix its format asks for *)
(* and a source a record of its format ("insitu", "canyon", "paths" or     *)
(* "other"), whole (it is text with the columns of that format) and rows.  *)
(* A row of the index has box and time; its variables are a record of form *)
(* ("unknown", "tuple" or "array") and names.                              *)
(***************************************************************************)
EXTENDS Integers, Sequences, FiniteSets, FiniteSetsExt, Sorted

CONSTANTS Longitudes, Latitudes \* the legal spans of coordinates

ASSUME IndexAssumption ==
    /\ Longitudes \in Int \X Int /\ Longitudes[1] <= Longitudes[2]
    /\ Latitudes \in Int \X Int /\ Latitudes[1] <= Latitudes[2]

\* A list of variables, or none known.
Naming(names, form) ==
    IF names = {} THEN [form |-> "unknown", names |-> {}] ELSE [form |-> form, names |-> names]

Row(file, box, time, names, platform) ==
    [file |-> file, box |-> box, time |-> time, vars |-> Naming(names, "tuple"),
     platform |-> platform]

----------------------------------------------------------------------------
(* Reading a source.                                                       *)

Readable(rows) == {r \in rows : r.box # {} /\ r.time # {}}
Only(S) == CHOOSE x \in S : TRUE

\* _normalise_insitu_rows, and the rows of a listing of paths.
AsTheyAre(rows) ==
    {Row(r.file, Only(r.box), Only(r.time), r.vars, r.platform) : r \in Readable(rows)}

Hull(spans) == <<Min({s[1] : s \in spans}), Max({s[2] : s \in spans})>>

\* _normalise_canyon_rows: the observations of a file become one row.
PerFile(rows) ==
    {LET mine == {r \in Readable(rows) : r.file = f}
     IN  Row(f, <<Hull({Only(r.box)[1] : r \in mine}), Hull({Only(r.box)[2] : r \in mine})>>,
             Hull({Only(r.time) : r \in mine}), UNION {r.vars : r \in mine}, {})
        : f \in {r.file : r \in Readable(rows)}}

Inside(span, range) == range[1] <= span[1] /\ span[1] <= span[2] /\ span[2] <= range[2]

\* The contract of IndexRow.
Legal(row) ==
    /\ Inside(row.box[1], Longitudes) /\ Inside(row.box[2], Latitudes)
    /\ row.time[1] <= row.time[2]

\* _drop_contract_violations: rows that are all bad are no index at all.
Kept(rows) ==
    IF rows # {} /\ \A r \in rows : ~Legal(r)
    THEN {}
    ELSE {{r \in rows : Legal(r)}}

\* parse_insitu_index_file
InsituIndex(source) ==
    IF source.format = "insitu" /\ source.whole THEN Kept(AsTheyAre(source.rows)) ELSE {}

\* parse_canyon_index_file
CanyonIndex(source) ==
    IF source.format = "canyon" /\ source.whole THEN Kept(PerFile(source.rows)) ELSE {}

\* parse_cora_paths, parse_easycora_paths: strays are passed over.
PathIndex(source) == {AsTheyAre({r \in source.rows : r.ours})}

\* An index, or none.
Parse(format, source) ==
    CASE format = "insitu" -> InsituIndex(source)
      [] format = "canyon" -> CanyonIndex(source)
      [] format = "paths"  -> PathIndex(source)
      [] OTHER             -> {}

\* detect_format
Detected(source) == source.format \in {"insitu", "canyon"}

----------------------------------------------------------------------------
(* Keeping it.  The state is what is cached (a set of at most one index),  *)
(* the registered format or "none", and whether a failed probe is on       *)
(* record.  A load is a record of                                          *)
(*   arrives  the number of loads that had ended when it looked            *)
(*   expired  whether the record of a failed probe was then out of date,   *)
(*            which is so only where nobody had the lock                   *)
(*   probe    what the service lists: "error", "nothing" or "found"        *)
(*   fetch    "error", "nothing" or "source"                               *)
(*   saved    whether the index can be written                             *)
(* Loads hold the dataset's lock one after the other.                      *)

Told(mode, probed, fetched) == [mode |-> mode, probed |-> probed, fetched |-> fetched]

NotThere == Told("missing", FALSE, FALSE)
Offline  == Told("offline", FALSE, FALSE)

\* The index is written: _write_cache.
Save(state, format, found, load, probed) ==
    IF load.saved
    THEN [state |-> [state EXCEPT !.cache = found, !.format = format],
          told  |-> Told("fresh", probed, TRUE)]
    ELSE [state |-> [state EXCEPT !.format = format], told |-> Told("error", probed, TRUE)]

\* _fetch_and_parse of a registered dataset: no failure is recorded.
Refetch(state, load, source) ==
    LET found == Parse(state.format, source)
    IN  IF load.fetch # "source"
        THEN [state |-> state,
              told |-> Told(IF load.fetch = "error" THEN "error" ELSE "missing", FALSE, TRUE)]
        ELSE IF found = {}
        THEN [state |-> state, told |-> Told("invalid", FALSE, TRUE)]
        ELSE Save(state, state.format, found, load, FALSE)

\* discover: a probe that finds nothing, or a format nobody knows, is recorded; one
\* that fails is not, nor an index that cannot be read.
Discover(state, load, source) ==
    LET bad == [state EXCEPT !.failed = TRUE]
        found == Parse(source.format, source)
    IN  IF load.probe = "error"
        THEN [state |-> state, told |-> Told("error", TRUE, FALSE)]
        ELSE IF load.probe = "nothing"
        THEN [state |-> bad, told |-> Told("missing", TRUE, FALSE)]
        ELSE IF load.fetch = "error"
        THEN [state |-> state, told |-> Told("error", TRUE, TRUE)]
        ELSE IF load.fetch = "nothing"
        THEN [state |-> bad, told |-> Told("missing", TRUE, TRUE)]
        ELSE IF ~Detected(source)
        THEN [state |-> bad, told |-> Told("invalid", TRUE, TRUE)]
        ELSE IF found = {}
        THEN [state |-> state, told |-> Told("invalid", TRUE, TRUE)]
        ELSE Save(state, source.format, found, load, TRUE)

\* Mutant of Held: what another call stored meanwhile is not looked at.
HeldUnseen(state, load, source) ==
    IF state.format # "none" THEN Refetch(state, load, source) ELSE Discover(state, load, source)

\* What load does once it holds the lock: it looks at the cache again, and only there.
Held(state, load, source) ==
    IF state.cache # {}
    THEN [state |-> state, told |-> Offline]
    ELSE IF state.format # "none"
    THEN Refetch(state, load, source)
    ELSE Discover(state, load, source)

\* is_negatively_cached
OnRecord(seen, load) == seen.failed /\ ~load.expired

\* load, in the state it found on arrival and the one when its turn comes.
Load(seen, state, load, source) ==
    IF seen.cache # {}
    THEN [state |-> state, told |-> Offline]
    ELSE IF OnRecord(seen, load)
    THEN [state |-> state, told |-> NotThere]
    ELSE Held([state EXCEPT !.failed = OnRecord(state, load)], load, source)

\* All of a sequence of loads: the state after so many of them, and what each was told.
Loads(format, loads, source) ==
    LET after[n \in 0..Len(loads)] ==
            IF n = 0 THEN [cache |-> {}, format |-> format, failed |-> FALSE]
            ELSE Load(after[loads[n].arrives], after[n - 1], loads[n], source).state
    IN  [after |-> after,
         told  |-> [n \in DOMAIN loads |->
                       Load(after[loads[n].arrives], after[n - 1], loads[n], source).told]]

----------------------------------------------------------------------------
(* Listing.  A filter that is not given is the empty set.                  *)

Overlap(s, t) == s[1] <= t[2] /\ s[2] >= t[1]

\* A box that crosses the antimeridian is two of them.
OverlapLongitude(lon, asked) ==
    IF asked[1] <= asked[2]
    THEN Overlap(lon, asked)
    ELSE Overlap(lon, <<asked[1], Longitudes[2]>>) \/ Overlap(lon, <<Longitudes[1], asked[2]>>)

\* filter_by_variables: an array is neither a tuple nor missing.
Names(vars, asked) ==
    CASE vars.form = "unknown" -> TRUE
      [] vars.form = "tuple"   -> vars.names \cap asked # {}
      [] vars.form = "array"   -> FALSE

\* apply_filters
Matches(row, filter) ==
    /\ \A b \in filter.box : OverlapLongitude(row.box[1], b[1]) /\ Overlap(row.box[2], b[2])
    /\ \A t \in filter.time : Overlap(row.time, t)
    /\ filter.vars # {} => Names(row.vars, filter.vars)
    /\ filter.platforms # {} => row.platform # {} /\ row.platform \subseteq filter.platforms

\* An index that comes back from its Parquet file has its lists as arrays.
FromParquet(index) ==
    {[r EXCEPT !.vars = Naming(r.vars.names, "array")] : r \in index}

\* list_files: the first files by path, and how many there are.
Listing(index, filter, limit) ==
    LET matched == {r \in index : Matches(r, filter)}
        order   == InOrder(matched, LAMBDA r, s : r.file < s.file)
    IN  [files     |-> IF limit # {} /\ Len(order) > Only(limit)
                       THEN SubSeq(order, 1, Only(limit)) ELSE order,
         matched   |-> Cardinality(matched),
         truncated |-> limit # {} /\ Len(order) > Only(limit),
         whole     |-> Cardinality(index)]
=============================================================================
