--------------------------------- MODULE Calls ---------------------------------
(***************************************************************************)
(* How a server starts on the credentials it finds, and what a tool call   *)
(* is answered (auth/resolver.py, bootstrap.py, server.py,                 *)
(* workflow/orchestrator.py, SqliteBackend.list_workflows).                *)
(*                                                                         *)
(* The places credentials are looked for are a function from the sources   *)
(* to the set of the fields they give; an empty value is no field.  A      *)
(* place may also fail: a secret manager that raises, a file that cannot   *)
(* be read or holds no text.  Wording, redaction and logs are left out.    *)
(***************************************************************************)
EXTENDS Naturals, FiniteSets, SequencesExt, Sorted

CONSTANT MaxListed \* the most jobs one listing gives

ASSUME CallsAssumption == MaxListed \in Nat \ {0}

Backends == {"cmems", "cds"}
Order    == <<"explicit", "secret_manager", "env", "config_file">>
Sources  == ToSet(Order)
Faults   == {"none", "manager", "unreadable", "garbled"}
Needed   == [cmems |-> {"username", "password"}, cds |-> {"key"}]
Allowed  == [cmems |-> {"username", "password"}, cds |-> {"key", "url"}]

----------------------------------------------------------------------------
(* Credentials.                                                            *)

\* The fields a source gives in spite of the fault.
FieldsAt(places, fault, source) ==
    IF \/ source = "secret_manager" /\ fault = "manager"
       \/ source = "config_file" /\ fault \in {"unreadable", "garbled"}
    THEN {} ELSE places[source]

\* _is_complete_cmems, _is_complete_cds
Complete(backend, fields) == Needed[backend] \subseteq fields

\* resolve: the first source that has everything, and only what it has.  Of a file that
\* is no text, the CMEMS parser fails and the CDS one makes nothing.
Credentials(backend, places, fault) ==
    LET Whole(i) == Complete(backend, FieldsAt(places, fault, Order[i]))
        first == SelectInSeq([i \in 1..4 |-> Whole(i)], LAMBDA w : w)
    IN  IF first # 0
        THEN [source |-> Order[first],
              fields |-> FieldsAt(places, fault, Order[first]) \cap Allowed[backend]]
        ELSE [source |-> IF backend = "cmems" /\ fault = "garbled" THEN "error" ELSE "missing",
              fields |-> {}]

----------------------------------------------------------------------------
(* Starting.                                                               *)

\* build_backend_registry: an enabled backend is there with or without credentials.
Starts(enabled, places, fault) ==
    \A b \in enabled : Credentials(b, places, fault).source # "error"

Holds(backend, places, fault) == Credentials(backend, places, fault).fields # {}

\* Mutant of Advertised: credentials alone are enough.
AdvertisedOnCredentials(enabled, places, fault) ==
    {"cmems"} \cup {b \in {"cds"} : Holds(b, places, fault)}

\* build_server: the backends whose tools are offered.
Advertised(enabled, places, fault) ==
    {"cmems"} \cup {b \in {"cds"} \cap enabled : Holds(b, places, fault)}

----------------------------------------------------------------------------
(* Calls.  An operation needs some fields of the call, and may need the    *)
(* account.  What its method does is a record: kind "result", "confirm",   *)
(* "canonical", "other" or "group"; a group has its canonical leaves and   *)
(* whether it has others, whatever the nesting.                            *)

Positional == [describe |-> {"identifier"}, poll |-> {"request_id"},
               cancel |-> {"request_id"}, fetch |-> {"request_id", "target"}]

\* _dispatch
Missing(operation, fields) ==
    IF operation \in DOMAIN Positional THEN Positional[operation] \ fields ELSE {}

Result(r)    == [key |-> "result", value |-> r]
Error(class) == [key |-> "error", value |-> class]

\* _run_inner: a group's only canonical leaf is told, whatever came with it.
Envelope(outcome) ==
    CASE outcome.kind = "group" /\ Cardinality(outcome.leaves) = 1 ->
            Error(CHOOSE l \in outcome.leaves : TRUE)
      [] outcome.kind = "confirm" -> [key |-> "confirmation", value |-> "payload"]
      [] outcome.kind = "canonical" -> Error(outcome.class)
      [] outcome.kind = "result" -> Result("value")
      [] OTHER -> Error("unexpected")

\* run, for a server started on these backends and places.
Run(enabled, places, fault, call) ==
    IF call.backend \notin enabled THEN Error("not_configured")
    ELSE IF ~call.known THEN Error("unsupported")
    ELSE IF Missing(call.operation, call.fields) # {} THEN Error("missing_field")
    ELSE IF call.account /\ ~Holds(call.backend, places, fault) THEN Error("auth")
    ELSE Envelope(call.outcome)

----------------------------------------------------------------------------
(* Jobs: rows of status and created, in seconds, in the order of their     *)
(* rowids.                                                                 *)

Canonical == {"queued", "running", "successful", "failed", "cancelled"}

\* list_workflows: newest first; no status means every status, and the limit is
\* clamped, as SQLite takes one below 1 for none.
ListJobs(rows, statuses, after, limit) ==
    LET asked == {i \in DOMAIN rows : /\ statuses = {} \/ rows[i].status \in statuses
                                      /\ \A t \in after : rows[i].created > t}
        newest == InOrder(asked, LAMBDA i, j :
                      \/ rows[i].created > rows[j].created
                      \/ rows[i].created = rows[j].created /\ i > j)
        capped == IF limit < 1 THEN 1 ELSE IF limit > MaxListed THEN MaxListed ELSE limit
    IN  IF ~ statuses \subseteq Canonical THEN Error("status_filter")
        ELSE Result(SubSeq(newest, 1, IF capped < Len(newest) THEN capped ELSE Len(newest)))
=============================================================================
