------------------------------- MODULE ParentView -------------------------------
(***************************************************************************)
(* What a caller is told of a chunked parent: the aggregate status answer, *)
(* and the set of result files or the reason there is none                 *)
(* (backends/cds/backend.py: _chunk_parent_response,                       *)
(* _parent_multifile_result, _parent_chunk_descriptors,                    *)
(* _fetch_chunk_parent_result).                                            *)
(*                                                                         *)
(* A chunk has                                                             *)
(*   child    whether a child was ordered for it                           *)
(*   row      the child's row: a status, or "unknown" if it has none       *)
(*   pending  whether a retry is owed to it                                *)
(*   phase    what the poll said of its local transfer, before the rows    *)
(*            were read: "none", "downloading" or "download_pending"       *)
(*   cached   whether the cache holds a file under its key                 *)
(***************************************************************************)
EXTENDS Naturals, FiniteSets

Terminal == {"successful", "failed", "cancelled"}
States   == Terminal \cup {"running", "downloading", "retrying", "queued"}
Phases   == {"none", "downloading", "download_pending"}
Chunk    == [child: BOOLEAN, row: Terminal \cup {"running", "queued", "unknown"},
             pending: BOOLEAN, phase: Phases, cached: BOOLEAN]

----------------------------------------------------------------------------
(* The aggregate status answer.                                            *)

\* compute_parent_status: a failure that is owed a retry counts as running, and so
\* does a child without a row.
Aggregate(chunks, stopped) ==
    LET sent == {i \in DOMAIN chunks : chunks[i].child}
        seen(i) == IF chunks[i].row = "failed" /\ chunks[i].pending THEN "running"
                   ELSE chunks[i].row
    IN  IF \E i \in sent : seen(i) = "failed" THEN "failed"
        ELSE IF stopped THEN "cancelled"
        ELSE IF \E i \in sent : seen(i) = "cancelled" THEN "failed"
        ELSE IF sent # {} /\ sent = DOMAIN chunks /\ \A i \in sent : seen(i) = "successful"
        THEN "successful"
        ELSE IF sent # {} THEN "running" ELSE "queued"

\* A child without a row counts as running, a chunk without a child as queued.
RowState(chunk) ==
    IF ~chunk.child THEN "queued"
    ELSE IF chunk.row = "unknown" THEN "running" ELSE chunk.row

\* The one bucket a chunk is counted in, under a parent of this status.  A known phase
\* means that the remote job is over, whatever the row still says.
StateOf(chunk, status) ==
    LET state == RowState(chunk)
    IN  IF state = "failed" /\ chunk.pending /\ status \notin Terminal THEN "retrying"
        ELSE IF chunk.child /\ chunk.phase # "none" /\ state \in {"queued", "running"}
        THEN IF chunk.phase = "downloading" THEN "downloading" ELSE "running"
        ELSE state

In(chunks, status, state) == {i \in DOMAIN chunks : StateOf(chunks[i], status) = state}

\* Mutant of Promoted: a chunk that waits for its retry does not count.
PromotedOverRetries(chunks, status) ==
    /\ status = "running"
    /\ In(chunks, status, "downloading") # {}
    /\ \A s \in States \ {"downloading", "successful", "retrying"} : In(chunks, status, s) = {}

\* The parent itself is downloading when local transfers are all that is left.
Promoted(chunks, status) ==
    /\ status = "running"
    /\ In(chunks, status, "downloading") # {}
    /\ \A s \in States \ {"downloading", "successful"} : In(chunks, status, s) = {}

\* _parent_chunk_descriptors: the chunks whose file the cache still serves.
Described(chunks) == {i \in DOMAIN chunks : chunks[i].child /\ chunks[i].row # "unknown"
                                            /\ chunks[i].cached}

View(chunks, status) ==
    LET files == IF status \in Terminal THEN Described(chunks) ELSE {}
    IN  [status   |-> status,
         counts   |-> [s \in States |-> Cardinality(In(chunks, status, s))],
         promoted |-> Promoted(chunks, status),
         complete |-> status = "successful" /\ files = DOMAIN chunks,
         files    |-> files,
         missing  |-> IF status \in Terminal THEN DOMAIN chunks \ files ELSE {}]

----------------------------------------------------------------------------
(* The result files.  Each missing chunk of a delivered parent whose child *)
(* was delivered is repaired once, and repair tells how that ends; lost is *)
(* what the cache evicts meanwhile.                                        *)

Repairs == {"back", "expired", "not_ready", "error"}

Fetch(chunks, status, repair, lost) ==
    LET evicted  == DOMAIN chunks \ Described(chunks)
        repaired == {i \in evicted : chunks[i].child /\ chunks[i].row = "successful"}
        Now(i)   == [chunks[i] EXCEPT !.cached =
                        /\ i \notin lost
                        /\ chunks[i].cached \/ (i \in repaired /\ repair[i] = "back")]
        files    == IF status # "successful" \/ evicted = {} THEN Described(chunks)
                    ELSE Described([i \in DOMAIN chunks |-> Now(i)])
        Missing(outcome) == \E i \in repaired \ files : repair[i] = outcome
    IN  [files  |-> files,
         answer |-> IF status # "successful" THEN "no result"
                    ELSE IF Missing("expired") THEN "order again"
                    ELSE IF Missing("not_ready") THEN "call again"
                    ELSE IF files # DOMAIN chunks THEN "evicted"
                    ELSE "complete"]
=============================================================================
