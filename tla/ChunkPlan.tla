------------------------------ MODULE ChunkPlan ------------------------------
(***************************************************************************)
(* The chunk plan of a split CDS request: the JSON document a chunked      *)
(* parent keeps in its workflow row, and the pure functions that decide    *)
(* over it (backends/cds/chunking.py, and the closures of                  *)
(* backends/cds/backend.py that read it).                                  *)
(*                                                                         *)
(* A plan has one slot per chunk.  A slot names the child workflow that    *)
(* currently delivers the chunk, the reservation that is about to create   *)
(* one, and the bookkeeping of bounded retries.  Child rows are numbered   *)
(* in the order they are created; uuids, calendar overrides, cost units    *)
(* and timestamps are left out, as nothing below tells them apart.  Two    *)
(* chunks have the same Shape when their non-calendar overrides agree.     *)
(***************************************************************************)
EXTENDS Naturals, FiniteSets

CONSTANTS NChunks,      \* number of chunks of the plan, fixed when it is built
          MaxChildren,  \* bound on child workflows ever ordered
          Actors,       \* the tasks that may hold a reservation
          NoOwner,      \* "no reservation" (no reserved_by key)
          Shape,        \* chunk -> its non-calendar overrides (model, GCM x RCM)
          MaxInflight,  \* budget.cds_chunk_max_inflight, 0 = unbounded
          RetryLimit    \* budget.cds_chunk_retry_limit, 0 = never retry

ASSUME PlanAssumption ==
    /\ NChunks \in Nat \ {0}
    /\ MaxChildren \in Nat
    /\ NoOwner \notin Actors
    /\ MaxInflight \in Nat
    /\ RetryLimit \in Nat
    /\ DOMAIN Shape = 1..NChunks

Chunks   == 1..NChunks
ChildIds == 1..MaxChildren
NoChild  == 0

\* A child row is pending while the database says queued or running: every
\* reader of the code treats the two alike.
RowStatus == {"pending", "successful", "failed", "cancelled"}
\* What a sweep of the plan's children answers for an id it did not ask about.
SeenStatus == RowStatus \cup {"unknown"}

Slot == [child: ChildIds \cup {NoChild}, owner: Actors \cup {NoOwner},
         attempt: Nat, pending: BOOLEAN, superseded: SUBSET ChildIds]
Plan == [stopped: BOOLEAN, slots: [Chunks -> Slot]]

EmptySlot == [child |-> NoChild, owner |-> NoOwner, attempt |-> 0,
              pending |-> FALSE, superseded |-> {}]
EmptyPlan == [stopped |-> FALSE, slots |-> [c \in Chunks |-> EmptySlot]]

-----------------------------------------------------------------------------
(* The decisions, over a plan p and a status map seen (child id -> status).*)

Submitted(p) == {c \in Chunks : p.slots[c].child # NoChild}
ChildrenOf(p) == {p.slots[c].child : c \in Submitted(p)}

\* The status the aggregation sees for a submitted chunk: a failure that is
\* still owed a retry is masked as running.
MaskedStatus(p, seen, c) ==
    LET s == seen[p.slots[c].child]
    IN  IF s = "failed" /\ p.slots[c].pending THEN "pending" ELSE s

\* Mutant of ParentStatus: a chunk not ordered yet counts as delivered.
ParentStatusOfSubmitted(p, seen) ==
    LET Some(s) == \E c \in Submitted(p) : MaskedStatus(p, seen, c) = s
        All(s)  == \A c \in Submitted(p) : MaskedStatus(p, seen, c) = s
    IN  IF Some("failed") THEN "failed"
        ELSE IF p.stopped THEN "cancelled"
        ELSE IF Some("cancelled") THEN "failed"
        ELSE IF Submitted(p) # {} /\ All("successful") THEN "successful"
        ELSE "pending"

\* compute_parent_status; "pending" stands for running and queued.
ParentStatus(p, seen) ==
    LET Some(s) == \E c \in Submitted(p) : MaskedStatus(p, seen, c) = s
        All(s)  == \A c \in Chunks : /\ p.slots[c].child # NoChild
                                     /\ MaskedStatus(p, seen, c) = s
    IN  IF Some("failed") THEN "failed"
        ELSE IF p.stopped THEN "cancelled"
        ELSE IF Some("cancelled") THEN "failed"
        ELSE IF All("successful") THEN "successful"
        ELSE "pending"

\* sibling_corroborates: another chunk of the same shape has been delivered.
Corroborated(p, seen, c) ==
    \E d \in Submitted(p) \ {c} :
        /\ p.slots[d].child # p.slots[c].child
        /\ seen[p.slots[d].child] = "successful"
        /\ Shape[d] = Shape[c]

\* Mutant of Fresh: a reservation never expires.
FreshForEver(p, expired, c) == p.slots[c].owner # NoOwner

\* _reservation_fresh: the slot carries a reservation younger than the TTL.
\* expired is the set of slots whose present reservation is older.
Fresh(p, expired, c) == p.slots[c].owner # NoOwner /\ c \notin expired

\* The slots that occupy the inflight budget: a live child, a child nobody
\* has asked about yet, or a child about to exist.
Active(p, seen, expired) ==
    {c \in Chunks :
        \/ /\ p.slots[c].child # NoChild
           /\ seen[p.slots[c].child] \in {"pending", "unknown"}
        \/ Fresh(p, expired, c)}

\* Mutant of BudgetFull: off by one.
BudgetExceeded(p, seen, expired) ==
    MaxInflight > 0 /\ Cardinality(Active(p, seen, expired)) > MaxInflight

BudgetFull(p, seen, expired) ==
    MaxInflight > 0 /\ Cardinality(Active(p, seen, expired)) >= MaxInflight

\* A chunk that will never deliver: the refill orders nothing more.
Doomed(p, seen) ==
    \E c \in Submitted(p) :
        \/ seen[p.slots[c].child] = "cancelled"
        \/ seen[p.slots[c].child] = "failed" /\ ~p.slots[c].pending

\* The slots the refill may order: the code takes the first of them.
Orderable(p, expired) ==
    {c \in Chunks : p.slots[c].child = NoChild /\ ~Fresh(p, expired, c)}

=============================================================================
