----------------------------- MODULE ChunkParent -----------------------------
(***************************************************************************)
(* The life of one chunked CDS parent: its workflow row, the chunk plan    *)
(* stored in that row, and the child workflows the plan orders             *)
(* (backends/cds/backend.py, persistence/sqlite_backend.py).               *)
(*                                                                         *)
(* The Submitter is the submit call that created the parent; it orders the *)
(* first wave without the parent lock.  Every Worker is one process        *)
(* (server or one-shot CLI) that polls or cancels the parent under its own *)
(* in-process parent lock: a worker runs one operation at a time, and only *)
(* the database serialises the actors.  Every step between two awaits that *)
(* reach the database or CDS is one action.  A plan write goes through     *)
(* _cas_mutate_plan: its mutation is decided on the plan in memory first,  *)
(* and again on the committed plan if that has moved; PlanCas shows that   *)
(* the versioned compare-and-swap behind it comes to this one step.        *)
(***************************************************************************)
EXTENDS ChunkPlan

CONSTANTS Workers,    \* processes that poll and cancel the parent
          Submitter,  \* the submit call that created it
          Mortal,     \* actors that may die between two steps
          Faults,     \* which other misfortunes a behaviour may contain
          Outcomes    \* how CDS may end a child job

FaultKinds == {"order_error",     \* CDS or the database refuses a child order
               "wave_cancelled",  \* the submit call's task is cancelled
               "user_cancel",     \* the user cancels the parent
               "slow"}            \* a live order outlasts the reservation TTL
OutcomeKinds == {"ok", "rejected", "empty", "bad", "dismissed"}

ASSUME ParentAssumption ==
    /\ Submitter \notin Workers
    /\ Actors = Workers \cup {Submitter}
    /\ Mortal \subseteq Actors
    /\ Faults \subseteq FaultKinds
    /\ Outcomes \subseteq OutcomeKinds

VARIABLES
    row,       \* status column of the parent row ("pending" = queued)
    plan,      \* chunk_plan_json, as committed
    children,  \* the jobs ordered at CDS, in that order, and their child rows
    expired,   \* slots whose present reservation is older than the TTL
    pc,        \* next step of each actor
    mode,      \* which of the three ordering loops an actor is in
    view,      \* the actor's in-memory plan
    seen,      \* its latest sweep of the children's statuses
    at,        \* the slot it is working on
    kid        \* the child it ordered or adopted and has not assigned yet

vars  == <<row, plan, children, expired, pc, mode, view, seen, at, kid>>
local == <<mode, view, seen, at, kid>>

ChildStatus == {"none", "ordered"} \cup RowStatus
Class == {"none", "capacity", "unknown", "content"}
\* by: who ordered it, until its row is recorded (history).
Child == [chunk: Chunks, status: ChildStatus, class: Class, by: Actors \cup {NoOwner}]
Terminal == {"successful", "failed", "cancelled"}
Modes == {"idle", "wave", "retry", "refill"}
Steps == {"idle", "see", "scan", "decline", "mark", "claim", "refill", "reserve",
          "submit", "record", "assign", "release", "fail", "settle", "write",
          "look", "sweep", "stop", "kids", "cancel", "abort", "abort_stop", "abort_kids",
          "done", "dead"}

Unseen == [k \in ChildIds |-> "unknown"]

TypeOK ==
    /\ row \in RowStatus
    /\ plan \in Plan
    /\ children \in [ChildIds -> Child]
    /\ expired \in SUBSET Chunks
    /\ pc \in [Actors -> Steps]
    /\ mode \in [Actors -> Modes]
    /\ view \in [Actors -> Plan]
    /\ seen \in [Actors -> [ChildIds -> SeenStatus]]
    /\ at \in [Actors -> 1..(NChunks + 1)]
    /\ kid \in [Actors -> ChildIds \cup {NoChild}]

\* The parent row has just been recorded with an empty plan; the submit call
\* holds that plan in memory and its next step is the given one.
InitAt(step) ==
    /\ row = "pending"
    /\ plan = EmptyPlan
    /\ children = [k \in ChildIds |-> [chunk |-> 1, status |-> "none", class |-> "none",
                                      by |-> NoOwner]]
    /\ expired = {}
    /\ pc = [a \in Actors |-> IF a = Submitter THEN step ELSE "idle"]
    /\ mode = [a \in Actors |-> IF a = Submitter THEN "wave" ELSE "idle"]
    /\ view = [a \in Actors |-> EmptyPlan]
    /\ seen = [a \in Actors |-> Unseen]
    /\ at = [a \in Actors |-> 1]
    /\ kid = [a \in Actors |-> NoChild]

Init == InitAt("reserve")
\* The submit call died before it reserved anything: the pollers do it all.
PollersInit == InitAt("dead")

-----------------------------------------------------------------------------
(* Database primitives.                                                    *)

Recorded == {k \in ChildIds : children[k].status \in RowStatus}
Live     == {k \in ChildIds : children[k].status = "pending"}
Unused   == {k \in ChildIds : children[k].status = "none"}

\* _child_status_map: read the rows of the plan's children, one by one.  A row
\* that is missing reads as running.
StatusMap(p) == [k \in ChildIds |->
    IF k \notin ChildrenOf(p) THEN "unknown"
    ELSE IF k \in Recorded THEN children[k].status ELSE "pending"]

\* Mutant of SetRowIfPending: the write does not look at the row.
SetRow(s) == row' = s

\* update_workflow_status_if_pending on the parent row.
SetRowIfPending(s) == row' = IF row = "pending" THEN s ELSE row

\* Mutant of CancelRows: delivered and failed children are overwritten too.
CancelAllRows(ks) ==
    children' = [k \in ChildIds |-> IF k \in ks \cap Recorded
                                    THEN [children[k] EXCEPT !.status = "cancelled"]
                                    ELSE children[k]]

\* update_workflow_status_if_pending(cancelled) on each child in ks.
CancelRows(ks) ==
    children' = [k \in ChildIds |-> IF k \in ks \cap Live
                                    THEN [children[k] EXCEPT !.status = "cancelled"]
                                    ELSE children[k]]

First(S) == CHOOSE i \in S : \A j \in S : i <= j

Goto(a, step) == pc' = [pc EXCEPT ![a] = step]

\* _cas_mutate_plan with a mutation allowed on the actor's plan (old) and on the
\* committed one (now): it commits new, made from the committed plan, ...
CasCommits(a, old, now, new) ==
    /\ old /\ now
    /\ plan' = new
    /\ view' = [view EXCEPT ![a] = new]

\* ... or gives up, after taking the committed plan if it got that far.
CasAborts(a, old, now) ==
    /\ ~(old /\ now)
    /\ view' = [view EXCEPT ![a] = IF old THEN plan ELSE view[a]]
    /\ UNCHANGED <<plan, expired>>

\* Plan p with slot c reserved by a (with a fresh timestamp), or by nobody.
Reserved(p, c, a) == [p EXCEPT !.slots[c].owner = a]

\* A finished poll, cancel or wave drops everything it held in memory.
Forget(a) ==
    /\ mode' = [mode EXCEPT ![a] = "idle"]
    /\ view' = [view EXCEPT ![a] = EmptyPlan]
    /\ seen' = [seen EXCEPT ![a] = Unseen]
    /\ at' = [at EXCEPT ![a] = 1]
    /\ kid' = [kid EXCEPT ![a] = NoChild]

-----------------------------------------------------------------------------
(* Ordering one child.  The wave, the retry pass and the refill differ in  *)
(* how they reserve a slot and share what follows.                         *)

\* First wave: reserve slot at[a] unless it is stopped, taken or reserved.
WaveSlots == IF MaxInflight = 0 \/ MaxInflight > NChunks THEN NChunks ELSE MaxInflight

CanReserve(p, c) == ~p.stopped /\ c \in Orderable(p, expired)

ReserveWave(a) ==
    LET c   == at[a]
        old == CanReserve(view[a], c)
        now == CanReserve(plan, c)
    IN  /\ pc[a] = "reserve" /\ mode[a] = "wave" /\ c <= WaveSlots
        /\ \/ /\ CasAborts(a, old, now)
              /\ at' = [at EXCEPT ![a] = c + 1]
              /\ UNCHANGED pc
           \/ /\ CasCommits(a, old, now, Reserved(plan, c, a))
              /\ expired' = expired \ {c}
              /\ Goto(a, "submit")
              /\ UNCHANGED at
        /\ UNCHANGED <<row, children, mode, seen, kid>>

\* The whole wave has been ordered, or found taken: the submit call returns.
WaveDone(a) ==
    /\ pc[a] = "reserve" /\ mode[a] = "wave" /\ at[a] > WaveSlots
    /\ Goto(a, "done")
    /\ Forget(a)
    /\ UNCHANGED <<row, plan, children, expired>>

\* Refill: stopped, doomed, budget and slot choice are all decided on the plan
\* the write is compared with; the statuses are those of the last sweep.
\* Mutant of CanRefill: the stopped flag is not checked under the write.
CanRefillStopped(p, map) == /\ ~Doomed(p, map)
                            /\ ~BudgetFull(p, map, expired)
                            /\ Orderable(p, expired) # {}

CanRefill(p, map) == /\ ~p.stopped
                     /\ ~Doomed(p, map)
                     /\ ~BudgetFull(p, map, expired)
                     /\ Orderable(p, expired) # {}

ReserveRefill(a) ==
    LET old == CanRefill(view[a], seen[a])
        now == CanRefill(plan, seen[a])
        c   == First(Orderable(plan, expired))
    IN  /\ pc[a] = "reserve" /\ mode[a] = "refill"
        /\ \/ /\ CasAborts(a, old, now)
              /\ Goto(a, "settle")
              /\ UNCHANGED at
           \/ /\ CasCommits(a, old, now, Reserved(plan, c, a))
              /\ expired' = expired \ {c}
              /\ at' = [at EXCEPT ![a] = c]
              /\ Goto(a, "submit")
        /\ UNCHANGED <<row, children, mode, seen, kid>>

\* Mutant of Adoptable: every order goes to CDS.
NothingAdoptable(c) == {}

\* _submit_chunk_child, adoption: a recorded child of this chunk that has not
\* failed and was not cancelled is taken over instead of ordering another.
Adoptable(c) == {k \in Recorded : /\ children[k].chunk = c
                                  /\ children[k].status \notin {"failed", "cancelled"}}

Adopt(a) ==
    /\ pc[a] = "submit"
    /\ \E k \in Adoptable(at[a]) : kid' = [kid EXCEPT ![a] = k]
    /\ Goto(a, "assign")
    /\ UNCHANGED <<row, plan, children, expired, mode, view, seen, at>>

\* client.retrieve: CDS accepts the order of a's chunk; nothing but the answer
\* says which job that is, and no row names it yet.
Accepted(a) ==
    /\ Adoptable(at[a]) = {}
    /\ Unused # {}
    /\ children' = [children EXCEPT ![First(Unused)] =
           [chunk |-> at[a], status |-> "ordered", class |-> "none", by |-> a]]

\* _submit_one: the answer arrives.
Order(a) ==
    /\ pc[a] = "submit"
    /\ Accepted(a)
    /\ kid' = [kid EXCEPT ![a] = First(Unused)]
    /\ Goto(a, "record")
    /\ UNCHANGED <<row, plan, expired, mode, view, seen, at>>

\* record_workflow of the child, as a child of this parent.
Record(a) ==
    /\ pc[a] = "record"
    /\ children' = [children EXCEPT ![kid[a]].status = "pending", ![kid[a]].by = NoOwner]
    /\ Goto(a, "assign")
    /\ UNCHANGED <<row, plan, expired, mode, view, seen, at, kid>>

\* The call raises and no child row comes of it.  CDS has refused the order
\* (terms, SDK error), or its row could not be written and the job was deleted
\* again; or the job runs on: the answer was lost or late, or the delete failed.
OrderFails(a) ==
    /\ "order_error" \in Faults
    /\ pc[a] = "submit"
    /\ Adoptable(at[a]) = {}
    /\ UNCHANGED children \/ Accepted(a)
    /\ Goto(a, IF mode[a] = "wave" THEN "abort" ELSE "release")
    /\ UNCHANGED <<row, plan, expired, local>>

\* The assign write: only into a slot that still carries our reservation.  A
\* retry also retires the failed child and counts the attempt.
Assigned(a) ==
    LET s   == plan.slots[at[a]]
        new == IF mode[a] = "retry"
               THEN [child |-> kid[a], owner |-> NoOwner, attempt |-> s.attempt + 1,
                     pending |-> FALSE, superseded |-> s.superseded \cup {s.child}]
               ELSE [s EXCEPT !.child = kid[a], !.owner = NoOwner]
    IN  [plan EXCEPT !.slots[at[a]] = new]

\* Mutant of NextRound: the wave and the retry pass skip a chunk.
NextRoundButOne(a) ==
    /\ at' = [at EXCEPT ![a] = IF mode[a] = "refill" THEN 1 ELSE at[a] + 2]
    /\ Goto(a, CASE mode[a] = "wave" -> "reserve"
                 [] mode[a] = "retry" -> "see"
                 [] OTHER -> "refill")
    /\ kid' = [kid EXCEPT ![a] = NoChild]

\* Where the three loops go on: the wave to its next slot, the retry pass to a
\* new sweep and the next chunk, the refill to a new sweep.
NextRound(a) ==
    /\ at' = [at EXCEPT ![a] = IF mode[a] = "refill" THEN 1 ELSE at[a] + 1]
    /\ Goto(a, CASE mode[a] = "wave" -> "reserve"
                 [] mode[a] = "retry" -> "see"
                 [] OTHER -> "refill")
    /\ kid' = [kid EXCEPT ![a] = NoChild]

Holds(a, p) == p.slots[at[a]].owner = a

Assign(a) ==
    /\ pc[a] = "assign"
    /\ \/ CasAborts(a, Holds(a, view[a]), Holds(a, plan))
       \/ /\ CasCommits(a, Holds(a, view[a]), Holds(a, plan), Assigned(a))
          /\ expired' = expired \ {at[a]}
    /\ NextRound(a)
    /\ UNCHANGED <<row, children, mode, seen>>

\* _release_reservation after a refused order, guarded by the owner token.
Release(a) ==
    /\ pc[a] = "release"
    /\ \/ CasAborts(a, Holds(a, view[a]), Holds(a, plan))
       \/ /\ CasCommits(a, Holds(a, view[a]), Holds(a, plan),
                        Reserved(plan, at[a], NoOwner))
          /\ expired' = expired \ {at[a]}
    /\ Goto(a, "fail")
    /\ UNCHANGED <<row, children, mode, seen, at, kid>>

\* A child that cannot be ordered fails the parent; the refill is skipped.
FailParent(a) ==
    /\ pc[a] = "fail"
    /\ SetRowIfPending("failed")
    /\ Goto(a, "settle")
    /\ UNCHANGED <<plan, children, expired, local>>

-----------------------------------------------------------------------------
(* Polling the parent (_advance_chunk_parent), under the worker's lock.    *)

\* Mutant of FirstStep: a poll of any terminal parent only reports it.
FirstStepUnlessOver == CASE row \in Terminal -> "idle"
                         [] row \notin Terminal /\ plan.stopped -> "refill"
                         [] OTHER -> "see"

\* A failed or cancelled parent goes straight to the cleanup; a stopped plan
\* skips the retry pass.
FirstStep == CASE row \in Terminal -> "sweep"
               [] row \notin Terminal /\ plan.stopped -> "refill"
               [] OTHER -> "see"

\* The parent row is read under the lock.
StartPoll(a) ==
    /\ pc[a] = "idle"
    /\ row # "successful"
    /\ view' = [view EXCEPT ![a] = plan]
    /\ mode' = [mode EXCEPT ![a] = "retry"]
    /\ Goto(a, FirstStep)
    /\ UNCHANGED <<row, plan, children, expired, seen, at, kid>>

\* A delivered parent is returned as it is.
PollDelivered(a) == pc[a] = "idle" /\ row = "successful" /\ UNCHANGED vars

\* The retry pass sweeps the children once at its start and after each resubmit.
See(a) ==
    /\ pc[a] = "see"
    /\ seen' = [seen EXCEPT ![a] = StatusMap(view[a])]
    /\ Goto(a, "scan")
    /\ UNCHANGED <<row, plan, children, expired, mode, view, at, kid>>

\* Mutant of Retryable: every failure is retried.
AlwaysRetryable(a, c) == TRUE

\* _chunk_failure_retryable: refused by admission control or vouched for by a
\* sibling, when it failed or since.
Retryable(a, c) ==
    LET class == children[view[a].slots[c].child].class
    IN  \/ class = "capacity"
        \/ class = "unknown" /\ Corroborated(view[a], seen[a], c)

\* Mutant of Hopeless: one retry too many.
HopelessBeyondLimit(a, c) == view[a].slots[c].attempt > RetryLimit \/ ~Retryable(a, c)

Hopeless(a, c) == view[a].slots[c].attempt >= RetryLimit \/ ~Retryable(a, c)

\* The next chunk whose child had failed: decline it for good, start its
\* backoff clock, wait (the backoff is running or the budget is full), or
\* claim it.  How much of the backoff has passed is left open.
Scan(a) ==
    LET failed == {d \in Submitted(view[a]) :
                      d >= at[a] /\ seen[a][view[a].slots[d].child] = "failed"}
        c      == First(failed)
        owed   == failed # {} /\ ~Hopeless(a, c)
        masked == view[a].slots[c].pending
    IN  /\ pc[a] = "scan"
        /\ \/ failed = {} /\ Goto(a, "refill") /\ UNCHANGED at
           \/ /\ failed # {} /\ Hopeless(a, c)
              /\ Goto(a, "decline") /\ at' = [at EXCEPT ![a] = c]
           \/ /\ owed /\ ~masked
              /\ Goto(a, "mark") /\ at' = [at EXCEPT ![a] = c]
           \/ /\ owed /\ masked
              /\ UNCHANGED pc /\ at' = [at EXCEPT ![a] = c + 1]
           \/ /\ owed /\ masked
              /\ ~BudgetFull(view[a], seen[a], expired)
              /\ Goto(a, "claim") /\ at' = [at EXCEPT ![a] = c]
        /\ UNCHANGED <<row, plan, children, expired, mode, view, seen, kid>>

\* _decline_permanently: unmask the failure, then end the whole retry pass.
Decline(a) ==
    LET Masked(p) == p.slots[at[a]].pending
    IN  /\ pc[a] = "decline"
        /\ \/ CasAborts(a, Masked(view[a]), Masked(plan))
           \/ /\ CasCommits(a, Masked(view[a]), Masked(plan),
                            [plan EXCEPT !.slots[at[a]].pending = FALSE])
              /\ UNCHANGED expired
        /\ Goto(a, "refill")
        /\ UNCHANGED <<row, children, mode, seen, at, kid>>

\* Mutant of SameChild: the slot holds some child, failed or not.
SomeChild(a, p) == p.slots[at[a]].child # NoChild

\* The slot still holds the child whose failure the pass is working on.
SameChild(a, p) == LET k == p.slots[at[a]].child
                   IN  k # NoChild /\ seen[a][k] = "failed"

\* _mark_pending: only while the slot still holds the child that failed.
Mark(a) ==
    LET Owed(p) == SameChild(a, p) /\ ~p.slots[at[a]].pending
    IN  /\ pc[a] = "mark"
        /\ \/ CasAborts(a, Owed(view[a]), Owed(plan))
           \/ /\ CasCommits(a, Owed(view[a]), Owed(plan),
                            [plan EXCEPT !.slots[at[a]].pending = TRUE])
              /\ UNCHANGED expired
        /\ Goto(a, "scan")
        /\ UNCHANGED <<row, children, mode, seen, at, kid>>

\* Mutant of CanClaim: another process's reservation is not respected.
CanClaimReserved(a, p) == ~p.stopped /\ SameChild(a, p)

\* _reserve_retry: re-checks stopped, the failed child and the reservation,
\* not the budget.
CanClaim(a, p) == ~p.stopped /\ SameChild(a, p) /\ ~Fresh(p, expired, at[a])

Claim(a) ==
    LET old == CanClaim(a, view[a])
        now == CanClaim(a, plan)
    IN  /\ pc[a] = "claim"
        /\ \/ /\ CasAborts(a, old, now)
              /\ IF view'[a].stopped THEN Goto(a, "refill") /\ UNCHANGED at
                 ELSE Goto(a, "scan") /\ at' = [at EXCEPT ![a] = at[a] + 1]
           \/ /\ CasCommits(a, old, now, Reserved(plan, at[a], a))
              /\ expired' = expired \ {at[a]}
              /\ Goto(a, "submit")
              /\ UNCHANGED at
        /\ UNCHANGED <<row, children, mode, seen, kid>>

\* Each round of the refill starts with a sweep of its plan's children.
SweepForRefill(a) ==
    /\ pc[a] = "refill"
    /\ mode' = [mode EXCEPT ![a] = "refill"]
    /\ seen' = [seen EXCEPT ![a] = StatusMap(view[a])]
    /\ at' = [at EXCEPT ![a] = 1]
    /\ Goto(a, "reserve")
    /\ UNCHANGED <<row, plan, children, expired, view, kid>>

\* The row is read again; if it is still pending the status is computed from
\* the freshest plan.
Settle(a) ==
    /\ pc[a] = "settle"
    /\ \/ /\ row # "successful"
          /\ view' = [view EXCEPT ![a] = plan]
          /\ seen' = [seen EXCEPT ![a] = StatusMap(plan)]
          /\ Goto(a, IF row = "pending" THEN "write" ELSE "sweep")
          /\ UNCHANGED <<mode, at, kid>>
       \/ row = "successful" /\ Goto(a, "idle") /\ Forget(a)
    /\ UNCHANGED <<row, plan, children, expired>>

\* A terminal verdict is written unless the row has become terminal since, and
\* the row is read back; a delivered parent ends the poll.
Write(a) ==
    LET verdict == ParentStatus(view[a], seen[a])
    IN  /\ pc[a] = "write"
        /\ IF verdict \in Terminal THEN SetRowIfPending(verdict) ELSE UNCHANGED row
        /\ CASE verdict \notin Terminal -> Goto(a, "look") /\ UNCHANGED local
             [] verdict \in Terminal /\ row' \in {"failed", "cancelled"} ->
                  /\ Goto(a, "sweep")
                  /\ view' = [view EXCEPT ![a] = plan]
                  /\ UNCHANGED <<mode, seen, at, kid>>
             [] OTHER -> Goto(a, "idle") /\ Forget(a)
        /\ UNCHANGED <<plan, children, expired>>

\* With no terminal verdict the children are swept once more for the answer, and
\* that status, which is not written, decides whether to clean up.
Look(a) ==
    /\ pc[a] = "look"
    /\ \/ /\ ParentStatus(view[a], StatusMap(view[a])) \in {"failed", "cancelled"}
          /\ Goto(a, "sweep")
          /\ UNCHANGED local
       \/ /\ ParentStatus(view[a], StatusMap(view[a])) \notin {"failed", "cancelled"}
          /\ Goto(a, "idle")
          /\ Forget(a)
    /\ UNCHANGED <<row, plan, children, expired>>

\* Under a parent seen failed or cancelled the plan's live children are cancelled:
\* their rows first, then (best effort, without effect here) their CDS jobs.
Cleanup(a) ==
    /\ pc[a] = "sweep"
    /\ CancelRows(ChildrenOf(view[a]))
    /\ Goto(a, "idle")
    /\ Forget(a)
    /\ UNCHANGED <<row, plan, expired>>

-----------------------------------------------------------------------------
(* Cancelling the parent (_cancel_chunk_parent), under the worker's lock.  *)

StartCancel(a) ==
    /\ "user_cancel" \in Faults
    /\ pc[a] = "idle"
    /\ row \notin Terminal
    /\ view' = [view EXCEPT ![a] = plan]
    /\ Goto(a, "stop")
    /\ UNCHANGED <<row, plan, children, expired, mode, seen, at, kid>>

\* _mark_stopped never aborts: a loss re-applies it to the fresh plan.
MarkStopped(a, from, to) ==
    /\ pc[a] = from
    /\ CasCommits(a, TRUE, TRUE, [plan EXCEPT !.stopped = TRUE])
    /\ Goto(a, to)
    /\ UNCHANGED <<row, children, expired, mode, seen, at, kid>>

CancelChildren(a) ==
    /\ pc[a] = "kids"
    /\ CancelRows(ChildrenOf(view[a]))
    /\ Goto(a, "cancel")
    /\ UNCHANGED <<row, plan, expired, local>>

FinishCancel(a) ==
    /\ pc[a] = "cancel"
    /\ SetRowIfPending("cancelled")
    /\ Goto(a, "idle")
    /\ Forget(a)
    /\ UNCHANGED <<plan, children, expired>>

-----------------------------------------------------------------------------
(* A first wave that fails or is cancelled (_abort_chunk_parent).          *)

\* The task is cancelled at an await of the wave.  The thread that orders goes on:
\* CDS may have the job, under an id nobody learns.  A job that is ordered but not
\* recorded is deleted again, as far as that goes: nothing names it either way.
\* A reserve or assign write that is interrupted, or raises, has already changed
\* the plan in memory, and the abort writes it after all (as if ReserveWave or
\* Assign had come first), unless another process has moved the plan since.
WaveCancelled(a) ==
    /\ "wave_cancelled" \in Faults
    /\ mode[a] = "wave"
    /\ \/ /\ \/ pc[a] = "reserve"
             \/ pc[a] = "assign" /\ plan # view[a]
          /\ UNCHANGED <<children, kid>>
       \/ /\ pc[a] = "submit"
          /\ UNCHANGED children \/ Accepted(a)
          /\ UNCHANGED kid
       \/ /\ pc[a] = "record"
          /\ kid' = [kid EXCEPT ![a] = NoChild]
          /\ UNCHANGED children
    /\ Goto(a, "abort")
    /\ UNCHANGED <<row, plan, expired, mode, view, seen, at>>

\* The row is failed first, whatever it says (update_workflow_status).
AbortRow(a) ==
    /\ pc[a] = "abort"
    /\ row' = "failed"
    /\ Goto(a, "abort_stop")
    /\ UNCHANGED <<plan, children, expired, local>>

AbortChildren(a) ==
    /\ pc[a] = "abort_kids"
    /\ CancelRows(ChildrenOf(view[a]))
    /\ Goto(a, "done")
    /\ Forget(a)
    /\ UNCHANGED <<row, plan, expired>>

-----------------------------------------------------------------------------
(* The world outside the plan.                                             *)

\* _sibling_chunk_succeeded, on the committed plan; a child the plan does not
\* know is vouched for by any other delivered child.
SiblingSucceeded(k) ==
    LET status == [i \in ChildIds |-> IF i \in Recorded THEN children[i].status
                                      ELSE "unknown"]
        entry  == {c \in Chunks : \/ plan.slots[c].child = k
                                  \/ k \in plan.slots[c].superseded}
    IN  IF entry # {} THEN \E c \in entry : Corroborated(plan, status, c)
        ELSE \E i \in Recorded \ {k} : status[i] = "successful"

\* A child's own poll (check_status: from the parent's poll, or by its id) finds
\* its CDS job over, and the row takes its final status: delivered, failed with
\* the class of the failure, or cancelled (by CDS, or by its id).
ChildEnds(k, o) ==
    /\ k \in Live
    /\ children' = [children EXCEPT ![k] =
          [@ EXCEPT !.status = CASE o = "ok" -> "successful"
                                 [] o = "dismissed" -> "cancelled"
                                 [] OTHER -> "failed",
                    !.class = CASE o = "bad" -> "content"
                                [] o = "rejected" -> "capacity"
                                [] o = "empty" -> IF SiblingSucceeded(k)
                                                  THEN "capacity" ELSE "unknown"
                                [] OTHER -> "none"]]
    /\ UNCHANGED <<row, plan, expired, pc, local>>

\* Time passes: a reservation outlives the TTL.  Unless a live order may be that
\* slow, the actor that made it is no longer busy with the order.
Ordering(a) == pc[a] \in {"submit", "record", "assign", "release"}

Expire(c) ==
    /\ plan.slots[c].owner # NoOwner
    /\ "slow" \in Faults \/ ~Ordering(plan.slots[c].owner)
    /\ expired' = expired \cup {c}
    /\ UNCHANGED <<row, plan, children, pc, local>>

\* The actor's process exits, or its task ends without its cleanup.
Crash(a) ==
    /\ a \in Mortal
    /\ pc[a] \notin {"idle", "done", "dead"}
    /\ Goto(a, "dead")
    /\ Forget(a)
    /\ UNCHANGED <<row, plan, children, expired>>

-----------------------------------------------------------------------------

OrderStep(a) == \/ ReserveWave(a) \/ WaveDone(a) \/ ReserveRefill(a) \/ Adopt(a)
                \/ Order(a) \/ Record(a) \/ OrderFails(a) \/ Assign(a) \/ Release(a)
                \/ FailParent(a)
PollStep(a) == \/ StartPoll(a) \/ PollDelivered(a) \/ See(a) \/ Scan(a) \/ Decline(a)
               \/ Mark(a) \/ Claim(a) \/ SweepForRefill(a) \/ Settle(a) \/ Write(a)
               \/ Look(a) \/ Cleanup(a)
CancelStep(a) == \/ StartCancel(a) \/ MarkStopped(a, "stop", "kids")
                 \/ CancelChildren(a) \/ FinishCancel(a)
AbortStep(a) == \/ WaveCancelled(a) \/ AbortRow(a)
                \/ MarkStopped(a, "abort_stop", "abort_kids") \/ AbortChildren(a)

Next ==
    \/ \E a \in Actors : OrderStep(a) \/ PollStep(a) \/ CancelStep(a) \/ AbortStep(a)
    \/ \E k \in ChildIds, o \in Outcomes : ChildEnds(k, o)
    \/ \E c \in Chunks : Expire(c)
    \/ \E a \in Actors : Crash(a)

Spec == Init /\ [][Next]_vars
PollersSpec == PollersInit /\ [][Next]_vars

-----------------------------------------------------------------------------
(* Safety.                                                                 *)

\* An order that is being paid for: CDS has accepted its job, and no row says yet
\* that the job is over.
Paid(k) == children[k].status \in {"ordered", "pending"}

\* A job that no row names and nobody will record: its orderer died, was
\* cancelled, or never had an answer.
Stray(k) == children[k].status = "ordered" /\ kid[children[k].by] # k

\* The reservation it was ordered under: its orderer's, and still fresh.
StillReserved(k) ==
    LET c == children[k].chunk
    IN  plan.slots[c].owner = children[k].by /\ Fresh(plan, expired, c)

\* No chunk is on order twice, in whatever processes: the reservation is written
\* before the remote call.  The exception is an order whose call died or raised
\* before its row was written: the adoption scan cannot find it, so its chunk is
\* ordered again, but only once its reservation was given back or outlived the
\* TTL (the comment on _RESERVATION_TTL_SECONDS, _refill_chunk_children).
OneOrderPerChunk ==
    \A j, k \in ChildIds :
        j # k /\ Paid(j) /\ Paid(k) /\ children[j].chunk = children[k].chunk =>
            \E i \in {j, k} : Stray(i) /\ ~StillReserved(i)

\* The plan never holds more live children and fresh reservations than
\* budget.cds_chunk_max_inflight (config/schema.py).
InflightBudget ==
    MaxInflight > 0 => Cardinality(Active(plan, StatusMap(plan), expired)) <= MaxInflight

\* A parent is successful only when every chunk has a delivered child
\* (compute_parent_status, read by several processes from stale plans).
SuccessIsComplete ==
    row = "successful" =>
        \A c \in Chunks : /\ plan.slots[c].child # NoChild
                          /\ children[plan.slots[c].child].status = "successful"

\* A live child is in the plan, or the actor that ordered it is about to put it
\* there: cancel and cleanup, which go by the plan, reach every live child.
NoOrphan ==
    \A k \in Live : k \in ChildrenOf(plan) \/ \E a \in Actors : kid[a] = k

\* Retries are bounded: a chunk has at most one child more than it may be
\* retried, and the plan counts every one it has retired.
RetriesBounded ==
    \A c \in Chunks :
        /\ plan.slots[c].attempt = Cardinality(plan.slots[c].superseded)
        /\ Cardinality({k \in Recorded : children[k].chunk = c}) <= RetryLimit + 1

\* Only a failed child is retired, and never one that failed on its content
\* (_chunk_failure_retryable): a delivered or live child is not ordered again.
RetiresOnlyRefused ==
    \A c \in Chunks : \A k \in plan.slots[c].superseded :
        children[k].status = "failed" /\ children[k].class # "content"

\* A slot is reserved only to replace nothing, or a child that has failed.
ReservesOnlyWhatIsMissing ==
    \A c \in Chunks : LET s == plan.slots[c] IN
        s.owner # NoOwner /\ s.child # NoChild => children[s.child].status = "failed"

\* After a cancel has stopped the plan no process reserves another slot, and
\* nobody clears the flag (decision 8: a concurrent cancel wins).
StopWins ==
    [][plan.stopped => /\ plan'.stopped
                       /\ \A c \in Chunks : plan'.slots[c].owner
                                              \in {plan.slots[c].owner, NoOwner}]_vars

\* The parent's status, once terminal, never changes (persistence writes that
\* are conditional on a pending row; "terminal status is permanent").
TerminalIsPermanent == [][(row \in Terminal) => (row' = row)]_vars

-----------------------------------------------------------------------------
(* The abstract view: what the plan and its children's rows say of a chunk. *)

ChunkState(c) ==
    LET k == plan.slots[c].child
    IN  IF k = NoChild THEN "waiting"
        ELSE CASE children[k].status = "successful" -> "delivered"
               [] children[k].status = "cancelled"  -> "lost"
               [] children[k].status = "failed"     ->
                    IF children[k].class = "content" THEN "lost" ELSE "refused"
               [] OTHER                             -> "running"

Promise == INSTANCE FanOut WITH parent <- row,
                                chunk  <- [c \in Chunks |-> ChunkState(c)]

\* However polls, retries, cancels and crashes interleave, the parent behaves as
\* FanOut promises (without a failing first wave, which may rewrite the row).
KeepsPromise == Promise!Spec

-----------------------------------------------------------------------------
(* Liveness, for a caller that keeps polling until the parent is terminal. *)

\* The actors that have not died keep taking steps and the agent keeps polling;
\* while the parent is pending its polls poll the plan's children, whose CDS jobs
\* end (nobody polls the children of a terminal parent); time passes, and a
\* backoff that keeps being over when looked at is not missed forever.
Due(a) == Scan(a) /\ pc'[a] = "claim"
PlannedChildEnds(k) ==
    row = "pending" /\ k \in ChildrenOf(plan) /\ \E o \in Outcomes : ChildEnds(k, o)

Fairness ==
    /\ \A a \in Actors :
          /\ WF_vars(OrderStep(a))
          /\ WF_vars(PollStep(a))
          /\ WF_vars(MarkStopped(a, "stop", "kids") \/ CancelChildren(a) \/ FinishCancel(a))
          /\ WF_vars(AbortRow(a) \/ MarkStopped(a, "abort_stop", "abort_kids")
                     \/ AbortChildren(a))
          /\ SF_vars(Due(a))
    /\ \A k \in ChildIds : WF_vars(PlannedChildEnds(k))
    /\ \A c \in Chunks : WF_vars(Expire(c))

FairSpec == Spec /\ Fairness

\* No parent runs forever: whatever is retried, masked, reserved by a dead
\* process or cancelled, the polls end it (_retry_failed_children's warning).
ParentSettles == <>(row \in Terminal)

\* A failed or cancelled parent is, in the end, left without live children: the
\* polls of a terminal parent finish an interrupted cleanup.
StraysAreSwept ==
    row \in {"failed", "cancelled"} ~> [](Live \cap ChildrenOf(plan) = {})

=============================================================================
