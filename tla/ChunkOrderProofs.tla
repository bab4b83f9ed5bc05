--------------------------- MODULE ChunkOrderProofs ---------------------------
(***************************************************************************)
(* Theorems about what a chunked parent orders and what it promises: the   *)
(* forms a step of ChunkParent can take, the bookkeeping every process     *)
(* relies on, and the refinement of FanOut.                                *)
(***************************************************************************)
EXTENDS ChunkParentProofs, FiniteSetTheorems

-----------------------------------------------------------------------------
(* The forms of a step.  A step of one actor leaves the others' memory as  *)
(* it is, and either orders, or writes the plan, or closes child rows, or  *)
(* only moves on.                                                          *)

OrderSteps == {"submit", "record", "assign", "release"}
PassSteps  == {"see", "scan", "mark"}

OthersKeep(a) == \A b \in Actors \ {a} :
    /\ pc'[b] = pc[b] /\ mode'[b] = mode[b] /\ view'[b] = view[b]
    /\ seen'[b] = seen[b] /\ at'[b] = at[b] /\ kid'[b] = kid[b]

\* a goes on to something else than ordering; what it then knows is old or empty,
\* or what is committed.
Leaves(a) ==
    /\ OthersKeep(a)
    /\ pc'[a] \notin OrderSteps \cup {"claim"}
    /\ kid'[a] = NoChild \/ (kid'[a] = kid[a] /\ pc[a] # "record")
    /\ view'[a] \in {view[a], plan', EmptyPlan}
    /\ \/ seen'[a] \in {seen[a], Unseen}
       \/ \E p \in {view[a], plan} : seen'[a] = StatusMap(p)
    /\ pc'[a] \in PassSteps => \/ mode'[a] = "retry"
                               \/ pc[a] \in PassSteps \cup {"claim"} /\ mode'[a] = mode[a]
    /\ mode'[a] = "wave" => mode[a] = "wave"
    /\ pc[a] = "dead" => pc'[a] = "dead"
    /\ pc[a] \in {"submit", "record"} => pc'[a] \in {"abort", "dead"}
    /\ pc'[a] = "abort" => mode[a] = "wave" /\ {"order_error", "wave_cancelled"} \cap Faults # {}

\* Only a death, a cancelled wave or a reservation that is lost takes an actor away
\* from a child it has recorded.
Drops(a) == \/ a \in Mortal \/ "wave_cancelled" \in Faults
            \/ ~Holds(a, view[a]) \/ ~Holds(a, plan)

RowEnds == row' = row \/ (row = "pending" /\ row' \in Terminal)

\* a moves on and touches no more than the parent's row.
Walk(a) ==
    /\ Leaves(a)
    /\ UNCHANGED <<plan, children, expired>>
    /\ pc[a] = "assign" => Drops(a)
    /\ RowEnds \/ (pc[a] = "abort" /\ row' = "failed")

\* a has found a failed child to retry.
Judge(a) ==
    /\ OthersKeep(a)
    /\ pc[a] = "scan" /\ pc'[a] = "claim"
    /\ at'[a] \in Submitted(view[a])
    /\ seen[a][view[a].slots[at'[a]].child] = "failed"
    /\ ~Hopeless(a, at'[a])
    /\ UNCHANGED <<row, plan, children, expired, mode, view, seen, kid>>

\* What a reservation of slot c is based on.
WaveChoice(c)      == c <= WaveSlots /\ plan.slots[c].child = NoChild
RefillChoice(a, c) ==
    /\ ~BudgetFull(plan, seen[a], expired)
    /\ plan.slots[c].child = NoChild
    /\ \A d \in Orderable(plan, expired) : c <= d

Reserve(a) ==
    /\ OthersKeep(a)
    /\ pc'[a] = "submit" /\ at'[a] \in Chunks
    /\ ~Fresh(plan, expired, at'[a])
    /\ plan' = Reserved(plan, at'[a], a)
    /\ expired' = expired \ {at'[a]}
    /\ view'[a] = plan'
    /\ \/ pc[a] = "claim" /\ at'[a] = at[a] /\ SameChild(a, plan)
       \/ /\ pc[a] = "reserve" /\ mode[a] # "retry"
          /\ WaveChoice(at'[a]) \/ RefillChoice(a, at'[a])
    /\ UNCHANGED <<row, children, mode, seen, kid>>

\* An order under way: adopted, sent, recorded, refused.
Ongoing(a) ==
    /\ OthersKeep(a)
    /\ UNCHANGED <<row, plan, expired, mode, view, seen, at>>

Take(a) ==
    /\ Ongoing(a)
    /\ pc[a] = "submit" /\ pc'[a] = "assign"
    /\ kid'[a] \in Adoptable(at[a])
    /\ UNCHANGED children

Send(a) ==
    /\ Ongoing(a)
    /\ pc[a] = "submit" /\ pc'[a] = "record"
    /\ Adoptable(at[a]) = {}
    /\ kid'[a] \in Unused
    /\ children'[kid'[a]] =
          [chunk |-> at[a], status |-> "ordered", class |-> "none", by |-> a]
    /\ \A k \in ChildIds \ {kid'[a]} : children'[k] = children[k]

Book(a) ==
    /\ Ongoing(a)
    /\ pc[a] = "record" /\ pc'[a] = "assign" /\ kid' = kid
    /\ children'[kid[a]] = [children[kid[a]] EXCEPT !.status = "pending", !.by = NoOwner]
    /\ \A k \in ChildIds \ {kid[a]} : children'[k] = children[k]

Refuse(a) ==
    /\ Ongoing(a)
    /\ pc[a] = "submit" /\ pc'[a] = "release"
    /\ UNCHANGED <<children, kid>>

\* CDS has accepted the order, and a will never know which job it is.
LostAs(a, k) ==
    /\ children'[k] = [chunk |-> at[a], status |-> "ordered", class |-> "none", by |-> a]
    /\ \A j \in ChildIds \ {k} : children'[j] = children[j]

Lose(a) ==
    /\ Ongoing(a)
    /\ pc[a] = "submit" /\ pc'[a] \in {"abort", "release"} /\ kid' = kid
    /\ pc'[a] = "abort" => mode[a] = "wave" /\ {"order_error", "wave_cancelled"} \cap Faults # {}
    /\ Adoptable(at[a]) = {}
    /\ \E k \in Unused : LostAs(a, k)

\* The plan is stopped, or a failure masked or unmasked in it.
Mend(a) ==
    /\ Leaves(a)
    /\ pc[a] \notin OrderSteps
    /\ \A c \in Chunks : \E b \in BOOLEAN :
          plan'.slots[c] = [plan.slots[c] EXCEPT !.pending = b]
    /\ UNCHANGED <<row, children, expired>>

Free(a) ==
    /\ Leaves(a)
    /\ pc[a] = "release" /\ Holds(a, plan)
    /\ plan' = Reserved(plan, at[a], NoOwner)
    /\ expired' = expired \ {at[a]}
    /\ UNCHANGED <<row, children>>

\* The child is assigned to its slot.
Fill(a) ==
    /\ Leaves(a)
    /\ pc[a] = "assign" /\ Holds(a, plan)
    /\ plan' = Assigned(a)
    /\ expired' = expired \ {at[a]}
    /\ UNCHANGED <<row, children>>

\* Live children of a plan are cancelled.
Cull(a) ==
    /\ Leaves(a)
    /\ pc[a] \notin OrderSteps
    /\ \A k \in ChildIds : \/ children'[k] = children[k]
                           \/ /\ children[k].status = "pending"
                              /\ children'[k] = [children[k] EXCEPT !.status = "cancelled"]
    /\ UNCHANGED <<row, plan, expired>>

\* A child's job is over.
End(k) ==
    /\ children[k].status = "pending"
    /\ children'[k].status \in Terminal
    /\ children'[k].chunk = children[k].chunk
    /\ \A j \in ChildIds \ {k} : children'[j] = children[j]
    /\ UNCHANGED <<row, plan, expired, pc, local>>

ActorForm(a) ==
    \/ Walk(a) \/ Judge(a) \/ Reserve(a) \/ Take(a) \/ Send(a) \/ Book(a)
    \/ Refuse(a) \/ Lose(a) \/ Mend(a) \/ Free(a) \/ Fill(a) \/ Cull(a)

Form ==
    \/ \E a \in Actors : ActorForm(a)
    \/ \E k \in ChildIds : End(k)
    \/ \E c \in Chunks : Expire(c)
    \/ UNCHANGED vars

-----------------------------------------------------------------------------
(* Every step has one of these forms.                                      *)

LEMMA ForgetLeaves ==
    ASSUME TypeOK, NEW a \in Actors, Forget(a), NEW s, Goto(a, s),
           s \notin OrderSteps \cup PassSteps \cup {"claim", "abort"},
           pc[a] = "dead" => s = "dead",
           pc[a] \in {"submit", "record"} => s \in {"abort", "dead"}
    PROVE  Leaves(a)
BY DEF Leaves, OthersKeep, Forget, Goto, TypeOK, Steps, Modes

\* Cancelling rows closes live children only.
LEMMA CancelRowsForm ==
    ASSUME TypeOK, NEW ks, CancelRows(ks), NEW k \in ChildIds
    PROVE  \/ children'[k] = children[k]
           \/ /\ children[k].status = "pending"
              /\ children'[k] = [children[k] EXCEPT !.status = "cancelled"]
BY DEF TypeOK, CancelRows, Live

LEMMA FOrder ==
    ASSUME SInv, NEW a \in Actors, OrderStep(a)
    PROVE  ActorForm(a)
<1> USE DEF SInv, TInv
<1>0. NChunks \in Nat /\ Chunks = 1..NChunks /\ ChildIds \in SUBSET Nat
  BY PlanAssumption DEF Chunks, ChildIds
<1>a. /\ pc \in [Actors -> Steps] /\ mode \in [Actors -> Modes]
      /\ at \in [Actors -> 1..(NChunks + 1)] /\ plan \in Plan
      /\ view \in [Actors -> Plan] /\ seen \in [Actors -> [ChildIds -> SeenStatus]]
      /\ kid \in [Actors -> ChildIds \cup {NoChild}]
      /\ children \in [ChildIds -> Child]
  BY DEF TypeOK
<1>1. CASE ReserveWave(a)
  <2>1. at[a] \in Chunks /\ at[a] <= WaveSlots
    BY <1>0, <1>1, <1>a, PlanAssumption DEF ReserveWave, WaveSlots
  <2> DEFINE old == CanReserve(view[a], at[a])
             now == CanReserve(plan, at[a])
  <2>2. CASE CasAborts(a, old, now) /\ at' = [at EXCEPT ![a] = at[a] + 1] /\ pc' = pc
    <3>1. Walk(a)
      BY <1>1, <1>a, <2>2 DEF ReserveWave, CasAborts, Walk, Leaves, OthersKeep, OrderSteps,
         PassSteps, RowEnds
    <3> QED
      BY <3>1 DEF ActorForm
  <2>3. CASE /\ CasCommits(a, old, now, Reserved(plan, at[a], a))
             /\ expired' = expired \ {at[a]} /\ Goto(a, "submit") /\ at' = at
    <3>1. plan.slots[at[a]].child = NoChild /\ ~Fresh(plan, expired, at[a])
      BY <2>3 DEF CasCommits, CanReserve, Orderable
    <3>2. Reserve(a)
      BY <1>1, <1>a, <2>1, <2>3, <3>1 DEF ReserveWave, CasCommits, Goto, Reserve, OthersKeep,
         WaveChoice
    <3> QED
      BY <3>2 DEF ActorForm
  <2> QED
    BY <1>1, <2>2, <2>3 DEF ReserveWave
<1>2. CASE WaveDone(a)
  <2>1. Leaves(a)
    BY <1>2, ForgetLeaves DEF WaveDone, OrderSteps, PassSteps
  <2> QED
    BY <1>2, <2>1 DEF WaveDone, Walk, RowEnds, ActorForm
<1>3. CASE ReserveRefill(a)
  <2> DEFINE old == CanRefill(view[a], seen[a])
             now == CanRefill(plan, seen[a])
             c   == First(Orderable(plan, expired))
  <2>1. CASE CasAborts(a, old, now) /\ Goto(a, "settle") /\ at' = at
    <3>1. Walk(a)
      BY <1>3, <1>a, <2>1 DEF ReserveRefill, CasAborts, Goto, Walk, Leaves, OthersKeep,
         OrderSteps, PassSteps, RowEnds
    <3> QED
      BY <3>1 DEF ActorForm
  <2>2. CASE /\ CasCommits(a, old, now, Reserved(plan, c, a))
             /\ expired' = expired \ {c} /\ at' = [at EXCEPT ![a] = c] /\ Goto(a, "submit")
    <3>1. /\ Orderable(plan, expired) # {} /\ Orderable(plan, expired) \in SUBSET Chunks
          /\ ~BudgetFull(plan, seen[a], expired)
      BY <2>2 DEF CasCommits, CanRefill, Orderable
    <3>2. c \in Orderable(plan, expired) /\ \A d \in Orderable(plan, expired) : c <= d
      BY <1>0, <3>1, FirstLeast
    <3>3. c \in Chunks /\ plan.slots[c].child = NoChild /\ ~Fresh(plan, expired, c)
      BY <3>2 DEF Orderable
    <3> HIDE DEF c, old, now
    <3>4. RefillChoice(a, c)
      BY <3>1, <3>2, <3>3 DEF RefillChoice
    <3>5. Reserve(a)
      BY <1>3, <1>a, <2>2, <3>3, <3>4 DEF ReserveRefill, CasCommits, Goto, Reserve, OthersKeep
    <3> QED
      BY <3>5 DEF ActorForm
  <2> QED
    BY <1>3, <2>1, <2>2 DEF ReserveRefill
<1>4. CASE Adopt(a)
  <2>1. Take(a)
    BY <1>4, <1>a DEF Adopt, Goto, Take, Ongoing, OthersKeep
  <2> QED
    BY <2>1 DEF ActorForm
<1>5. CASE Order(a)
  <2>1. First(Unused) \in Unused /\ kid'[a] = First(Unused)
        /\ LostAs(a, First(Unused)) /\ Adoptable(at[a]) = {}
    BY <1>5, <1>a, AcceptedOne DEF Order, Accepted, LostAs, Unused, Placed, AtSlot
  <2>2. Send(a)
    BY <1>5, <1>a, <2>1 DEF Order, Goto, Send, LostAs, Ongoing, OthersKeep
  <2> QED
    BY <2>2 DEF ActorForm
<1>6. CASE Record(a)
  <2>1. kid[a] \in ChildIds
    BY <1>6 DEF Record, Placed
  <2>2. Book(a)
    BY <1>6, <1>a, <2>1 DEF Record, Goto, Book, Ongoing, OthersKeep
  <2> QED
    BY <2>2 DEF ActorForm
<1>7. CASE OrderFails(a)
  <2>0. CASE Accepted(a)
    <3>1. \E k \in Unused : LostAs(a, k)
      BY <1>7, <2>0, AcceptedOne DEF OrderFails, LostAs, Unused, Placed, AtSlot
    <3>2. Lose(a)
      BY <1>7, <1>a, <2>0, <3>1 DEF OrderFails, Accepted, Goto, local, Lose, Ongoing, OthersKeep
    <3> QED
      BY <3>2 DEF ActorForm
  <2>1. CASE UNCHANGED children /\ mode[a] = "wave"
    <3>1. Walk(a)
      BY <1>7, <1>a, <2>1 DEF OrderFails, Goto, local, Walk, Leaves, OthersKeep, OrderSteps,
         PassSteps, RowEnds
    <3> QED
      BY <3>1 DEF ActorForm
  <2>2. CASE UNCHANGED children /\ mode[a] # "wave"
    <3>1. Refuse(a)
      BY <1>7, <1>a, <2>2 DEF OrderFails, Goto, local, Refuse, Ongoing, OthersKeep
    <3> QED
      BY <3>1 DEF ActorForm
  <2> QED
    BY <1>7, <2>0, <2>1, <2>2 DEF OrderFails
<1>8. CASE Assign(a)
  <2> DEFINE old == Holds(a, view[a])
             now == Holds(a, plan)
  <2>1. /\ pc[a] = "assign" /\ UNCHANGED <<row, children, mode, seen>>
        /\ NextRound(a)
    BY <1>8 DEF Assign
  <2>2. view' = [view EXCEPT ![a] = view'[a]] /\ view'[a] \in {view[a], plan'}
    BY <1>8, <1>a DEF Assign, CasAborts, CasCommits
  <2>3. Leaves(a)
    BY <1>a, <2>1, <2>2 DEF NextRound, Goto, Leaves, OthersKeep, OrderSteps, PassSteps
  <2>4. CASE CasAborts(a, old, now)
    BY <2>1, <2>3, <2>4 DEF CasAborts, Walk, Drops, RowEnds, ActorForm
  <2>5. CASE CasCommits(a, old, now, Assigned(a)) /\ expired' = expired \ {at[a]}
    BY <2>1, <2>3, <2>5 DEF CasCommits, Fill, ActorForm
  <2> QED
    BY <1>8, <2>4, <2>5 DEF Assign
<1>9. CASE Release(a)
  <2> DEFINE old == Holds(a, view[a])
             now == Holds(a, plan)
             new == Reserved(plan, at[a], NoOwner)
  <2>1. /\ pc[a] = "release" /\ UNCHANGED <<row, children, mode, seen, at, kid>>
        /\ Goto(a, "fail")
    BY <1>9 DEF Release
  <2>2. view' = [view EXCEPT ![a] = view'[a]] /\ view'[a] \in {view[a], plan'}
    BY <1>9, <1>a DEF Release, CasAborts, CasCommits
  <2>3. Leaves(a)
    BY <1>a, <2>1, <2>2 DEF Goto, Leaves, OthersKeep, OrderSteps, PassSteps
  <2>4. CASE CasAborts(a, old, now)
    BY <2>1, <2>3, <2>4 DEF CasAborts, Walk, RowEnds, ActorForm
  <2>5. CASE CasCommits(a, old, now, new) /\ expired' = expired \ {at[a]}
    BY <2>1, <2>3, <2>5 DEF CasCommits, Free, ActorForm
  <2> QED
    BY <1>9, <2>4, <2>5 DEF Release
<1>10. CASE FailParent(a)
  <2>1. Leaves(a)
    BY <1>10, <1>a DEF FailParent, Goto, local, Leaves, OthersKeep, OrderSteps, PassSteps
  <2> QED
    BY <1>10, <2>1 DEF FailParent, SetRowIfPending, local, Walk, RowEnds, Terminal, ActorForm
<1> QED
  BY <1>1, <1>2, <1>3, <1>4, <1>5, <1>6, <1>7, <1>8, <1>9, <1>10 DEF OrderStep

LEMMA FPoll ==
    ASSUME SInv, NEW a \in Actors, PollStep(a)
    PROVE  ActorForm(a)
<1> USE DEF SInv, TInv
<1>0. ChildIds \in SUBSET Nat /\ Chunks \in SUBSET Nat
  BY PlanAssumption DEF Chunks, ChildIds
<1>a. /\ pc \in [Actors -> Steps] /\ mode \in [Actors -> Modes]
      /\ at \in [Actors -> 1..(NChunks + 1)] /\ plan \in Plan
      /\ view \in [Actors -> Plan] /\ seen \in [Actors -> [ChildIds -> SeenStatus]]
      /\ kid \in [Actors -> ChildIds \cup {NoChild}]
      /\ children \in [ChildIds -> Child]
  BY DEF TypeOK
<1> USE DEF OrderSteps, PassSteps
<1>1. CASE StartPoll(a)
  <2>1. Walk(a)
    BY <1>1, <1>a DEF StartPoll, FirstStep, Goto, Walk, Leaves, OthersKeep, RowEnds
  <2> QED
    BY <2>1 DEF ActorForm
<1>2. CASE PollDelivered(a)
  <2>1. Walk(a)
    BY <1>2, <1>a DEF PollDelivered, vars, Walk, Leaves, OthersKeep, RowEnds
  <2> QED
    BY <2>1 DEF ActorForm
<1>3. CASE See(a)
  <2>1. Walk(a)
    BY <1>3, <1>a DEF See, Goto, Walk, Leaves, OthersKeep, RowEnds
  <2> QED
    BY <2>1 DEF ActorForm
<1>4. CASE Scan(a)
  <2> DEFINE failed == {d \in Submitted(view[a]) :
                           d >= at[a] /\ seen[a][view[a].slots[d].child] = "failed"}
             c      == First(failed)
             owed   == failed # {} /\ ~Hopeless(a, c)
  <2>1. pc[a] = "scan" /\ UNCHANGED <<row, plan, children, expired, mode, view, seen, kid>>
    BY <1>4 DEF Scan
  <2>2. CASE /\ owed /\ Goto(a, "claim") /\ at' = [at EXCEPT ![a] = c]
    <3>1. c \in failed
      BY <1>0, <2>2, FirstLeast DEF Submitted
    <3> HIDE DEF c
    <3>2. Judge(a)
      BY <1>a, <2>1, <2>2, <3>1 DEF Goto, Judge, OthersKeep
    <3> QED
      BY <3>2 DEF ActorForm
  <2>3. CASE /\ \E s \in {"refill", "decline", "mark", "scan"} : Goto(a, s)
             /\ \E i : at' = [at EXCEPT ![a] = i]
    <3>1. Walk(a)
      BY <1>a, <2>1, <2>3 DEF Goto, Walk, Leaves, OthersKeep, RowEnds
    <3> QED
      BY <3>1 DEF ActorForm
  <2>4. UNCHANGED pc => Goto(a, "scan")
    BY <1>a, <2>1 DEF Goto
  <2>5. UNCHANGED at => at' = [at EXCEPT ![a] = at[a]]
    BY <1>a
  <2> QED
    BY <1>4, <2>2, <2>3, <2>4, <2>5 DEF Scan
<1>5. CASE Decline(a) \/ Mark(a)
  <2>1. /\ pc[a] \in {"decline", "mark"} /\ at[a] \in Chunks
        /\ pc' = [pc EXCEPT ![a] = IF pc[a] = "mark" THEN "scan" ELSE "refill"]
        /\ UNCHANGED <<row, children, expired, mode, seen, at, kid>>
    BY <1>5 DEF Decline, Mark, Goto, Placed, AtSlot, CasAborts
  <2>2. /\ \E p \in {view[a], plan'} : view' = [view EXCEPT ![a] = p]
        /\ \/ plan' = plan
           \/ \E b \in BOOLEAN : plan' = Masking(plan, at[a], b)
    BY <1>5 DEF Decline, Mark, Masking, CasAborts, CasCommits
  <2>3. \A d \in Chunks : \E b \in BOOLEAN :
           plan'.slots[d] = [plan.slots[d] EXCEPT !.pending = b]
    <3>1. \A d \in Chunks : /\ plan.slots[d] = [plan.slots[d] EXCEPT !.pending = plan.slots[d].pending]
                           /\ plan.slots[d].pending \in BOOLEAN
      BY <1>a DEF Plan, Slot
    <3>2. ASSUME NEW b \in BOOLEAN, plan' = Masking(plan, at[a], b)
          PROVE  \A d \in Chunks : plan'.slots[d] = IF d = at[a]
                    THEN [plan.slots[d] EXCEPT !.pending = b] ELSE plan.slots[d]
      BY <1>a, <3>2 DEF Masking, Plan
    <3> QED
      BY <2>2, <3>1, <3>2
  <2>4. Mend(a)
    BY <1>a, <2>1, <2>2, <2>3 DEF Mend, Leaves, OthersKeep
  <2> QED
    BY <2>4 DEF ActorForm
<1>6. CASE Claim(a)
  <2> DEFINE old == CanClaim(a, view[a])
             now == CanClaim(a, plan)
             new == Reserved(plan, at[a], a)
  <2>1. pc[a] = "claim" /\ at[a] \in Chunks
    BY <1>6 DEF Claim, Placed, AtSlot
  <2>2. CASE CasAborts(a, old, now) /\ pc' # [pc EXCEPT ![a] = "submit"]
    <3>1. Walk(a)
      BY <1>6, <1>a, <2>1, <2>2 DEF Claim, CasAborts, Goto, Walk, Leaves, OthersKeep, RowEnds
    <3> QED
      BY <3>1 DEF ActorForm
  <2>3. CASE /\ CasCommits(a, old, now, new) /\ expired' = expired \ {at[a]}
             /\ Goto(a, "submit") /\ at' = at
    <3>1. Reserve(a)
      BY <1>6, <1>a, <2>1, <2>3
         DEF Claim, CasCommits, CanClaim, Goto, Reserve, OthersKeep
    <3> QED
      BY <3>1 DEF ActorForm
  <2> QED
    BY <1>6, <1>a, <2>2, <2>3 DEF Claim, Goto
<1>7. CASE SweepForRefill(a)
  <2>1. Walk(a)
    BY <1>7, <1>a DEF SweepForRefill, Goto, Walk, Leaves, OthersKeep, RowEnds
  <2> QED
    BY <2>1 DEF ActorForm
<1>8. CASE Settle(a)
  <2>1. Leaves(a)
    BY <1>8, <1>a, ForgetLeaves DEF Settle, Goto, Leaves, OthersKeep
  <2> QED
    BY <1>8, <2>1 DEF Settle, Walk, RowEnds, ActorForm
<1>9. CASE Write(a)
  <2>1. Leaves(a)
    <3>1. CASE Goto(a, "look") /\ UNCHANGED local
      BY <1>9, <1>a, <3>1 DEF Write, Goto, local, Leaves, OthersKeep
    <3>2. CASE Goto(a, "sweep") /\ view' = [view EXCEPT ![a] = plan]
               /\ UNCHANGED <<mode, seen, at, kid>>
      BY <1>9, <1>a, <3>2 DEF Write, Goto, Leaves, OthersKeep
    <3>3. CASE Goto(a, "idle") /\ Forget(a)
      BY <1>9, <3>3, ForgetLeaves DEF Write
    <3> QED
      BY <1>9, <3>1, <3>2, <3>3 DEF Write
  <2>2. RowEnds /\ UNCHANGED <<plan, children, expired>> /\ pc[a] = "write"
    BY <1>9 DEF Write, SetRowIfPending, RowEnds
  <2> QED
    BY <2>1, <2>2 DEF Walk, ActorForm
<1>10. CASE Look(a)
  <2>1. Leaves(a)
    BY <1>10, <1>a, ForgetLeaves DEF Look, local, Goto, Leaves, OthersKeep
  <2> QED
    BY <1>10, <2>1 DEF Look, Walk, RowEnds, ActorForm
<1>11. CASE Cleanup(a)
  <2>1. Leaves(a)
    BY <1>11, ForgetLeaves DEF Cleanup
  <2>2. Cull(a)
    BY <1>11, <2>1, CancelRowsForm DEF Cleanup, Cull
  <2> QED
    BY <2>2 DEF ActorForm
<1> QED
  BY <1>1, <1>2, <1>3, <1>4, <1>5, <1>6, <1>7, <1>8, <1>9, <1>10, <1>11 DEF PollStep

LEMMA FStopping ==
    ASSUME SInv, NEW a \in Actors, CancelStep(a) \/ AbortStep(a)
    PROVE  ActorForm(a)
<1> USE DEF SInv, TInv, OrderSteps, PassSteps
<1>a. /\ pc \in [Actors -> Steps] /\ mode \in [Actors -> Modes] /\ plan \in Plan
      /\ view \in [Actors -> Plan] /\ kid \in [Actors -> ChildIds \cup {NoChild}]
  BY DEF TypeOK
<1>1. CASE StartCancel(a)
  <2>1. Walk(a)
    BY <1>1, <1>a DEF StartCancel, Goto, Walk, Leaves, OthersKeep, RowEnds
  <2> QED
    BY <2>1 DEF ActorForm
<1>2. CASE MarkStopped(a, "stop", "kids") \/ MarkStopped(a, "abort_stop", "abort_kids")
  <2> DEFINE new == [plan EXCEPT !.stopped = TRUE]
  <2>1. /\ pc[a] \notin OrderSteps \cup {"dead"} /\ plan' = new /\ view' = [view EXCEPT ![a] = new]
        /\ \E s \in {"kids", "abort_kids"} : pc' = [pc EXCEPT ![a] = s]
        /\ UNCHANGED <<row, children, expired, mode, seen, at, kid>>
    BY <1>2 DEF MarkStopped, CasCommits, Goto
  <2>2. \A c \in Chunks : plan'.slots[c] = [plan.slots[c] EXCEPT !.pending = plan.slots[c].pending]
    BY <1>a, <2>1, StoppedPlan DEF Plan, Slot
  <2>3. \A c \in Chunks : plan.slots[c].pending \in BOOLEAN
    BY <1>a DEF Plan, Slot
  <2> HIDE DEF new
  <2>4. Mend(a)
    BY <1>a, <2>1, <2>2, <2>3 DEF Mend, Leaves, OthersKeep
  <2> QED
    BY <2>4 DEF ActorForm
<1>3. CASE CancelChildren(a)
  <2>1. Leaves(a)
    BY <1>3, <1>a DEF CancelChildren, Goto, local, Leaves, OthersKeep
  <2>2. Cull(a)
    BY <1>3, <2>1, CancelRowsForm DEF CancelChildren, Cull
  <2> QED
    BY <2>2 DEF ActorForm
<1>4. CASE FinishCancel(a)
  <2>1. Leaves(a)
    BY <1>4, ForgetLeaves DEF FinishCancel
  <2> QED
    BY <1>4, <2>1 DEF FinishCancel, SetRowIfPending, Walk, RowEnds, Terminal, ActorForm
<1>5. CASE WaveCancelled(a)
  <2>1. CASE UNCHANGED children
    <3>1. Leaves(a)
      BY <1>5, <1>a DEF WaveCancelled, Goto, Leaves, OthersKeep
    <3> QED
      BY <1>5, <2>1, <3>1 DEF WaveCancelled, Walk, Drops, RowEnds, ActorForm
  <2>2. CASE pc[a] = "submit" /\ Accepted(a) /\ UNCHANGED kid
    <3>1. \E k \in Unused : LostAs(a, k)
      BY <2>2, AcceptedOne DEF LostAs, Unused, Placed, AtSlot
    <3>2. Lose(a)
      BY <1>5, <1>a, <2>2, <3>1 DEF WaveCancelled, Accepted, Goto, Lose, Ongoing, OthersKeep
    <3> QED
      BY <3>2 DEF ActorForm
  <2> QED
    BY <1>5, <2>1, <2>2 DEF WaveCancelled
<1>6. CASE AbortRow(a)
  <2>1. Leaves(a)
    BY <1>6, <1>a DEF AbortRow, Goto, local, Leaves, OthersKeep
  <2> QED
    BY <1>6, <2>1 DEF AbortRow, Walk, ActorForm
<1>7. CASE AbortChildren(a)
  <2>1. Leaves(a)
    BY <1>7, ForgetLeaves DEF AbortChildren
  <2>2. Cull(a)
    BY <1>7, <2>1, CancelRowsForm DEF AbortChildren, Cull
  <2> QED
    BY <2>2 DEF ActorForm
<1> QED
  BY <1>1, <1>2, <1>3, <1>4, <1>5, <1>6, <1>7 DEF CancelStep, AbortStep

LEMMA FEnds ==
    ASSUME SInv, NEW k \in ChildIds, NEW o \in Outcomes, ChildEnds(k, o)
    PROVE  End(k)
<1> DEFINE status == CASE o = "ok" -> "successful" [] o = "dismissed" -> "cancelled"
                       [] OTHER -> "failed"
<1>1. status \in Terminal
  BY DEF Terminal
<1> HIDE DEF status
<1>2. /\ k \in Live /\ UNCHANGED <<row, plan, expired, pc, local>>
      /\ \E x : children' = [children EXCEPT ![k] = [@ EXCEPT !.status = status, !.class = x]]
  BY DEF ChildEnds, status
<1>3. children \in [ChildIds -> Child]
  BY DEF SInv, TInv, TypeOK
<1> QED
  BY <1>1, <1>2, <1>3 DEF End, Live

LEMMA FCrash ==
    ASSUME SInv, NEW a \in Actors, Crash(a)
    PROVE  Walk(a)
<1>1. Leaves(a)
  BY ForgetLeaves DEF Crash, SInv, TInv, OrderSteps, PassSteps
<1> QED
  BY <1>1 DEF Crash, Walk, Drops, RowEnds

LEMMA Forms == ASSUME SInv, [Next]_vars PROVE Form
<1>1. ASSUME NEW a \in Actors, OrderStep(a) \/ PollStep(a) \/ CancelStep(a) \/ AbortStep(a)
      PROVE  ActorForm(a)
  BY <1>1, FOrder, FPoll, FStopping
<1>2. ASSUME NEW a \in Actors, Crash(a) PROVE ActorForm(a)
  BY <1>2, FCrash DEF ActorForm
<1> QED
  BY <1>1, <1>2, FEnds DEF Next, Form

-----------------------------------------------------------------------------
(* What a step of these forms does to the children, the plan and what the  *)
(* actors remember of them.                                                *)

\* A child's row, once written, keeps its chunk, and a final one is final.
RowsKept == \A k \in ChildIds :
    /\ children[k].status # "none" => children'[k].chunk = children[k].chunk
    /\ children[k].status \in Terminal => children'[k] = children[k]
    /\ children[k].status = "pending" => children'[k].status \in RowStatus
    /\ children[k].status = "ordered" => children'[k].status \in {"ordered", "pending"}

\* Slot c keeps its child and the count of those before it.
SameSlot(c) ==
    /\ plan'.slots[c].child = plan.slots[c].child
    /\ plan'.slots[c].superseded = plan.slots[c].superseded
    /\ plan'.slots[c].attempt = plan.slots[c].attempt

\* An assign write, in the slot it fills.
Filled(a) ==
    LET s == plan.slots[at[a]]
        t == plan'.slots[at[a]]
    IN  /\ at[a] \in Chunks /\ kid[a] \in ChildIds
        /\ t.child = kid[a] /\ t.owner = NoOwner
        /\ mode[a] = "retry" => /\ t.attempt = s.attempt + 1
                                /\ t.superseded = s.superseded \cup {s.child}
        /\ mode[a] # "retry" => t.attempt = s.attempt /\ t.superseded = s.superseded
        /\ \A d \in Chunks \ {at[a]} : plan'.slots[d] = plan.slots[d]

LEMMA FillFills ==
    ASSUME TInv, NEW a \in Actors, Fill(a)
    PROVE  Filled(a)
<1> DEFINE s == plan.slots[at[a]]
<1>1. /\ at[a] \in Chunks /\ kid[a] \in ChildIds /\ plan \in Plan /\ s \in Slot
      /\ mode[a] = "retry" => s.child # NoChild
  BY DEF TInv, TypeOK, Placed, AtSlot, Fill, Plan
<1>2. CASE mode[a] = "retry"
  <2> DEFINE t == [child |-> kid[a], owner |-> NoOwner, attempt |-> s.attempt + 1,
                   pending |-> FALSE, superseded |-> s.superseded \cup {s.child}]
  <2>1. plan' = [plan EXCEPT !.slots[at[a]] = t]
    BY <1>2 DEF Fill, Assigned
  <2>2. /\ t.child = kid[a] /\ t.owner = NoOwner /\ t.attempt = s.attempt + 1
        /\ t.superseded = s.superseded \cup {s.child}
    OBVIOUS
  <2> HIDE DEF t
  <2>3. plan'.slots[at[a]] = t /\ \A d \in Chunks \ {at[a]} : plan'.slots[d] = plan.slots[d]
    BY <1>1, <2>1 DEF Plan
  <2> QED
    BY <1>1, <1>2, <2>2, <2>3 DEF Filled
<1>3. CASE mode[a] # "retry"
  <2> DEFINE t == [s EXCEPT !.child = kid[a], !.owner = NoOwner]
  <2>1. plan' = [plan EXCEPT !.slots[at[a]] = t]
    BY <1>3 DEF Fill, Assigned
  <2>2. /\ t.child = kid[a] /\ t.owner = NoOwner /\ t.attempt = s.attempt
        /\ t.superseded = s.superseded
    BY <1>1 DEF Slot
  <2> HIDE DEF t
  <2>3. plan'.slots[at[a]] = t /\ \A d \in Chunks \ {at[a]} : plan'.slots[d] = plan.slots[d]
    BY <1>1, <2>1 DEF Plan
  <2> QED
    BY <1>1, <1>3, <2>2, <2>3 DEF Filled
<1> QED
  BY <1>2, <1>3

\* Reserving or freeing a slot changes nothing but its owner.
LEMMA OwnerOnly ==
    ASSUME TInv, NEW c \in Chunks, NEW o, plan' = Reserved(plan, c, o)
    PROVE  /\ plan'.slots[c].owner = o
           /\ \A d \in Chunks : SameSlot(d) /\ (d # c => plan'.slots[d] = plan.slots[d])
<1>1. plan \in Plan /\ plan.slots[c] \in Slot
  BY DEF TInv, TypeOK, Plan
<1> DEFINE t == [plan.slots[c] EXCEPT !.owner = o]
<1>2. plan' = [plan EXCEPT !.slots[c] = t]
  BY <1>1 DEF Reserved, Plan
<1>3. /\ t.owner = o /\ t.child = plan.slots[c].child /\ t.attempt = plan.slots[c].attempt
      /\ t.superseded = plan.slots[c].superseded
  BY <1>1 DEF Slot
<1> HIDE DEF t
<1>4. plan'.slots[c] = t /\ \A d \in Chunks : d # c => plan'.slots[d] = plan.slots[d]
  BY <1>1, <1>2 DEF Plan
<1> QED
  BY <1>3, <1>4 DEF SameSlot

\* A slot keeps its child and its owner, or is reserved, freed or filled.
SlotForm(c) ==
    \/ SameSlot(c) /\ plan'.slots[c].owner = plan.slots[c].owner
    \/ \E a \in Actors : Reserve(a) /\ at'[a] = c /\ SameSlot(c) /\ plan'.slots[c].owner = a
    \/ \E a \in Actors : Free(a) /\ at[a] = c /\ SameSlot(c) /\ plan'.slots[c].owner = NoOwner
    \/ \E a \in Actors : Fill(a) /\ at[a] = c /\ Filled(a)

LEMMA FSlots ==
    ASSUME TInv, Form
    PROVE  \A c \in Chunks : SlotForm(c)
<1>1. ASSUME plan' = plan PROVE \A c \in Chunks : SlotForm(c)
  BY <1>1 DEF SlotForm, SameSlot
<1>2. ASSUME NEW a \in Actors, Reserve(a) PROVE \A c \in Chunks : SlotForm(c)
  BY <1>2, OwnerOnly DEF Reserve, SlotForm
<1>3. ASSUME NEW a \in Actors, Free(a) PROVE \A c \in Chunks : SlotForm(c)
  <2>1. at[a] \in Chunks
    BY <1>3 DEF Free, TInv, Placed, AtSlot
  <2> QED
    BY <1>3, <2>1, OwnerOnly DEF Free, SlotForm
<1>4. ASSUME NEW a \in Actors, Fill(a) PROVE \A c \in Chunks : SlotForm(c)
  BY <1>4, FillFills DEF Filled, SlotForm, SameSlot
<1>5. ASSUME NEW a \in Actors, Mend(a) PROVE \A c \in Chunks : SlotForm(c)
  <2> SUFFICES ASSUME NEW c \in Chunks PROVE SlotForm(c)
    OBVIOUS
  <2>1. plan.slots[c] \in Slot
    BY DEF TInv, TypeOK, Plan
  <2>2. PICK b \in BOOLEAN : plan'.slots[c] = [plan.slots[c] EXCEPT !.pending = b]
    BY <1>5 DEF Mend
  <2> QED
    BY <2>1, <2>2 DEF Slot, SlotForm, SameSlot
<1>6. ASSUME NEW a \in Actors, Walk(a) \/ Judge(a) \/ Take(a) \/ Send(a) \/ Book(a)
                               \/ Refuse(a) \/ Lose(a) \/ Cull(a)
      PROVE  plan' = plan
  BY <1>6 DEF Walk, Judge, Take, Send, Book, Refuse, Lose, Cull, Ongoing
<1>7. (\E k \in ChildIds : End(k)) \/ (\E c \in Chunks : Expire(c)) \/ UNCHANGED vars
      => plan' = plan
  BY DEF End, Expire, vars
<1> QED
  BY <1>1, <1>2, <1>3, <1>4, <1>5, <1>6, <1>7 DEF Form, ActorForm

LEMMA CulledRow ==
    ASSUME TypeOK, NEW a \in Actors, Cull(a), NEW k \in ChildIds
    PROVE  \/ children'[k] = children[k]
           \/ /\ children[k].status = "pending" /\ children'[k].status = "cancelled"
              /\ children'[k].chunk = children[k].chunk
<1>1. children[k] \in Child
  BY DEF TypeOK
<1>2. LET t == [children[k] EXCEPT !.status = "cancelled"]
      IN  t.status = "cancelled" /\ t.chunk = children[k].chunk
  BY <1>1 DEF Child
<1> QED
  BY <1>2 DEF Cull

LEMMA FRows ==
    ASSUME SInv, Form
    PROVE  RowsKept
<1>a. children \in [ChildIds -> Child]
  BY DEF SInv, TInv, TypeOK
<1> USE DEF RowsKept, Terminal, RowStatus
<1>1. ASSUME children' = children PROVE RowsKept
  BY <1>1
<1>2. ASSUME NEW a \in Actors, Send(a) \/ Lose(a) PROVE RowsKept
  BY <1>2 DEF Send, Lose, LostAs, Unused
<1>3. ASSUME NEW a \in Actors, Book(a) PROVE RowsKept
  <2>1. kid[a] \in ChildIds /\ children[kid[a]].status = "ordered"
    BY <1>3 DEF Book, SInv, TInv, Placed, RecordsItsOwn
  <2>2. children'[kid[a]].status = "pending" /\ children'[kid[a]].chunk = children[kid[a]].chunk
    BY <1>a, <1>3, <2>1 DEF Book, Child
  <2> QED
    BY <1>3, <2>1, <2>2 DEF Book
<1>4. ASSUME NEW a \in Actors, Cull(a) PROVE RowsKept
  BY <1>4, CulledRow DEF SInv, TInv
<1>5. ASSUME NEW k \in ChildIds, End(k) PROVE RowsKept
  BY <1>5 DEF End
<1>6. ASSUME NEW a \in Actors, Walk(a) \/ Judge(a) \/ Reserve(a) \/ Take(a) \/ Refuse(a)
                               \/ Mend(a) \/ Free(a) \/ Fill(a)
      PROVE  children' = children
  BY <1>6 DEF Walk, Judge, Reserve, Take, Refuse, Mend, Free, Fill, Ongoing
<1>7. (\E c \in Chunks : Expire(c)) \/ UNCHANGED vars => children' = children
  BY DEF Expire, vars
<1> QED
  BY <1>1, <1>2, <1>3, <1>4, <1>5, <1>6, <1>7 DEF Form, ActorForm

\* What an actor remembers is what it remembered, nothing, or what is committed.
Remembers(b) ==
    /\ view'[b] \in {view[b], plan', EmptyPlan}
    /\ \/ seen'[b] \in {seen[b], Unseen}
       \/ \E p \in {view[b], plan} : seen'[b] = StatusMap(p)

LEMMA FMemory ==
    ASSUME TInv, Form
    PROVE  \A b \in Actors : Remembers(b)
<1> USE DEF Remembers
<1>1. ASSUME NEW a \in Actors, ActorForm(a) PROVE \A b \in Actors : Remembers(b)
  <2>1. OthersKeep(a)
    BY <1>1 DEF ActorForm, Walk, Judge, Reserve, Take, Send, Book, Refuse, Lose, Mend, Free, Fill,
       Cull, Leaves, Ongoing
  <2>2. CASE Leaves(a)
    BY <2>1, <2>2 DEF OthersKeep, Leaves
  <2>3. CASE Judge(a) \/ Reserve(a) \/ Ongoing(a)
    BY <2>1, <2>3 DEF OthersKeep, Judge, Reserve, Ongoing
  <2> QED
    BY <1>1, <2>2, <2>3 DEF ActorForm, Walk, Take, Send, Book, Refuse, Lose, Mend, Free, Fill, Cull
<1>2. (\E k \in ChildIds : End(k)) \/ (\E c \in Chunks : Expire(c)) \/ UNCHANGED vars
      => view' = view /\ seen' = seen
  BY DEF End, Expire, vars, local
<1> QED
  BY <1>1, <1>2 DEF Form

-----------------------------------------------------------------------------
(* The bookkeeping.  A slot's child is the one child of its chunk that has *)
(* not been retired, whatever stale plan, sweep or reservation an actor    *)
(* acts on: this is what a retry counts on when it retires the child it    *)
(* finds in the slot rather than the one whose failure it judged.          *)

\* A failure that may be retried.
Failed(k) == children[k].status = "failed" /\ children[k].class # "content"

\* The children of a plan are recorded, and each is in the slot of its chunk.
Filed(p) == \A c \in Chunks :
    /\ p.slots[c].child # NoChild => /\ p.slots[c].child \in Recorded
                                     /\ children[p.slots[c].child].chunk = c
    /\ \A k \in p.slots[c].superseded : k \in Recorded /\ children[k].chunk = c

PlansFiled == Filed(plan) /\ \A a \in Actors : Filed(view[a])

\* A child in hand is recorded or about to be, and is of the slot being ordered.
HandsOwn == \A a \in Actors :
    /\ kid[a] # NoChild => \/ kid[a] \in Recorded
                           \/ pc[a] = "record" /\ children[kid[a]].status = "ordered"
    /\ pc[a] \in {"record", "assign"} => children[kid[a]].chunk = at[a]

\* A sweep asks about one child of each chunk.
SweptOnce == \A a \in Actors, j, k \in ChildIds :
    seen[a][j] # "unknown" =>
        /\ j \in Recorded
        /\ seen[a][k] # "unknown" /\ children[j].chunk = children[k].chunk => j = k

\* A child in an actor's plan is still in its slot, at the same attempt, or retired.
Earlier == \A a \in Actors, c \in Chunks :
    LET k == view[a].slots[c].child
        s == plan.slots[c]
    IN  k # NoChild => /\ k \in s.superseded \cup {s.child}
                       /\ k = s.child => view[a].slots[c].attempt = s.attempt

\* A retry about to be claimed is of a child that failed, and may be retried.
Judged == \A a \in Actors : pc[a] = "claim" =>
    LET s == view[a].slots[at[a]]
    IN  /\ s.child # NoChild /\ seen[a][s.child] = "failed" /\ Failed(s.child)
        /\ s.attempt < RetryLimit

\* Only the retry pass judges.
PassIsRetry == \A a \in Actors : pc[a] \in PassSteps \cup {"claim"} => mode[a] = "retry"

\* An order under a reservation that stands replaces nothing, or the failed child.
Reserves == \A a \in Actors :
    LET s == plan.slots[at[a]]
    IN  Ordering(a) /\ s.owner = a =>
            /\ mode[a] = "retry" => /\ s.child # NoChild /\ Failed(s.child)
                                    /\ s.attempt < RetryLimit
            /\ mode[a] # "retry" => s.child = NoChild
            /\ pc[a] \in {"record", "assign"} => kid[a] \notin s.superseded \cup {s.child}

\* The retired children of a slot failed, and every attempt has retired one.
Retired == \A c \in Chunks :
    LET s == plan.slots[c]
    IN  /\ \A k \in s.superseded : Failed(k)
        /\ s.child \notin s.superseded
        /\ s.attempt = Cardinality(s.superseded)
        /\ s.attempt <= RetryLimit

OInv == /\ PlansFiled /\ HandsOwn /\ SweptOnce /\ Earlier /\ Judged /\ PassIsRetry
        /\ Reserves /\ Retired

Books == SInv /\ OInv

LEMMA BooksInit ==
    ASSUME NEW step \in {"reserve", "dead"}, InitAt(step)
    PROVE  Books
<1>1. SInv
  BY SInit
<1>2. /\ plan = EmptyPlan /\ \A a \in Actors : view[a] = EmptyPlan /\ seen[a] = Unseen
      /\ \A a \in Actors : kid[a] = NoChild /\ pc[a] \in {"reserve", "dead", "idle"}
  BY DEF InitAt
<1>3. \A c \in Chunks : EmptyPlan.slots[c] = EmptySlot
  BY DEF EmptyPlan
<1>4. /\ EmptySlot.child = NoChild /\ EmptySlot.superseded = {} /\ EmptySlot.attempt = 0
      /\ Cardinality({}) = 0 /\ 0 <= RetryLimit
  BY PlanAssumption, FS_EmptySet DEF EmptySlot
<1>5. PlansFiled /\ Earlier /\ Retired
  BY <1>2, <1>3, <1>4 DEF PlansFiled, Filed, Earlier, Retired
<1>6. HandsOwn /\ Judged /\ PassIsRetry /\ Reserves
  BY <1>2 DEF HandsOwn, Judged, PassIsRetry, PassSteps, Reserves, Ordering
<1>7. SweptOnce
  BY <1>2 DEF SweptOnce, Unseen
<1> QED
  BY <1>1, <1>5, <1>6, <1>7 DEF Books, OInv

\* Facts about types the steps below keep needing.
LEMMA BookTypes ==
    ASSUME TInv
    PROVE  /\ children \in [ChildIds -> Child]
           /\ \A c \in Chunks : /\ plan.slots[c].child \in ChildIds \cup {NoChild}
                                /\ plan.slots[c].superseded \in SUBSET ChildIds
                                /\ plan.slots[c].attempt \in Nat
           /\ \A a \in Actors, c \in Chunks :
                 /\ view[a].slots[c].child \in ChildIds \cup {NoChild}
                 /\ view[a].slots[c].superseded \in SUBSET ChildIds
                 /\ view[a].slots[c].attempt \in Nat
           /\ \A a \in Actors : /\ seen[a] \in [ChildIds -> SeenStatus]
                                /\ kid[a] \in ChildIds \cup {NoChild}
           /\ NoChild \notin ChildIds
BY PlanAssumption DEF TInv, TypeOK, Plan, Slot, NoChild, ChildIds

LEMMA FailedKept ==
    ASSUME RowsKept, NEW k \in ChildIds, Failed(k)
    PROVE  Failed(k)'
BY DEF RowsKept, Failed, Terminal

LEMMA RecordedKept ==
    ASSUME RowsKept, NEW k \in Recorded
    PROVE  k \in Recorded' /\ children'[k].chunk = children[k].chunk
<1>1. k \in ChildIds /\ children[k].status \in RowStatus
  BY DEF Recorded
<1>2. children'[k].status \in RowStatus /\ children'[k].chunk = children[k].chunk
  BY <1>1 DEF RowsKept, RowStatus, Terminal
<1> QED
  BY <1>1, <1>2 DEF Recorded

\* An actor that assigns holds a recorded child of the slot.
LEMMA FillerHolds ==
    ASSUME Books, NEW a \in Actors, Fill(a)
    PROVE  /\ kid[a] \in Recorded /\ children[kid[a]].chunk = at[a]
           /\ kid[a] \notin plan.slots[at[a]].superseded \cup {plan.slots[at[a]].child}
           /\ plan.slots[at[a]].owner = a
           /\ mode[a] = "retry" => /\ plan.slots[at[a]].child # NoChild
                                   /\ Failed(plan.slots[at[a]].child)
                                   /\ plan.slots[at[a]].attempt < RetryLimit
           /\ mode[a] # "retry" => plan.slots[at[a]].child = NoChild
BY BookTypes DEF Books, OInv, SInv, TInv, Placed, Fill, Holds, HandsOwn, Reserves, Ordering

LEMMA PlansFiledKept ==
    ASSUME Books, RowsKept, \A c \in Chunks : SlotForm(c), \A b \in Actors : Remembers(b)
    PROVE  PlansFiled'
<1> USE DEF Books, SInv
<1>1. Filed(plan)'
  <2> SUFFICES ASSUME NEW c \in Chunks
               PROVE  /\ plan'.slots[c].child # NoChild
                         => /\ plan'.slots[c].child \in Recorded'
                            /\ children'[plan'.slots[c].child].chunk = c
                      /\ \A k \in plan'.slots[c].superseded :
                            k \in Recorded' /\ children'[k].chunk = c
    BY DEF Filed
  <2>1. CASE SameSlot(c)
    BY <2>1, RecordedKept DEF SameSlot, OInv, PlansFiled, Filed
  <2>2. CASE \E a \in Actors : Fill(a) /\ at[a] = c /\ Filled(a)
    <3>1. PICK a \in Actors : Fill(a) /\ at[a] = c /\ Filled(a)
      BY <2>2
    <3>2. \A k \in plan'.slots[c].superseded : k \in Recorded /\ children[k].chunk = c
      BY <3>1, FillerHolds DEF Filled, OInv, PlansFiled, Filed
    <3>3. plan'.slots[c].child \in Recorded /\ children[plan'.slots[c].child].chunk = c
      BY <3>1, FillerHolds DEF Filled
    <3> QED
      BY <3>2, <3>3, RecordedKept
  <2> QED
    BY <2>1, <2>2 DEF SlotForm
<1>2. ASSUME NEW b \in Actors PROVE Filed(view[b])'
  <2>1. CASE view'[b] = view[b]
    <3>1. Filed(view[b])
      BY DEF OInv, PlansFiled
    <3>2. \A c \in Chunks : \A k \in ChildIds : k \in Recorded
             => k \in Recorded' /\ children'[k].chunk = children[k].chunk
      BY RecordedKept
    <3> QED
      BY <2>1, <3>1, <3>2, BookTypes DEF Filed
  <2>2. CASE view'[b] = plan'
    BY <1>1, <2>2 DEF Filed
  <2>3. CASE view'[b] = EmptyPlan
    BY <2>3 DEF Filed, EmptyPlan, EmptySlot
  <2> QED
    BY <2>1, <2>2, <2>3 DEF Remembers
<1> QED
  BY <1>1, <1>2 DEF PlansFiled

LEMMA SweptOnceKept ==
    ASSUME Books, RowsKept, \A b \in Actors : Remembers(b)
    PROVE  SweptOnce'
<1> USE DEF Books, SInv
<1> SUFFICES ASSUME NEW b \in Actors, NEW j \in ChildIds, NEW k \in ChildIds,
                    seen'[b][j] # "unknown"
             PROVE  /\ j \in Recorded'
                    /\ seen'[b][k] # "unknown" /\ children'[j].chunk = children'[k].chunk
                       => j = k
  BY DEF SweptOnce
<1>1. /\ j \in Recorded
      /\ seen'[b][k] # "unknown" => k \in Recorded
      /\ seen'[b][k] # "unknown" /\ children[j].chunk = children[k].chunk => j = k
  <2>1. CASE seen'[b] = seen[b]
    BY <2>1 DEF OInv, SweptOnce
  <2>2. CASE seen'[b] = Unseen
    BY <2>2 DEF Unseen
  <2>3. ASSUME NEW p, Filed(p), seen'[b] = StatusMap(p)
        PROVE  /\ j \in Recorded
               /\ seen'[b][k] # "unknown" => k \in Recorded
               /\ seen'[b][k] # "unknown" /\ children[j].chunk = children[k].chunk => j = k
    <3>1. ASSUME NEW i \in ChildIds, seen'[b][i] # "unknown"
          PROVE  i \in Recorded /\ children[i].chunk \in Chunks
                 /\ p.slots[children[i].chunk].child = i
      BY <2>3, <3>1 DEF StatusMap, ChildrenOf, Submitted, Filed
    <3> QED
      BY <3>1
  <2> QED
    BY <2>1, <2>2, <2>3 DEF Remembers, OInv, PlansFiled
<1> QED
  BY <1>1, RecordedKept

LEMMA EarlierKept ==
    ASSUME Books, RowsKept, \A c \in Chunks : SlotForm(c), \A b \in Actors : Remembers(b)
    PROVE  Earlier'
<1> USE DEF Books, SInv
<1> SUFFICES ASSUME NEW b \in Actors, NEW c \in Chunks, view'[b].slots[c].child # NoChild
             PROVE  LET k == view'[b].slots[c].child
                        s == plan'.slots[c]
                    IN  /\ k \in s.superseded \cup {s.child}
                        /\ k = s.child => view'[b].slots[c].attempt = s.attempt
  BY DEF Earlier
<1>1. CASE view'[b] = plan'
  BY <1>1
<1>2. CASE view'[b] = EmptyPlan
  BY <1>2 DEF EmptyPlan, EmptySlot
<1>3. CASE view'[b] = view[b]
  <2> DEFINE k == view[b].slots[c].child
             s == plan.slots[c]
             t == plan'.slots[c]
  <2>1. k \in s.superseded \cup {s.child} /\ (k = s.child => view[b].slots[c].attempt = s.attempt)
    BY <1>3 DEF OInv, Earlier
  <2>2. CASE SameSlot(c)
    BY <1>3, <2>1, <2>2 DEF SameSlot
  <2>3. CASE \E a \in Actors : Fill(a) /\ at[a] = c /\ Filled(a)
    <3>1. PICK a \in Actors : Fill(a) /\ at[a] = c /\ Filled(a)
      BY <2>3
    <3>2. /\ t.child = kid[a] /\ kid[a] \notin s.superseded \cup {s.child}
          /\ mode[a] # "retry" => s.child = NoChild
      BY <3>1, FillerHolds DEF Filled
    <3>3. k # NoChild /\ k # t.child
      BY <1>3, <2>1, <3>2
    <3>4. k \in t.superseded
      BY <2>1, <3>1, <3>2, <3>3 DEF Filled
    <3> QED
      BY <1>3, <3>3, <3>4
  <2> QED
    BY <2>2, <2>3 DEF SlotForm
<1> QED
  BY <1>1, <1>2, <1>3 DEF Remembers

LEMMA RetiredKept ==
    ASSUME Books, RowsKept, \A c \in Chunks : SlotForm(c)
    PROVE  Retired'
<1> USE DEF Books, SInv
<1> SUFFICES ASSUME NEW c \in Chunks
             PROVE  LET t == plan'.slots[c]
                    IN  /\ \A k \in t.superseded : Failed(k)'
                        /\ t.child \notin t.superseded
                        /\ t.attempt = Cardinality(t.superseded)
                        /\ t.attempt <= RetryLimit
  BY DEF Retired
<1> DEFINE s == plan.slots[c]
           t == plan'.slots[c]
<1>1. /\ \A k \in s.superseded : k \in ChildIds /\ Failed(k)
      /\ s.child \notin s.superseded /\ s.attempt = Cardinality(s.superseded)
      /\ s.attempt <= RetryLimit
      /\ s.superseded \in SUBSET ChildIds /\ s.child \in ChildIds \cup {NoChild}
      /\ s.attempt \in Nat /\ RetryLimit \in Nat
  BY BookTypes, PlanAssumption DEF OInv, Retired
<1>2. CASE SameSlot(c)
  BY <1>1, <1>2, FailedKept DEF SameSlot
<1>3. CASE \E a \in Actors : Fill(a) /\ at[a] = c /\ Filled(a)
  <2>1. PICK a \in Actors : Fill(a) /\ at[a] = c /\ Filled(a)
    BY <1>3
  <2>2. t.child = kid[a] /\ kid[a] \notin s.superseded \cup {s.child}
    BY <2>1, FillerHolds DEF Filled
  <2>3. CASE mode[a] # "retry"
    BY <1>1, <2>1, <2>2, <2>3, FailedKept DEF Filled
  <2>4. CASE mode[a] = "retry"
    <3>1. /\ s.child # NoChild /\ Failed(s.child) /\ s.attempt < RetryLimit
          /\ t.superseded = s.superseded \cup {s.child} /\ t.attempt = s.attempt + 1
      BY <2>1, <2>4, FillerHolds DEF Filled
    <3>2. Cardinality(t.superseded) = Cardinality(s.superseded) + 1
      <4>1. IsFiniteSet(ChildIds)
        BY PlanAssumption, FS_Interval DEF ChildIds
      <4>2. IsFiniteSet(s.superseded)
        BY <1>1, <4>1, FS_Subset
      <4>3. \A S, x : IsFiniteSet(S) /\ x \notin S
                     => Cardinality(S \cup {x}) = Cardinality(S) + 1
        BY FS_AddElement
      <4> QED
        BY <1>1, <3>1, <4>2, <4>3
    <3>3. \A k \in t.superseded : Failed(k)'
      BY <1>1, <3>1, FailedKept
    <3>4. t.attempt <= RetryLimit /\ t.attempt = Cardinality(t.superseded)
      BY <1>1, <3>1, <3>2
    <3> QED
      BY <2>2, <3>1, <3>3, <3>4
  <2> QED
    BY <2>3, <2>4
<1> QED
  BY <1>2, <1>3 DEF SlotForm

\* What the rest of the bookkeeping says of one actor.
HandOwn(b) ==
    /\ kid[b] # NoChild => \/ kid[b] \in Recorded
                           \/ pc[b] = "record" /\ children[kid[b]].status = "ordered"
    /\ pc[b] \in {"record", "assign"} => children[kid[b]].chunk = at[b]

JudgedBy(b) ==
    /\ pc[b] = "claim" =>
          LET s == view[b].slots[at[b]]
          IN  /\ s.child # NoChild /\ seen[b][s.child] = "failed" /\ Failed(s.child)
              /\ s.attempt < RetryLimit
    /\ pc[b] \in PassSteps \cup {"claim"} => mode[b] = "retry"

ReservesFor(b) ==
    LET s == plan.slots[at[b]]
    IN  Ordering(b) /\ s.owner = b =>
            /\ mode[b] = "retry" => /\ s.child # NoChild /\ Failed(s.child)
                                    /\ s.attempt < RetryLimit
            /\ mode[b] # "retry" => s.child = NoChild
            /\ pc[b] \in {"record", "assign"} => kid[b] \notin s.superseded \cup {s.child}

\* A step of another actor, or of the world, leaves b's part of the books in order.
LEMMA BystanderKept ==
    ASSUME Books, RowsKept, \A c \in Chunks : SlotForm(c), NEW b \in Actors,
           pc'[b] = pc[b], mode'[b] = mode[b], view'[b] = view[b], seen'[b] = seen[b],
           at'[b] = at[b], kid'[b] = kid[b],
           ~Reserve(b), ~Fill(b)
    PROVE  HandOwn(b)' /\ JudgedBy(b)' /\ ReservesFor(b)'
<1> USE DEF Books, SInv
<1>1. HandOwn(b)'
  <2>1. kid[b] \in ChildIds \cup {NoChild} /\ (pc[b] \in {"record", "assign"} => kid[b] \in ChildIds)
    BY DEF TInv, TypeOK, Placed
  <2>2. HandOwn(b)
    BY DEF OInv, HandsOwn, HandOwn
  <2>3. CASE kid[b] \in Recorded
    BY <2>2, <2>3, RecordedKept DEF HandOwn
  <2>4. CASE kid[b] # NoChild /\ pc[b] = "record" /\ children[kid[b]].status = "ordered"
    <3>1. /\ children'[kid[b]].chunk = children[kid[b]].chunk
          /\ children'[kid[b]].status \in {"ordered", "pending"}
      BY <2>1, <2>4 DEF RowsKept
    <3> QED
      BY <2>1, <2>2, <2>4, <3>1 DEF HandOwn, Recorded, RowStatus
  <2>5. CASE kid[b] = NoChild
    BY <2>1, <2>5, BookTypes DEF HandOwn
  <2> QED
    BY <2>1, <2>2, <2>3, <2>4, <2>5 DEF HandOwn
<1>2. JudgedBy(b)'
  <2>1. JudgedBy(b) /\ (pc[b] = "claim" => at[b] \in Chunks)
    BY DEF OInv, Judged, PassIsRetry, JudgedBy, TInv, Placed, AtSlot
  <2>2. pc[b] = "claim" => view[b].slots[at[b]].child \in ChildIds
    BY <2>1, BookTypes DEF JudgedBy
  <2>3. pc[b] = "claim" => Failed(view[b].slots[at[b]].child)'
    BY <2>1, <2>2, FailedKept DEF JudgedBy
  <2> QED
    BY <2>1, <2>3 DEF JudgedBy, Failed
<1>3. ReservesFor(b)'
  <2> SUFFICES ASSUME Ordering(b), plan'.slots[at[b]].owner = b
               PROVE  LET s == plan'.slots[at[b]]
                      IN  /\ mode[b] = "retry" => /\ s.child # NoChild
                                                  /\ children'[s.child].status = "failed"
                                                  /\ children'[s.child].class # "content"
                                                  /\ s.attempt < RetryLimit
                          /\ mode[b] # "retry" => s.child = NoChild
                          /\ pc[b] \in {"record", "assign"}
                             => kid[b] \notin s.superseded \cup {s.child}
    BY DEF ReservesFor, Ordering, Failed
  <2>1. at[b] \in Chunks /\ ReservesFor(b) /\ b # NoOwner
    BY PlanAssumption DEF OInv, Reserves, ReservesFor, Ordering, TInv, Placed, AtSlot
  <2>2. SameSlot(at[b]) /\ plan.slots[at[b]].owner = b
    BY <2>1 DEF SlotForm, Filled
  <2>3. plan.slots[at[b]].child # NoChild => plan.slots[at[b]].child \in ChildIds
    BY <2>1, BookTypes
  <2> QED
    BY <2>1, <2>2, <2>3, FailedKept DEF SameSlot, ReservesFor, Failed
<1> QED
  BY <1>1, <1>2, <1>3

LEMMA LeaverKept ==
    ASSUME Books, RowsKept, NEW a \in Actors, Leaves(a)
    PROVE  HandOwn(a)' /\ JudgedBy(a)' /\ ReservesFor(a)'
<1> USE DEF Books, OInv, SInv
<1>1. pc'[a] \notin {"submit", "record", "assign", "release", "claim"}
  BY DEF Leaves, OrderSteps
<1>2. HandOwn(a)'
  <2>1. kid'[a] = NoChild \/ (kid'[a] = kid[a] /\ (kid[a] = NoChild \/ kid[a] \in Recorded))
    BY DEF Leaves, HandsOwn
  <2> QED
    BY <1>1, <2>1, RecordedKept DEF HandOwn
<1>3. JudgedBy(a)'
  BY <1>1 DEF Leaves, PassIsRetry, JudgedBy
<1> QED
  BY <1>1, <1>2, <1>3 DEF ReservesFor, Ordering

LEMMA JudgeKept ==
    ASSUME Books, NEW a \in Actors, Judge(a)
    PROVE  HandOwn(a)' /\ JudgedBy(a)' /\ ReservesFor(a)'
<1> USE DEF Books, OInv, SInv
<1>1. HandOwn(a)'
  BY DEF Judge, HandsOwn, HandOwn, Recorded
<1>2. JudgedBy(a)'
  <2> DEFINE c == at'[a]
             k == view[a].slots[c].child
  <2>1. c \in Chunks /\ k # NoChild /\ k \in ChildIds /\ seen[a][k] = "failed"
    BY BookTypes DEF Judge, Submitted
  <2>2. children[k].status = "failed"
    BY <2>1 DEF SeenTrue, Terminal
  <2>3. view[a].slots[c].attempt < RetryLimit /\ children[k].class \in {"capacity", "unknown"}
    <3>1. ~(view[a].slots[c].attempt >= RetryLimit) /\ Retryable(a, c)
      BY DEF Judge, Hopeless
    <3>2. view[a].slots[c].attempt \in Nat /\ RetryLimit \in Nat
      BY <2>1, BookTypes, PlanAssumption
    <3> QED
      BY <3>1, <3>2 DEF Retryable
  <2> QED
    BY <2>1, <2>2, <2>3 DEF Judge, JudgedBy, PassIsRetry, PassSteps, Failed
<1> QED
  BY <1>1, <1>2 DEF Judge, ReservesFor, Ordering

LEMMA ReserverKept ==
    ASSUME Books, NEW a \in Actors, Reserve(a)
    PROVE  HandOwn(a)' /\ JudgedBy(a)' /\ ReservesFor(a)'
<1> USE DEF Books, OInv, SInv
<1> DEFINE c == at'[a]
           s == plan.slots[c]
<1>1. c \in Chunks /\ SameSlot(c)
  BY OwnerOnly DEF Reserve
<1>2. HandOwn(a)'
  BY DEF Reserve, HandsOwn, HandOwn, Recorded
<1>3. JudgedBy(a)'
  BY DEF Reserve, JudgedBy, PassSteps
<1>4. /\ mode[a] = "retry" => s.child # NoChild /\ Failed(s.child) /\ s.attempt < RetryLimit
      /\ mode[a] # "retry" => s.child = NoChild
  <2>1. CASE pc[a] = "reserve"
    BY <2>1 DEF Reserve, WaveChoice, RefillChoice
  <2>2. CASE pc[a] = "claim"
    <3> DEFINE v == view[a].slots[c]
    <3>1. c = at[a] /\ SameChild(a, plan) /\ mode[a] = "retry"
      BY <2>2 DEF Reserve, PassIsRetry
    <3>2. s.child # NoChild /\ s.child \in ChildIds /\ seen[a][s.child] = "failed"
      BY <1>1, <3>1, BookTypes DEF SameChild
    <3>3. /\ v.child # NoChild /\ v.child \in ChildIds /\ seen[a][v.child] = "failed"
          /\ Failed(v.child) /\ v.attempt < RetryLimit
      BY <1>1, <2>2, <3>1, BookTypes DEF Judged
    <3>4. children[s.child].chunk = c /\ children[v.child].chunk = c
      BY <1>1, <3>2, <3>3 DEF PlansFiled, Filed
    <3>5. s.child = v.child
      BY <3>2, <3>3, <3>4 DEF SweptOnce
    <3>6. s.attempt = v.attempt
      BY <1>1, <3>3, <3>5 DEF Earlier
    <3> QED
      BY <3>1, <3>2, <3>3, <3>5, <3>6
  <2> QED
    BY <2>1, <2>2 DEF Reserve
<1>5. ReservesFor(a)'
  <2>1. /\ children' = children /\ mode' = mode /\ pc'[a] = "submit"
        /\ plan'.slots[c].child = s.child /\ plan'.slots[c].attempt = s.attempt
    BY <1>1 DEF Reserve, SameSlot
  <2> QED
    BY <1>4, <2>1 DEF ReservesFor, Failed
<1> QED
  BY <1>2, <1>3, <1>5

LEMMA OrdererKept ==
    ASSUME Books, NEW a \in Actors, RowsKept,
           Take(a) \/ Send(a) \/ Book(a) \/ Refuse(a) \/ Lose(a)
    PROVE  HandOwn(a)' /\ JudgedBy(a)' /\ ReservesFor(a)'
<1> USE DEF Books, OInv, SInv
<1> DEFINE s == plan.slots[at[a]]
<1>1. /\ UNCHANGED <<plan, mode, view, seen, at>> /\ at[a] \in Chunks
      /\ pc[a] \in {"submit", "record"} /\ pc'[a] \in {"record", "assign", "release", "abort"}
  BY DEF Take, Send, Book, Refuse, Lose, Ongoing, TInv, Placed, AtSlot
<1>2. JudgedBy(a)'
  BY <1>1 DEF JudgedBy, PassSteps
<1>3. /\ s.child # NoChild => s.child \in Recorded
      /\ \A k \in s.superseded : k \in Recorded
  BY <1>1 DEF PlansFiled, Filed
<1>4. HandOwn(a)' /\ (pc'[a] \in {"record", "assign"} /\ ReservesFor(a) /\ s.owner = a
                      => kid'[a] \notin s.superseded \cup {s.child})
  <2>1. CASE Take(a)
    <3>1. /\ kid'[a] \in Recorded /\ children[kid'[a]].chunk = at[a]
          /\ children[kid'[a]].status # "failed" /\ children' = children
      BY <2>1 DEF Take, Adoptable
    <3>2. \A k \in s.superseded : children[k].status = "failed"
      BY <1>1 DEF Retired, Failed
    <3>3. ReservesFor(a) /\ s.owner = a
          => s.child = NoChild \/ children[s.child].status = "failed"
      BY <1>1 DEF ReservesFor, Ordering, Failed
    <3>4. kid'[a] # NoChild
      BY <3>1, BookTypes DEF Recorded
    <3>5. HandOwn(a)'
      BY <1>1, <3>1 DEF HandOwn, Recorded
    <3> QED
      BY <3>1, <3>2, <3>3, <3>4, <3>5
  <2>2. CASE Send(a)
    <3>1. /\ kid'[a] \in ChildIds /\ kid'[a] \notin Recorded /\ pc'[a] = "record"
          /\ children'[kid'[a]].status = "ordered" /\ children'[kid'[a]].chunk = at[a]
      BY <2>2 DEF Send, Unused, Recorded, RowStatus
    <3>2. kid'[a] # NoChild
      BY <3>1, BookTypes
    <3> QED
      BY <1>1, <1>3, <3>1, <3>2 DEF HandOwn
  <2>3. CASE Book(a)
    <3>1. kid[a] \in ChildIds /\ children[kid[a]].status = "ordered" /\ pc[a] = "record"
      BY <2>3 DEF Book, TInv, Placed, RecordsItsOwn
    <3>2. children'[kid[a]].status = "pending" /\ children'[kid[a]].chunk = at[a]
      BY <2>3, <3>1, BookTypes DEF Book, HandsOwn
    <3>3. kid[a] \notin Recorded /\ kid[a] # NoChild /\ kid' = kid
      BY <2>3, <3>1, BookTypes DEF Recorded, RowStatus, Book
    <3> QED
      BY <1>1, <1>3, <3>1, <3>2, <3>3 DEF HandOwn, Recorded, RowStatus
  <2>4. CASE Refuse(a)
    BY <1>1, <2>4 DEF Refuse, HandsOwn, HandOwn, Recorded
  <2>5. CASE Lose(a)
    <3>1. kid' = kid /\ pc'[a] \in {"abort", "release"} /\ (kid[a] # NoChild => kid[a] \in Recorded)
      BY <2>5 DEF Lose, HandsOwn
    <3> QED
      BY <3>1, RecordedKept DEF HandOwn
  <2> QED
    BY <2>1, <2>2, <2>3, <2>4, <2>5
<1>5. ReservesFor(a)
  BY DEF Reserves, ReservesFor
<1>6. ReservesFor(a)'
  <2>1. s.child # NoChild /\ Failed(s.child) => Failed(s.child)'
    BY <1>1, BookTypes, FailedKept
  <2> QED
    BY <1>1, <1>4, <1>5, <2>1 DEF ReservesFor, Ordering, Failed
<1> QED
  BY <1>2, <1>4, <1>6

LEMMA BooksKept == Books /\ [Next]_vars => Books'
<1> SUFFICES ASSUME Books, [Next]_vars PROVE Books'
  OBVIOUS
<1>1. SInv /\ SInv' /\ Form
  BY SKept, Forms DEF Books
<1>2. RowsKept /\ (\A c \in Chunks : SlotForm(c)) /\ (\A b \in Actors : Remembers(b))
  BY <1>1, FRows, FSlots, FMemory DEF SInv
<1>3. ASSUME NEW b \in Actors PROVE HandOwn(b)' /\ JudgedBy(b)' /\ ReservesFor(b)'
  <2>1. ASSUME /\ pc'[b] = pc[b] /\ mode'[b] = mode[b] /\ view'[b] = view[b]
               /\ seen'[b] = seen[b] /\ at'[b] = at[b] /\ kid'[b] = kid[b]
        PROVE  HandOwn(b)' /\ JudgedBy(b)' /\ ReservesFor(b)'
    <3>1. ~Reserve(b) /\ ~Fill(b)
      BY <2>1 DEF Reserve, Fill, Leaves, OrderSteps
    <3> QED
      BY <1>2, <2>1, <3>1, BystanderKept
  <2>2. ASSUME NEW a \in Actors, ActorForm(a)
        PROVE  HandOwn(b)' /\ JudgedBy(b)' /\ ReservesFor(b)'
    <3>1. CASE b # a
      <4>1. OthersKeep(a)
        BY <2>2 DEF ActorForm, Walk, Judge, Reserve, Take, Send, Book, Refuse, Lose, Mend, Free,
           Fill, Cull, Leaves, Ongoing
      <4> QED
        BY <2>1, <3>1, <4>1 DEF OthersKeep
    <3>2. CASE b = a
      BY <1>2, <2>2, <3>2, LeaverKept, JudgeKept, ReserverKept, OrdererKept
         DEF ActorForm, Walk, Mend, Free, Fill, Cull
    <3> QED
      BY <3>1, <3>2
  <2>3. (\E k \in ChildIds : End(k)) \/ (\E c \in Chunks : Expire(c)) \/ UNCHANGED vars
        => UNCHANGED <<pc, local>>
    BY DEF End, Expire, vars, local
  <2> QED
    BY <1>1, <2>1, <2>2, <2>3 DEF Form, local
<1>4. HandsOwn' /\ Judged' /\ PassIsRetry' /\ Reserves'
  BY <1>3 DEF HandsOwn, HandOwn, Judged, PassIsRetry, JudgedBy, Reserves, ReservesFor
<1>5. PlansFiled' /\ SweptOnce' /\ Earlier' /\ Retired'
  BY <1>2, PlansFiledKept, SweptOnceKept, EarlierKept, RetiredKept
<1> QED
  BY <1>1, <1>4, <1>5 DEF Books, OInv

LEMMA BooksInvariant == Spec \/ PollersSpec => []Books
<1>1. Init \/ PollersInit => Books
  BY BooksInit DEF Init, PollersInit
<1> QED
  BY <1>1, BooksKept, PTL DEF Spec, PollersSpec

\* A child is retired only when it failed, and not on what it was asked for: however
\* stale the sweep a retry was judged on, nothing that is live or delivered is ordered
\* again (_retry_failed_children under the compare-and-swap of _reserve_retry and of
\* the assign write), whether or not the submit call that created the parent lived.
THEOREM RetiresRefused == Spec \/ PollersSpec => []RetiresOnlyRefused
<1>1. Books => RetiresOnlyRefused
  BY DEF Books, OInv, Retired, Failed, RetiresOnlyRefused
<1> QED
  BY <1>1, BooksInvariant, PTL

-----------------------------------------------------------------------------
(* One order per chunk.  While no live order outlasts the TTL, an actor    *)
(* that orders owns its slot from the reservation to the assign write, and *)
(* whoever comes after a death adopts the child that was recorded.         *)

HoldsSlot == \A a \in Actors :
    Ordering(a) => plan.slots[at[a]].owner = a /\ at[a] \notin expired

LEMMA SlotHeld ==
    ASSUME "slow" \notin Faults, Books, HoldsSlot, Form
    PROVE  HoldsSlot'
<1> USE DEF Books, SInv
<1> SUFFICES ASSUME NEW b \in Actors, Ordering(b)'
             PROVE  plan'.slots[at'[b]].owner = b /\ at'[b] \notin expired'
  BY DEF HoldsSlot
<1>1. \A c \in Chunks : SlotForm(c)
  BY FSlots
<1>2. ASSUME UNCHANGED <<pc, at>> \/ \E a \in Actors \ {b} : OthersKeep(a)
      PROVE  plan'.slots[at'[b]].owner = b /\ at'[b] \notin expired'
  <2> DEFINE c == at[b]
  <2>1. pc'[b] = pc[b] /\ at'[b] = c /\ c \in Chunks
    BY <1>2 DEF OthersKeep, Ordering, TInv, Placed, AtSlot
  <2>2. plan.slots[c].owner = b /\ c \notin expired /\ b # NoOwner
    BY <2>1, PlanAssumption DEF HoldsSlot, Ordering
  <2>3. Fresh(plan, expired, c) /\ Ordering(b) /\ ~Reserve(b) /\ ~Free(b) /\ ~Fill(b)
    BY <2>1, <2>2 DEF Fresh, Ordering, Reserve, Free, Fill, Leaves, OrderSteps
  <2>4. \A a \in Actors : ~(Reserve(a) /\ at'[a] = c)
    BY <2>3 DEF Reserve
  <2>5. \A a \in Actors : ~(Free(a) /\ at[a] = c) /\ ~(Fill(a) /\ at[a] = c)
    BY <2>2, <2>3 DEF Free, Fill, Holds
  <2>6. plan'.slots[c].owner = b
    BY <1>1, <2>1, <2>2, <2>4, <2>5 DEF SlotForm
  <2>7. c \notin expired'
    <3>1. ASSUME NEW d \in Chunks, Expire(d) PROVE c \notin expired'
      BY <2>2, <2>3, <3>1 DEF Expire
    <3>2. ASSUME NEW a \in Actors, ActorForm(a) PROVE c \notin expired'
      BY <2>2, <3>2 DEF ActorForm, Walk, Judge, Reserve, Take, Send, Book, Refuse, Lose, Mend, Free,
         Fill, Cull, Ongoing
    <3>3. ASSUME UNCHANGED expired PROVE c \notin expired'
      BY <2>2, <3>3
    <3> QED
      BY <3>1, <3>2, <3>3 DEF Form, End, vars
  <2> QED
    BY <2>1, <2>6, <2>7
<1>3. ASSUME ActorForm(b)
      PROVE  plan'.slots[at'[b]].owner = b /\ at'[b] \notin expired'
  <2>1. CASE Reserve(b)
    BY <2>1, OwnerOnly DEF Reserve
  <2>2. CASE Take(b) \/ Send(b) \/ Book(b) \/ Refuse(b) \/ Lose(b)
    BY <2>2 DEF Take, Send, Book, Refuse, Lose, Ongoing, Ordering, HoldsSlot
  <2>3. CASE Leaves(b) \/ Judge(b)
    BY <2>3 DEF Leaves, Judge, Ordering, OrderSteps
  <2> QED
    BY <1>3, <2>1, <2>2, <2>3 DEF ActorForm, Walk, Mend, Free, Fill, Cull
<1>4. ASSUME NEW a \in Actors, ActorForm(a) PROVE OthersKeep(a)
  BY <1>4 DEF ActorForm, Walk, Judge, Reserve, Take, Send, Book, Refuse, Lose, Mend, Free, Fill,
     Cull, Leaves, Ongoing
<1> QED
  BY <1>2, <1>3, <1>4 DEF Form, End, Expire, vars, local

\* Only the actor that sent a child records it.
LEMMA RecordedFrom ==
    ASSUME Books, Form, NEW k \in Recorded'
    PROVE  k \in Recorded \/ \E a \in Actors : Book(a) /\ kid[a] = k
<1>1. ASSUME children' = children PROVE k \in Recorded
  BY <1>1 DEF Recorded
<1>2. ASSUME NEW a \in Actors, Send(a) \/ Lose(a) PROVE k \in Recorded
  BY <1>2 DEF Send, Lose, LostAs, Recorded, RowStatus
<1>3. ASSUME NEW a \in Actors, Book(a), kid[a] # k PROVE k \in Recorded
  BY <1>3 DEF Book, Recorded
<1>4. ASSUME NEW a \in Actors, Cull(a) PROVE k \in Recorded
  BY <1>4 DEF Cull, Recorded, RowStatus
<1>5. ASSUME NEW j \in ChildIds, End(j) PROVE k \in Recorded
  BY <1>5 DEF End, Recorded, RowStatus
<1>6. ASSUME NEW a \in Actors, Walk(a) \/ Judge(a) \/ Reserve(a) \/ Take(a) \/ Refuse(a)
                               \/ Mend(a) \/ Free(a) \/ Fill(a)
      PROVE  children' = children
  BY <1>6 DEF Walk, Judge, Reserve, Take, Refuse, Mend, Free, Fill, Ongoing
<1>7. (\E c \in Chunks : Expire(c)) \/ UNCHANGED vars => children' = children
  BY DEF Expire, vars
<1> QED
  BY <1>1, <1>2, <1>3, <1>4, <1>5, <1>6, <1>7 DEF Form, ActorForm

\* A reservation that stands has stood, or has just been made.
LEMMA FreshFrom ==
    ASSUME TInv, Form, NEW c \in Chunks, Fresh(plan', expired', c)
    PROVE  Fresh(plan, expired, c) \/ \E a \in Actors : Reserve(a) /\ at'[a] = c
<1> SUFFICES ASSUME \A a \in Actors : ~(Reserve(a) /\ at'[a] = c)
             PROVE  Fresh(plan, expired, c)
  OBVIOUS
<1>1. SlotForm(c) /\ plan'.slots[c].owner # NoOwner /\ c \notin expired'
  BY FSlots DEF Fresh
<1>2. plan'.slots[c].owner = plan.slots[c].owner
  BY <1>1 DEF SlotForm, Filled
<1>3. \A a \in Actors : ~(Free(a) /\ at[a] = c) /\ ~(Fill(a) /\ at[a] = c)
  BY <1>1, OwnerOnly, FillFills DEF Free, Filled
<1>4. c \in expired => c \in expired'
  <2>1. ASSUME NEW a \in Actors, ActorForm(a), c \in expired PROVE c \in expired'
    BY <1>3, <2>1 DEF ActorForm, Walk, Judge, Reserve, Take, Send, Book, Refuse, Lose, Mend, Free,
       Fill, Cull, Ongoing
  <2> QED
    BY <2>1 DEF Form, Expire, End, vars
<1> QED
  BY <1>1, <1>2, <1>4 DEF Fresh

-----------------------------------------------------------------------------
(* Jobs nobody can name.  An order whose call died or raised after CDS had *)
(* accepted it is found by no adoption scan; but its orderer was dying,    *)
(* giving the parent up, or gives it up before it can order again.         *)

\* a orders nothing more: it is dead or done, aborting the wave, or failing the
\* parent; later polls of its process find a terminal parent.
WrittenOff(a) ==
    \/ pc[a] \in {"dead", "done", "abort", "abort_stop", "abort_kids", "release", "fail"}
    \/ row \in Terminal /\ pc[a] \in {"settle", "sweep", "idle"}

\* An accepted job has an orderer, who has it in hand or has been written off.
Orders ==
    /\ \A a \in Actors : pc[a] = "record" => children[kid[a]].by = a
    /\ \A k \in ChildIds : children[k].status = "ordered" =>
          /\ children[k].by \in Actors
          /\ Stray(k) => WrittenOff(children[k].by)

Guarded == Books /\ HoldsSlot /\ Orders /\ OneOrderPerChunk

\* A final row stays final, an abort's overwriting included.
LEMMA TerminalKept ==
    ASSUME TInv, Form, row \in Terminal
    PROVE  row' \in Terminal
<1>1. ASSUME NEW a \in Actors, ActorForm(a) PROVE row' \in Terminal
  BY <1>1 DEF ActorForm, Walk, RowEnds, Terminal, Judge, Reserve, Take, Send, Book, Refuse,
     Lose, Mend, Free, Fill, Cull, Ongoing
<1> QED
  BY <1>1 DEF Form, End, Expire, vars

LEMMA WrittenOffStep ==
    ASSUME TInv, NEW a \in Actors, WrittenOff(a),
           OrderStep(a) \/ PollStep(a) \/ CancelStep(a) \/ AbortStep(a) \/ Crash(a)
    PROVE  WrittenOff(a)'
<1>a. pc \in [Actors -> Steps] /\ row \in RowStatus
  BY DEF TInv, TypeOK
<1>1. CASE OrderStep(a)
  BY <1>1, <1>a DEF WrittenOff, OrderStep, ReserveWave, WaveDone, ReserveRefill, Adopt, Order,
     Record, OrderFails, Assign, Release, FailParent, SetRowIfPending, Goto, Terminal, RowStatus
<1>2. CASE PollStep(a)
  <2>1. CASE StartPoll(a)
    BY <1>a, <2>1 DEF WrittenOff, StartPoll, FirstStep, Goto, Terminal
  <2>2. CASE PollDelivered(a)
    BY <2>2 DEF WrittenOff, PollDelivered, vars
  <2>3. CASE Settle(a)
    BY <1>a, <2>3 DEF WrittenOff, Settle, Goto, Terminal
  <2>4. CASE Cleanup(a)
    BY <1>a, <2>4 DEF WrittenOff, Cleanup, Goto
  <2> QED
    BY <1>2, <2>1, <2>2, <2>3, <2>4 DEF PollStep, WrittenOff, See, Scan, Decline, Mark, Claim,
       SweepForRefill, Write, Look
<1>3. CASE CancelStep(a)
  BY <1>3 DEF WrittenOff, CancelStep, StartCancel, MarkStopped, CancelChildren, FinishCancel
<1>4. CASE AbortStep(a)
  BY <1>4, <1>a DEF WrittenOff, AbortStep, WaveCancelled, AbortRow, MarkStopped, AbortChildren,
     Goto
<1>5. CASE Crash(a)
  BY <1>5, <1>a DEF WrittenOff, Crash, Goto
<1> QED
  BY <1>1, <1>2, <1>3, <1>4, <1>5

LEMMA WrittenOffKept ==
    ASSUME SInv, [Next]_vars, NEW a \in Actors, WrittenOff(a)
    PROVE  WrittenOff(a)'
<1>1. Form /\ TInv
  BY Forms DEF SInv
<1>2. CASE pc'[a] = pc[a]
  BY <1>1, <1>2, TerminalKept DEF WrittenOff
<1>3. ASSUME NEW b \in Actors,
             OrderStep(b) \/ PollStep(b) \/ CancelStep(b) \/ AbortStep(b) \/ Crash(b)
      PROVE  WrittenOff(a)'
  <2>1. CASE b = a
    BY <1>1, <1>3, <2>1, WrittenOffStep
  <2>2. CASE b # a
    <3>1. ActorForm(b)
      BY <1>3, FOrder, FPoll, FStopping, FCrash DEF ActorForm
    <3>2. pc'[a] = pc[a]
      BY <2>2, <3>1 DEF OthersKeep, ActorForm, Walk, Judge, Reserve, Take, Send, Book, Refuse,
         Lose, Mend, Free, Fill, Cull, Leaves, Ongoing
    <3> QED
      BY <1>2, <3>2
  <2> QED
    BY <2>1, <2>2
<1> QED
  BY <1>2, <1>3 DEF Next, ChildEnds, Expire, vars

\* a puts child k on order, whether or not it learns of it.
Starts(a, k) ==
    /\ pc[a] = "submit" /\ Adoptable(at[a]) = {} /\ OthersKeep(a)
    /\ UNCHANGED <<row, plan, expired>> /\ at'[a] = at[a]
    /\ k \in Unused /\ LostAs(a, k)
    /\ \/ pc'[a] = "record" /\ kid'[a] = k
       \/ pc'[a] \in {"abort", "release"} /\ kid' = kid

LEMMA StartsForms ==
    ASSUME NEW a \in Actors, Send(a) \/ Lose(a)
    PROVE  \E k \in Unused : Starts(a, k)
<1>1. CASE Send(a)
  BY <1>1 DEF Send, Starts, LostAs, Ongoing
<1>2. CASE Lose(a)
  BY <1>2 DEF Lose, Starts, Ongoing
<1> QED
  BY <1>1, <1>2

\* A job that is on order was on order, with the same orderer, or has just been
\* put on order; a stray's never changes.
LEMMA OrderedFrom ==
    ASSUME Books, Form, NEW k \in ChildIds, children'[k].status = "ordered",
           ~\E a \in Actors : Starts(a, k)
    PROVE  children'[k] = children[k]
<1> USE DEF Books, SInv
<1>1. ASSUME NEW a \in Actors, Send(a) \/ Lose(a) PROVE children'[k] = children[k]
  <2>1. PICK j \in Unused : Starts(a, j)
    BY <1>1, StartsForms
  <2>2. j # k
    BY <2>1
  <2> QED
    BY <2>1, <2>2 DEF Starts, LostAs
<1>2. ASSUME NEW a \in Actors, Book(a) PROVE children'[k] = children[k]
  <2>1. kid[a] \in ChildIds /\ children[kid[a]] \in Child
    BY <1>2, BookTypes DEF Book, TInv, Placed
  <2>2. children'[kid[a]].status = "pending"
    BY <1>2, <2>1 DEF Book, Child
  <2> QED
    BY <1>2, <2>2 DEF Book
<1>3. ASSUME NEW a \in Actors, Cull(a) PROVE children'[k] = children[k]
  BY <1>3, BookTypes DEF Cull, Child
<1>4. ASSUME NEW j \in ChildIds, End(j) PROVE children'[k] = children[k]
  BY <1>4 DEF End, Terminal
<1>5. ASSUME NEW a \in Actors, Walk(a) \/ Judge(a) \/ Reserve(a) \/ Take(a) \/ Refuse(a)
                               \/ Mend(a) \/ Free(a) \/ Fill(a)
      PROVE  children' = children
  BY <1>5 DEF Walk, Judge, Reserve, Take, Refuse, Mend, Free, Fill, Ongoing
<1>6. (\E c \in Chunks : Expire(c)) \/ UNCHANGED vars => children' = children
  BY DEF Expire, vars
<1> QED
  BY <1>1, <1>2, <1>3, <1>4, <1>5, <1>6 DEF Form, ActorForm

\* A job that runs was running, or has just been put on order.
LEMMA PaidFrom ==
    ASSUME Books, Form, NEW k \in ChildIds, Paid(k)',
           ~\E a \in Actors : Starts(a, k)
    PROVE  Paid(k)
<1>1. CASE children'[k].status = "ordered"
  BY <1>1, OrderedFrom DEF Paid
<1>2. CASE children'[k].status = "pending"
  <2>1. k \in Recorded' /\ RowsKept
    BY <1>2, FRows DEF Recorded, RowStatus, Books
  <2>2. CASE k \in Recorded
    BY <1>2, <2>1, <2>2 DEF Recorded, RowsKept, RowStatus, Terminal, Paid
  <2>3. ASSUME NEW a \in Actors, Book(a), kid[a] = k PROVE Paid(k)
    BY <2>3 DEF Book, RecordsItsOwn, Books, SInv, Paid
  <2> QED
    BY <2>1, <2>2, <2>3, RecordedFrom
<1> QED
  BY <1>1, <1>2 DEF Paid

\* A stray is never recorded, and nobody gets hold of it.
LEMMA StrayKept ==
    ASSUME Books, Orders, Form, NEW k \in ChildIds, Stray(k)
    PROVE  children'[k] = children[k] /\ Stray(k)'
<1> USE DEF Books, SInv
<1> DEFINE b == children[k].by
<1>1. /\ children[k].status = "ordered" /\ kid[b] # k /\ b \in Actors
      /\ k \notin Unused /\ k \notin Recorded /\ k # NoChild
  BY BookTypes DEF Stray, Orders, Unused, Recorded, RowStatus
<1>2. ~\E a \in Actors : Starts(a, k)
  BY <1>1 DEF Starts
<1>3. \A a \in Actors : ~(Book(a) /\ kid[a] = k)
  BY <1>1 DEF Orders, Book
<1>4. children'[k].status \in {"ordered", "pending"}
  BY <1>1, FRows DEF RowsKept
<1>5. children'[k].status # "pending"
  <2>1. k \in Recorded' => k \in Recorded \/ \E a \in Actors : Book(a) /\ kid[a] = k
    BY RecordedFrom
  <2> QED
    BY <1>1, <1>3, <2>1 DEF Recorded, RowStatus
<1>6. children'[k] = children[k]
  BY <1>2, <1>4, <1>5, OrderedFrom
<1>7. kid'[b] # k
  <2>1. ASSUME NEW a \in Actors, ActorForm(a) PROVE kid'[b] # k
    <3>1. CASE a # b
      BY <1>1, <2>1, <3>1 DEF OthersKeep, ActorForm, Walk, Judge, Reserve, Take, Send, Book,
         Refuse, Lose, Mend, Free, Fill, Cull, Leaves, Ongoing
    <3>2. CASE a = b
      <4>1. ~(Send(a) /\ kid'[a] = k) /\ ~(Take(a) /\ kid'[a] = k)
        BY <1>1 DEF Send, Take, Adoptable
      <4>2. ActorForm(a) /\ ~Send(a) /\ ~Take(a) => kid'[a] \in {NoChild, kid[a]}
        BY DEF ActorForm, Walk, Judge, Reserve, Book, Refuse, Lose, Mend, Free, Fill, Cull,
           Leaves, Ongoing
      <4> QED
        BY <1>1, <2>1, <3>2, <4>1, <4>2
    <3> QED
      BY <3>1, <3>2
  <2> QED
    BY <1>1, <2>1 DEF Form, End, Expire, vars, local
<1> QED
  BY <1>1, <1>6, <1>7 DEF Stray

LEMMA OrdersKept ==
    ASSUME Books, Orders, [Next]_vars
    PROVE  Orders'
<1> USE DEF Books, SInv
<1>a. Form /\ RecordsItsOwn'
  BY Forms, SKept
<1>1. ASSUME NEW a \in Actors, pc'[a] = "record" PROVE children'[kid'[a]].by = a
  <2>1. CASE pc[a] = "record" /\ kid'[a] = kid[a]
    <3>1. kid[a] \in ChildIds /\ children[kid[a]].status = "ordered" /\ kid[a] \notin Unused
      BY <2>1 DEF TInv, Placed, RecordsItsOwn, Unused
    <3>2. children'[kid[a]].status = "ordered"
      BY <1>1, <1>a, <2>1 DEF RecordsItsOwn
    <3>3. children'[kid[a]] = children[kid[a]]
      BY <1>a, <3>1, <3>2, OrderedFrom DEF Starts
    <3> QED
      BY <2>1, <3>3 DEF Orders
  <2>2. CASE Send(a)
    BY <2>2 DEF Send
  <2>3. ASSUME ActorForm(a) PROVE Send(a)
    BY <1>1, <2>3 DEF ActorForm, Walk, Judge, Reserve, Take, Book, Refuse, Lose, Mend, Free,
       Fill, Cull, Leaves, OrderSteps
  <2>4. ASSUME NEW b \in Actors \ {a}, ActorForm(b) PROVE pc'[a] = pc[a] /\ kid'[a] = kid[a]
    BY <2>4 DEF OthersKeep, ActorForm, Walk, Judge, Reserve, Take, Send, Book, Refuse, Lose,
       Mend, Free, Fill, Cull, Leaves, Ongoing
  <2> QED
    BY <1>1, <1>a, <2>1, <2>2, <2>3, <2>4 DEF Form, End, Expire, vars, local
<1>2. ASSUME NEW k \in ChildIds, children'[k].status = "ordered"
      PROVE  children'[k].by \in Actors /\ (Stray(k)' => WrittenOff(children[k].by)')
  <2>1. ASSUME NEW a \in Actors, Starts(a, k)
        PROVE  children'[k].by = a /\ (Stray(k)' => WrittenOff(a)')
    BY <2>1 DEF Starts, LostAs, Stray, WrittenOff
  <2>2. CASE ~\E a \in Actors : Starts(a, k)
    <3> DEFINE b == children[k].by
    <3>1. children'[k] = children[k] /\ children[k].status = "ordered" /\ b \in Actors
      BY <1>2, <1>a, <2>2, OrderedFrom DEF Orders
    <3>2. CASE Stray(k)
      BY <3>1, <3>2, WrittenOffKept DEF Orders
    <3>3. CASE kid[b] = k /\ kid'[b] # k
      <4>1. pc[b] = "record"
        BY <3>1, <3>3, BookTypes DEF OInv, HandsOwn, Recorded, RowStatus
      <4>2. ASSUME NEW a \in Actors \ {b}, ActorForm(a) PROVE kid'[b] = kid[b]
        <5>1. OthersKeep(a)
          BY <4>2 DEF ActorForm, Walk, Judge, Reserve, Take, Send, Book, Refuse, Lose, Mend,
             Free, Fill, Cull, Leaves, Ongoing
        <5> QED
          BY <3>1, <4>2, <5>1 DEF OthersKeep
      <4>3. ActorForm(b)
        BY <1>a, <3>1, <3>3, <4>2 DEF Form, End, Expire, vars, local
      <4>4. pc'[b] \in {"abort", "dead"}
        BY <3>3, <4>1, <4>3 DEF ActorForm, Walk, Judge, Reserve, Take, Send, Book, Refuse,
           Lose, Mend, Free, Fill, Cull, Leaves, OrderSteps
      <4> QED
        BY <3>1, <4>4 DEF WrittenOff
    <3>4. CASE kid[b] = k /\ kid'[b] = k
      BY <3>1, <3>4 DEF Stray
    <3> QED
      BY <3>1, <3>2, <3>3, <3>4 DEF Stray
  <2> QED
    BY <2>1, <2>2
<1> QED
  BY <1>1, <1>2 DEF Orders

LEMMA GuardedInit ==
    ASSUME NEW step \in {"reserve", "dead"}, InitAt(step)
    PROVE  Guarded
<1>1. HoldsSlot
  BY DEF InitAt, HoldsSlot, Ordering
<1>2. OneOrderPerChunk /\ Orders
  BY DEF InitAt, OneOrderPerChunk, Paid, Orders
<1> QED
  BY <1>1, <1>2, BooksInit DEF Guarded

\* A job whose orderer has been written off, under a reservation that is gone.
Spare(i) == Stray(i) /\ ~StillReserved(i)

\* A reservation that is gone is not made again by an orderer who is written off.
LEMMA SpareKept ==
    ASSUME Books, Orders, Form, NEW i \in ChildIds, Spare(i)
    PROVE  Spare(i)'
<1> DEFINE b == children[i].by
           c == children[i].chunk
<1>1. /\ children'[i] = children[i] /\ Stray(i)' /\ b \in Actors /\ WrittenOff(b) /\ c \in Chunks
      /\ b # NoOwner
  BY StrayKept, BookTypes, PlanAssumption DEF Spare, Stray, Orders, Books, SInv, Child
<1>2. ASSUME plan'.slots[c].owner = b, Fresh(plan', expired', c) PROVE FALSE
  <2>1. SlotForm(c)
    BY <1>1, FSlots DEF Books, SInv
  <2>2. ~Reserve(b)
    BY <1>1 DEF WrittenOff, Reserve
  <2>3. plan.slots[c].owner = b
    BY <1>1, <1>2, <2>1, <2>2 DEF SlotForm, Filled
  <2>4. Fresh(plan, expired, c)
    <3>1. ASSUME NEW a \in Actors, Reserve(a), at'[a] = c PROVE FALSE
      <4>1. plan'.slots[c].owner = a
        BY <3>1, OwnerOnly DEF Reserve, Books, SInv
      <4> QED
        BY <1>2, <2>2, <3>1, <4>1
    <3> QED
      BY <1>1, <1>2, <3>1, FreshFrom DEF Books, SInv
  <2> QED
    BY <2>3, <2>4 DEF Spare, StillReserved
<1> QED
  BY <1>1, <1>2 DEF Spare, StillReserved

\* Where a job is put on order, every other of its chunk is spare.
LEMMA StartsBesideSpares ==
    ASSUME Books, HoldsSlot, Orders, NEW a \in Actors, NEW k \in ChildIds, Starts(a, k),
           NEW i \in ChildIds, Paid(i), children[i].chunk = at[a]
    PROVE  Spare(i)
<1> USE DEF Books, SInv
<1> DEFINE b == children[i].by
<1>1. children[i].status = "ordered" /\ b \in Actors /\ i \notin Recorded /\ i # NoChild
  BY BookTypes DEF Starts, Adoptable, Recorded, RowStatus, Paid, Orders
<1>2. plan.slots[at[a]].owner = a /\ pc[a] = "submit"
  BY DEF HoldsSlot, Ordering, Starts
<1>3. Stray(i)
  <2>1. ASSUME kid[b] = i PROVE FALSE
    <3>1. pc[b] = "record" /\ children[i].chunk = at[b]
      BY <1>1, <2>1 DEF OInv, HandsOwn
    <3>2. plan.slots[at[b]].owner = b
      BY <1>1, <3>1 DEF HoldsSlot, Ordering
    <3> QED
      BY <1>2, <3>1, <3>2
  <2> QED
    BY <1>1, <2>1 DEF Stray
<1>4. b # a
  BY <1>1, <1>2, <1>3 DEF Orders, WrittenOff
<1> QED
  BY <1>2, <1>3, <1>4 DEF Spare, StillReserved

LEMMA GuardedKept ==
    ASSUME "slow" \notin Faults
    PROVE  Guarded /\ [Next]_vars => Guarded'
<1> SUFFICES ASSUME Guarded, [Next]_vars PROVE Guarded'
  OBVIOUS
<1> USE DEF Guarded
<1>1. Books' /\ Form /\ HoldsSlot' /\ Orders'
  BY BooksKept, Forms, SlotHeld, OrdersKept DEF Books
<1>2. RowsKept
  BY <1>1, FRows DEF Books
<1>3. OneOrderPerChunk'
  <2> SUFFICES ASSUME NEW j \in ChildIds, NEW k \in ChildIds, j # k, Paid(j)', Paid(k)',
                      children'[j].chunk = children'[k].chunk
               PROVE  Spare(j)' \/ Spare(k)'
    BY DEF OneOrderPerChunk, Spare
  <2>1. ASSUME NEW i \in ChildIds, Paid(i) PROVE children'[i].chunk = children[i].chunk
    BY <1>2, <2>1 DEF Paid, RowsKept
  <2>2. CASE Paid(j) /\ Paid(k)
    <3>1. Spare(j) \/ Spare(k)
      BY <2>1, <2>2 DEF OneOrderPerChunk, Spare
    <3> QED
      BY <1>1, <3>1, SpareKept
  \* The other job was running before one of the two was put on order.
  <2>3. ASSUME NEW a \in Actors, NEW i \in ChildIds, Starts(a, i),
               NEW h \in ChildIds, h # i, Paid(h)', children'[h].chunk = children'[i].chunk
        PROVE  Spare(h)'
    <3>1. children'[i].chunk = at[a] /\ children'[h] = children[h]
      BY <2>3 DEF Starts, LostAs
    <3>2. Paid(h)
      BY <2>3, <3>1 DEF Paid
    <3> QED
      BY <1>1, <2>3, <3>1, <3>2, StartsBesideSpares, SpareKept
  <2>4. CASE ~(Paid(j) /\ Paid(k))
    BY <1>1, <2>3, <2>4, PaidFrom
  <2> QED
    BY <2>2, <2>4
<1> QED
  BY <1>1, <1>3

\* No two polls, in whatever processes, have the same chunk on order twice, whoever
\* dies, cancels or is refused: the slot is reserved before the remote call, and an
\* order that was recorded is adopted (_reserve, _submit_chunk_child).  A job that CDS
\* accepted for a call that died or raised before recording it is ordered again, but
\* only when its reservation is no longer its orderer's or has outlived the TTL; a
\* live order that outlasts the TTL is the exception _RESERVATION_TTL_SECONDS accepts.
THEOREM OrdersOnce ==
    ASSUME "slow" \notin Faults
    PROVE  Spec \/ PollersSpec => []OneOrderPerChunk
<1>1. Init \/ PollersInit => Guarded
  BY GuardedInit DEF Init, PollersInit
<1>2. Guarded /\ [Next]_vars => Guarded'
  BY GuardedKept
<1>3. Guarded => OneOrderPerChunk
  BY DEF Guarded
<1> QED
  BY <1>1, <1>2, <1>3, PTL DEF Spec, PollersSpec

-----------------------------------------------------------------------------
(* Every child counts.  While nobody dies and no wave is cancelled under   *)
(* its order, every recorded child is in the plan, retired by it or held   *)
(* by the actor that is about to put it there.                             *)

\* The plan in an actor's memory has the reservation it orders under.
ViewHolds == \A a \in Actors : Ordering(a) => view[a].slots[at[a]].owner = a

Accounted == \A k \in Recorded :
    LET s == plan.slots[children[k].chunk]
    IN  k \in s.superseded \cup {s.child} \/ \E a \in Actors : pc[a] = "assign" /\ kid[a] = k

Tally == Books /\ HoldsSlot /\ ViewHolds /\ Accounted

NobodyDrops == Mortal = {} /\ {"slow", "wave_cancelled"} \cap Faults = {}

LEMMA TallyInit ==
    ASSUME NEW step \in {"reserve", "dead"}, InitAt(step)
    PROVE  Tally
<1>1. HoldsSlot /\ ViewHolds
  BY DEF InitAt, HoldsSlot, ViewHolds, Ordering
<1>2. Accounted
  BY DEF InitAt, Accounted, Recorded, RowStatus
<1> QED
  BY <1>1, <1>2, BooksInit DEF Tally

LEMMA ViewHoldsKept ==
    ASSUME Books, ViewHolds, Form
    PROVE  ViewHolds'
<1> SUFFICES ASSUME NEW b \in Actors, Ordering(b)'
             PROVE  view'[b].slots[at'[b]].owner = b
  BY DEF ViewHolds
<1>1. ASSUME pc'[b] = pc[b], view'[b] = view[b], at'[b] = at[b]
      PROVE  view'[b].slots[at'[b]].owner = b
  BY <1>1 DEF ViewHolds, Ordering
<1>2. ASSUME ActorForm(b) PROVE view'[b].slots[at'[b]].owner = b
  <2>1. CASE Reserve(b)
    BY <2>1, OwnerOnly DEF Reserve, Books, SInv
  <2>2. CASE Take(b) \/ Send(b) \/ Book(b) \/ Refuse(b) \/ Lose(b)
    BY <2>2 DEF Take, Send, Book, Refuse, Lose, Ongoing, Ordering, ViewHolds
  <2>3. CASE Leaves(b) \/ Judge(b)
    BY <2>3 DEF Leaves, Judge, Ordering, OrderSteps
  <2> QED
    BY <1>2, <2>1, <2>2, <2>3 DEF ActorForm, Walk, Mend, Free, Fill, Cull
<1>3. ASSUME NEW a \in Actors, ActorForm(a) PROVE OthersKeep(a)
  BY <1>3 DEF ActorForm, Walk, Judge, Reserve, Take, Send, Book, Refuse, Lose, Mend, Free, Fill,
     Cull, Leaves, Ongoing
<1> QED
  BY <1>1, <1>2, <1>3 DEF Form, OthersKeep, End, Expire, vars, local

LEMMA AccountedKept ==
    ASSUME NobodyDrops, Tally, Form
    PROVE  Accounted'
<1> USE DEF Tally
<1> DEFINE AssignedBy(b, k) == pc[b] = "assign" /\ kid[b] = k
<1> SUFFICES ASSUME NEW k \in Recorded'
             PROVE  \/ k \in plan'.slots[children'[k].chunk].superseded
                             \cup {plan'.slots[children'[k].chunk].child}
                    \/ \E a \in Actors : AssignedBy(a, k)'
  BY DEF Accounted
<1>1. CASE \E a \in Actors : Book(a) /\ kid[a] = k
  BY <1>1 DEF Book
<1>2. CASE k \in Recorded
  <2> DEFINE c == children[k].chunk
             s == plan.slots[c]
             t == plan'.slots[c]
  <2>1. c \in Chunks /\ children'[k].chunk = c /\ k # NoChild /\ SlotForm(c)
    BY <1>2, BookTypes, FRows, FSlots, RecordedKept DEF Books, SInv, Recorded, Child
  <2>2. CASE k \in s.superseded \cup {s.child}
    <3>1. CASE SameSlot(c)
      BY <2>1, <2>2, <3>1 DEF SameSlot
    <3>2. CASE \E a \in Actors : Fill(a) /\ at[a] = c /\ Filled(a)
      <4>1. PICK a \in Actors : Fill(a) /\ at[a] = c /\ Filled(a)
        BY <3>2
      <4>2. mode[a] # "retry" => s.child = NoChild
        BY <4>1, FillerHolds
      <4>3. k \in t.superseded
        BY <2>1, <2>2, <4>1, <4>2 DEF Filled
      <4> QED
        BY <2>1, <4>3
    <3> QED
      BY <2>1, <3>1, <3>2 DEF SlotForm
  <2>3. ASSUME NEW b \in Actors, AssignedBy(b, k)
        PROVE  t.child = k \/ AssignedBy(b, k)'
    <3>1. at[b] = c /\ Holds(b, plan) /\ Holds(b, view[b])
      BY <2>3 DEF Books, OInv, HandsOwn, HoldsSlot, ViewHolds, Ordering, Holds
    <3>2. ASSUME ActorForm(b) PROVE t.child = k
      <4>1. ~Drops(b)
        BY <3>1 DEF NobodyDrops, Drops
      <4>2. Fill(b)
        BY <2>3, <3>2, <4>1 DEF ActorForm, Walk, Judge, Reserve, Take, Send, Book, Refuse,
           Lose, Mend, Free, Cull, OrderSteps
      <4> QED
        BY <2>3, <3>1, <4>2, FillFills DEF Filled, Books, SInv
    <3>3. ASSUME UNCHANGED <<pc, kid>> \/ \E a \in Actors \ {b} : OthersKeep(a)
          PROVE  AssignedBy(b, k)'
      BY <2>3, <3>3 DEF OthersKeep
    <3>4. ASSUME NEW a \in Actors, ActorForm(a) PROVE OthersKeep(a)
      BY <3>4 DEF ActorForm, Walk, Judge, Reserve, Take, Send, Book, Refuse, Lose, Mend, Free, Fill,
         Cull, Leaves, Ongoing
    <3> QED
      BY <3>2, <3>3, <3>4 DEF Form, End, Expire, vars, local
  <2> QED
    BY <1>2, <2>1, <2>2, <2>3 DEF Accounted
<1> QED
  BY <1>1, <1>2, RecordedFrom

LEMMA TallyKept ==
    ASSUME NobodyDrops
    PROVE  Tally /\ [Next]_vars => Tally'
<1> SUFFICES ASSUME Tally, [Next]_vars PROVE Tally'
  OBVIOUS
<1>1. Books /\ Books' /\ Form
  BY BooksKept, Forms DEF Tally, Books
<1> QED
  BY <1>1, SlotHeld, ViewHoldsKept, AccountedKept DEF Tally, NobodyDrops

LEMMA TallyInvariant ==
    ASSUME NobodyDrops
    PROVE  Spec \/ PollersSpec => []Tally
<1>1. Init \/ PollersInit => Tally
  BY TallyInit DEF Init, PollersInit
<1>2. Tally /\ [Next]_vars => Tally'
  BY TallyKept
<1> QED
  BY <1>1, <1>2, PTL DEF Spec, PollersSpec

\* A cancel or a cleanup that goes by the plan misses no live child but one whose
\* maker is about to put it there (_cancel_chunk_parent, the cleanup of
\* _advance_chunk_parent), as long as nobody dies with a child in hand.
THEOREM NoneOrphaned ==
    ASSUME NobodyDrops
    PROVE  Spec \/ PollersSpec => []NoOrphan
<1>1. Tally => NoOrphan
  <2> SUFFICES ASSUME Tally, NEW k \in Live
               PROVE  k \in ChildrenOf(plan) \/ \E a \in Actors : kid[a] = k
    BY DEF NoOrphan
  <2> DEFINE c == children[k].chunk
  <2>1. k \in Recorded /\ k # NoChild /\ c \in Chunks /\ children[k].status # "failed"
    BY BookTypes DEF Live, Recorded, RowStatus, Tally, Books, SInv, Child
  <2>2. k \notin plan.slots[c].superseded
    BY <2>1 DEF Tally, Books, OInv, Retired, Failed
  <2>3. k = plan.slots[c].child \/ \E a \in Actors : kid[a] = k
    BY <2>1, <2>2 DEF Tally, Accounted
  <2> QED
    BY <2>1, <2>3 DEF ChildrenOf, Submitted
<1> QED
  BY <1>1, TallyInvariant, PTL

LEMMA OneMore ==
    ASSUME NEW S, IsFiniteSet(S), NEW x, NEW K, K \subseteq S \cup {x}
    PROVE  /\ Cardinality(S) \in Nat /\ Cardinality(K) \in Nat
           /\ Cardinality(K) <= Cardinality(S) + 1
<1>1. Cardinality(S) \in Nat
  BY FS_CardinalityType
<1>2. /\ IsFiniteSet(S \cup {x})
      /\ Cardinality(S \cup {x}) = IF x \in S THEN Cardinality(S) ELSE Cardinality(S) + 1
  BY FS_AddElement, Zenon
<1>3. IsFiniteSet(K) /\ Cardinality(K) <= Cardinality(S \cup {x})
  BY <1>2, FS_Subset
<1>4. Cardinality(K) \in Nat
  BY <1>3, FS_CardinalityType
<1> QED
  BY <1>1, <1>2, <1>3, <1>4

LEMMA TwoMore ==
    ASSUME NEW S, IsFiniteSet(S), NEW x, NEW y, NEW K, K \subseteq S \cup {x, y}
    PROVE  /\ Cardinality(S) \in Nat /\ Cardinality(K) \in Nat
           /\ Cardinality(K) <= Cardinality(S) + 2
<1>1. IsFiniteSet(S \cup {x}) /\ K \subseteq (S \cup {x}) \cup {y}
  BY FS_AddElement
<1>2. /\ Cardinality(S) \in Nat /\ Cardinality(S \cup {x}) \in Nat
      /\ Cardinality(S \cup {x}) <= Cardinality(S) + 1
  BY OneMore
<1>3. Cardinality(K) \in Nat /\ Cardinality(K) <= Cardinality(S \cup {x}) + 1
  BY <1>1, OneMore
<1> QED
  BY <1>2, <1>3

\* The children of a chunk: those the plan has retired, its child, and the one that
\* the owner of its reservation has in hand.
LEMMA ChildrenBounded ==
    ASSUME Tally, NEW c \in Chunks
    PROVE  Cardinality({k \in Recorded : children[k].chunk = c}) <= RetryLimit + 1
<1> DEFINE S == plan.slots[c].superseded
           x == plan.slots[c].child
           n == plan.slots[c].attempt
           K == {k \in Recorded : children[k].chunk = c}
           Held(a, k) == pc[a] = "assign" /\ kid[a] = k
<1>1. /\ S \in SUBSET ChildIds /\ n \in Nat /\ RetryLimit \in Nat
      /\ Cardinality(S) = n /\ n <= RetryLimit
  BY BookTypes, PlanAssumption DEF Tally, Books, SInv, OInv, Retired
<1>2. IsFiniteSet(S)
  <2>1. IsFiniteSet(ChildIds)
    BY PlanAssumption, FS_Interval DEF ChildIds
  <2> QED
    BY <1>1, <2>1, FS_Subset
<1>3. \A k \in K : k # NoChild /\ (k \in S \cup {x} \/ \E a \in Actors : Held(a, k))
  BY BookTypes DEF Recorded, Tally, Accounted, Books, SInv
<1>4. \A a \in Actors, k \in K : Held(a, k) => at[a] = c /\ plan.slots[c].owner = a
  BY DEF Tally, Books, OInv, HandsOwn, HoldsSlot, Ordering
<1>5. \A a \in Actors, k \in K : Held(a, k) =>
         /\ mode[a] = "retry" => n < RetryLimit
         /\ mode[a] # "retry" => x = NoChild
  BY <1>4 DEF Tally, Books, OInv, Reserves, Ordering
<1> HIDE DEF K, S, x, n
<1>6. CASE \A a \in Actors, k \in K : ~Held(a, k)
  <2>1. K \subseteq S \cup {x}
    BY <1>3, <1>6
  <2>2. Cardinality(K) \in Nat /\ Cardinality(K) <= Cardinality(S) + 1
    BY <1>2, <2>1, OneMore
  <2> QED
    BY <1>1, <2>2 DEF K
<1>7. ASSUME NEW a \in Actors, NEW h \in K, Held(a, h)
      PROVE  Cardinality({k \in Recorded : children[k].chunk = c}) <= RetryLimit + 1
  <2>1. K \subseteq S \cup {x, h}
    BY <1>3, <1>4, <1>7
  <2>2. CASE mode[a] = "retry"
    <3>1. Cardinality(K) \in Nat /\ Cardinality(K) <= Cardinality(S) + 2
      BY <1>2, <2>1, TwoMore
    <3>2. n < RetryLimit
      BY <1>5, <1>7, <2>2
    <3> QED
      BY <1>1, <3>1, <3>2 DEF K
  <2>3. CASE mode[a] # "retry"
    <3>1. K \subseteq S \cup {h}
      BY <1>3, <1>5, <1>7, <2>1, <2>3
    <3>2. Cardinality(K) \in Nat /\ Cardinality(K) <= Cardinality(S) + 1
      BY <1>2, <3>1, OneMore
    <3> QED
      BY <1>1, <3>2 DEF K
  <2> QED
    BY <2>2, <2>3
<1> QED
  BY <1>6, <1>7

\* The children a chunk ever had are at most one more than it may be retried
\* (_chunk_failure_retryable's attempt < limit, judged on a plan that may be stale and
\* counted in the assign write), and each was counted.
THEOREM RetriesCounted ==
    ASSUME NobodyDrops
    PROVE  Spec \/ PollersSpec => []RetriesBounded
<1>1. Tally => RetriesBounded
  BY ChildrenBounded DEF Tally, Books, OInv, Retired, RetriesBounded
<1> QED
  BY <1>1, TallyInvariant, PTL

-----------------------------------------------------------------------------
(* The budget.  The first wave never counts: it may order its slots because*)
(* they were set aside for it from the start.  So the budget has to cover  *)
(* the slots that are active and those the wave could still reserve; a     *)
(* refill beyond the wave's slots finds none of these left.                *)

\* Slot c occupies the budget, or the first wave could still make it do so.
Covered(c) ==
    LET k == plan.slots[c].child
    IN  \/ k # NoChild /\ children[k].status = "pending"
        \/ Fresh(plan, expired, c)
        \/ k = NoChild /\ c <= WaveSlots

Cover == MaxInflight > 0 => Cardinality({c \in Chunks : Covered(c)}) <= MaxInflight

Budgeted == Books /\ HoldsSlot /\ Cover

LEMMA ChunksFinite == IsFiniteSet(Chunks) /\ Chunks \in SUBSET Nat /\ WaveSlots \in Nat
BY PlanAssumption, FS_Interval DEF Chunks, WaveSlots

LEMMA BudgetInit ==
    ASSUME NEW step \in {"reserve", "dead"}, InitAt(step)
    PROVE  Budgeted
<1>1. HoldsSlot
  BY DEF InitAt, HoldsSlot, Ordering
<1>2. ASSUME MaxInflight > 0 PROVE Cardinality({c \in Chunks : Covered(c)}) <= MaxInflight
  <2>1. WaveSlots \in Nat /\ WaveSlots <= MaxInflight
    BY <1>2, PlanAssumption DEF WaveSlots
  <2>2. \A c \in Chunks : Covered(c) => c \in 1..WaveSlots
    BY <2>1, ChunksFinite, PlanAssumption
       DEF InitAt, Covered, EmptyPlan, EmptySlot, Fresh, Chunks
  <2>3. IsFiniteSet(1..WaveSlots) /\ Cardinality(1..WaveSlots) <= MaxInflight
    <3>1. /\ IsFiniteSet(1..WaveSlots)
          /\ Cardinality(1..WaveSlots) = IF 1 > WaveSlots THEN 0 ELSE WaveSlots - 1 + 1
      BY <2>1, FS_Interval
    <3> QED
      BY <2>1, <3>1, PlanAssumption
  <2> DEFINE U == {c \in Chunks : Covered(c)}
  <2>4. U \subseteq 1..WaveSlots
    BY <2>2
  <2> HIDE DEF U
  <2>5. IsFiniteSet(U) /\ Cardinality(U) <= Cardinality(1..WaveSlots)
    BY <2>3, <2>4, FS_Subset
  <2>6. Cardinality(U) \in Nat /\ Cardinality(1..WaveSlots) \in Nat
    BY <2>3, <2>5, FS_CardinalityType
  <2> QED
    BY <2>3, <2>5, <2>6, PlanAssumption DEF U
<1> QED
  BY <1>1, <1>2, BooksInit DEF Budgeted, Cover

\* A slot comes to count only by a refill beyond the wave's slots.
LEMMA CoveredFrom ==
    ASSUME RetryLimit = 0, Books, HoldsSlot, Form, NEW c \in Chunks, Covered(c)'
    PROVE  \/ Covered(c)
           \/ \E a \in Actors : /\ Reserve(a) /\ at'[a] = c
                                /\ RefillChoice(a, c) /\ ~(c <= WaveSlots)
<1> USE DEF Books, SInv
<1> DEFINE k == plan.slots[c].child
<1>1. SlotForm(c) /\ RowsKept
  BY FSlots, FRows
<1>2. CASE \E a \in Actors : Fill(a) /\ at[a] = c
  BY <1>2, PlanAssumption DEF Fill, HoldsSlot, Ordering, Covered, Fresh
<1>3. CASE SameSlot(c)
  <2>1. plan'.slots[c].child = k
    BY <1>3 DEF SameSlot
  <2>2. CASE k # NoChild /\ children'[k].status = "pending"
    <3>1. k \in Recorded /\ k \in ChildIds
      BY <2>2, BookTypes DEF OInv, PlansFiled, Filed
    <3>2. children[k].status = "pending"
      BY <1>1, <2>2, <3>1 DEF RowsKept, Recorded, RowStatus, Terminal
    <3> QED
      BY <2>2, <3>2 DEF Covered
  <2>3. CASE k = NoChild /\ c <= WaveSlots
    BY <2>3 DEF Covered
  <2>4. CASE Fresh(plan', expired', c)
    <3>1. CASE Fresh(plan, expired, c)
      BY <3>1 DEF Covered
    <3>2. ASSUME NEW a \in Actors, Reserve(a), at'[a] = c
          PROVE  Covered(c) \/ (RefillChoice(a, c) /\ ~(c <= WaveSlots))
      <4>1. pc[a] # "claim"
        <5>1. ASSUME pc[a] = "claim" PROVE FALSE
          <6>1. view[a].slots[at[a]].attempt < 0 /\ at[a] \in Chunks
            BY <5>1 DEF OInv, Judged, TInv, Placed, AtSlot
          <6> QED
            BY <6>1, BookTypes
        <5> QED
          BY <5>1
      <4>2. WaveChoice(c) \/ RefillChoice(a, c)
        BY <3>2, <4>1 DEF Reserve
      <4> QED
        BY <4>2 DEF WaveChoice, RefillChoice, Covered
    <3> QED
      BY <2>4, <3>1, <3>2, FreshFrom
  <2> QED
    BY <2>1, <2>2, <2>3, <2>4 DEF Covered
<1> QED
  BY <1>1, <1>2, <1>3 DEF SlotForm

\* A sweep that an actor goes by overcounts the slots that are active.
LEMMA SweepOvercounts ==
    ASSUME Books, NEW a \in Actors, NEW c \in Chunks,
           \/ plan.slots[c].child # NoChild /\ children[plan.slots[c].child].status = "pending"
           \/ Fresh(plan, expired, c)
    PROVE  c \in Active(plan, seen[a], expired)
<1> DEFINE k == plan.slots[c].child
<1>1. ASSUME k # NoChild, children[k].status = "pending"
      PROVE  seen[a][k] \in {"pending", "unknown"}
  <2>1. k \in ChildIds /\ seen[a][k] \in SeenStatus
    BY <1>1, BookTypes DEF Books, SInv
  <2> QED
    BY <1>1, <2>1 DEF Books, SInv, SeenTrue, SeenStatus, RowStatus, Terminal
<1> QED
  BY <1>1 DEF Active

LEMMA CoverKept ==
    ASSUME RetryLimit = 0, Books, HoldsSlot, Cover, Form
    PROVE  Cover'
<1> DEFINE U == {c \in Chunks : Covered(c)}
           V == {c \in Chunks : Covered(c)'}
<1> SUFFICES ASSUME MaxInflight > 0
             PROVE  Cardinality(V) <= MaxInflight
  BY DEF Cover
<1>1. CASE \E a \in Actors : /\ Reserve(a) /\ at'[a] \in V
                             /\ RefillChoice(a, at'[a]) /\ ~(at'[a] <= WaveSlots)
  <2>1. PICK a \in Actors : /\ Reserve(a) /\ at'[a] \in V
                            /\ RefillChoice(a, at'[a]) /\ ~(at'[a] <= WaveSlots)
    BY <1>1
  <2> DEFINE A == Active(plan, seen[a], expired)
             c == at'[a]
  <2>2. \A b \in Actors : Reserve(b) => b = a
    BY <2>1 DEF Reserve, OthersKeep
  <2>3. V \subseteq A \cup {c}
    <3> SUFFICES ASSUME NEW d \in Chunks, Covered(d)', d # c PROVE d \in A
      OBVIOUS
    <3>1. Covered(d)
      BY <2>2, CoveredFrom
    <3>2. ~(plan.slots[d].child = NoChild /\ d <= WaveSlots /\ ~Fresh(plan, expired, d))
      <4>1. ASSUME d \in Orderable(plan, expired) PROVE ~(d <= WaveSlots)
        <5>1. c <= d /\ c \in Nat /\ d \in Nat /\ WaveSlots \in Nat /\ ~(c <= WaveSlots)
          BY <2>1, <4>1, ChunksFinite DEF RefillChoice
        <5> QED
          BY <5>1
      <4> QED
        BY <4>1 DEF Orderable
    <3> QED
      BY <3>1, <3>2, SweepOvercounts DEF Covered
  <2>4. IsFiniteSet(A)
    BY ChunksFinite, FS_Subset DEF Active
  <2>5. ~(Cardinality(A) >= MaxInflight)
    BY <2>1 DEF RefillChoice, BudgetFull
  <2> HIDE DEF A, V, c
  <2>6. /\ Cardinality(A) \in Nat /\ Cardinality(V) \in Nat
        /\ Cardinality(V) <= Cardinality(A) + 1
    BY <2>3, <2>4, OneMore
  <2> QED
    BY <2>5, <2>6, PlanAssumption
<1>2. CASE ~\E a \in Actors : /\ Reserve(a) /\ at'[a] \in V
                              /\ RefillChoice(a, at'[a]) /\ ~(at'[a] <= WaveSlots)
  <2>1. V \subseteq U
    BY <1>2, CoveredFrom
  <2>2. IsFiniteSet(U) /\ Cardinality(U) <= MaxInflight
    BY ChunksFinite, FS_Subset DEF Cover
  <2> HIDE DEF U, V
  <2>3. IsFiniteSet(V) /\ Cardinality(V) <= Cardinality(U)
    BY <2>1, <2>2, FS_Subset
  <2>4. Cardinality(U) \in Nat /\ Cardinality(V) \in Nat
    BY <2>2, <2>3, FS_CardinalityType
  <2> QED
    BY <2>2, <2>3, <2>4, PlanAssumption
<1> QED
  BY <1>1, <1>2

\* The plan never holds more live children and reservations than
\* budget.cds_chunk_max_inflight, though the first wave does not look and the refill
\* decides on a sweep that may be stale, whoever dies or cancels: with retries off
\* (the retry pass re-checks no budget under its write, _reserve_retry) and no live
\* order outlasting the TTL (_wave_size, inflight_full and _refill_chunk_children).
THEOREM BudgetHolds ==
    ASSUME RetryLimit = 0, "slow" \notin Faults
    PROVE  Spec \/ PollersSpec => []InflightBudget
<1>1. Init \/ PollersInit => Budgeted
  BY BudgetInit DEF Init, PollersInit
<1>2. Budgeted /\ [Next]_vars => Budgeted'
  BY BooksKept, Forms, SlotHeld, CoverKept DEF Budgeted, Books
<1>3. Budgeted => InflightBudget
  <2> SUFFICES ASSUME Budgeted, MaxInflight > 0
               PROVE  Cardinality(Active(plan, StatusMap(plan), expired)) <= MaxInflight
    BY DEF InflightBudget
  <2> DEFINE A == Active(plan, StatusMap(plan), expired)
             U == {c \in Chunks : Covered(c)}
  <2>1. ASSUME NEW c \in A PROVE c \in U
    <3> DEFINE k == plan.slots[c].child
    <3>1. c \in Chunks
      BY DEF Active
    <3>2. CASE Fresh(plan, expired, c)
      BY <3>1, <3>2 DEF Covered
    <3>3. CASE k # NoChild /\ StatusMap(plan)[k] \in {"pending", "unknown"}
      <4>1. k \in Recorded /\ k \in ChildIds /\ k \in ChildrenOf(plan)
        BY <3>1, <3>3, BookTypes
           DEF Budgeted, Books, SInv, OInv, PlansFiled, Filed, ChildrenOf, Submitted
      <4>2. children[k].status = "pending"
        BY <3>3, <4>1 DEF StatusMap, Recorded, RowStatus
      <4> QED
        BY <3>1, <3>3, <4>2 DEF Covered
    <3> QED
      BY <3>1, <3>2, <3>3 DEF Active
  <2>2. IsFiniteSet(U) /\ Cardinality(U) <= MaxInflight
    BY ChunksFinite, FS_Subset DEF Budgeted, Cover
  <2>3. A \subseteq U
    BY <2>1
  <2> HIDE DEF A, U
  <2>4. IsFiniteSet(A) /\ Cardinality(A) <= Cardinality(U)
    BY <2>2, <2>3, FS_Subset
  <2>5. Cardinality(A) \in Nat /\ Cardinality(U) \in Nat
    BY <2>2, <2>4, FS_CardinalityType
  <2> QED
    BY <2>2, <2>4, <2>5, PlanAssumption DEF A
<1> QED
  BY <1>1, <1>2, <1>3, PTL DEF Spec, PollersSpec

-----------------------------------------------------------------------------
(* The promise.  Unless the first wave can fail, the parent's row is only  *)
(* ever written while it is pending, and the chunks go through the states  *)
(* FanOut allows: every form of a step is one of its steps, or none.       *)

WaveMayFail == {"order_error", "wave_cancelled"} \cap Faults # {}

\* No abort is under way, and none comes.
Calm == \A a \in Actors :
    /\ pc[a] # "abort"
    /\ mode[a] = "wave" => pc[a] = "dead" \/ ~WaveMayFail

Kept == Books /\ Calm

LEMMA CalmKept ==
    ASSUME Calm, Form
    PROVE  Calm'
<1>1. ASSUME NEW a \in Actors, ActorForm(a) PROVE Calm'
  <2>1. OthersKeep(a)
    BY <1>1 DEF ActorForm, Walk, Judge, Reserve, Take, Send, Book, Refuse, Lose, Mend, Free, Fill,
       Cull, Leaves, Ongoing
  <2>2. /\ pc'[a] # "abort"
        /\ mode'[a] = "wave" => pc'[a] = "dead" \/ ~WaveMayFail
    <3>1. CASE Leaves(a)
      BY <3>1 DEF Leaves, Calm, WaveMayFail
    <3>2. CASE Judge(a) \/ Reserve(a) \/ Take(a) \/ Send(a) \/ Book(a) \/ Refuse(a)
               \/ Lose(a)
      BY <3>2 DEF Judge, Reserve, Take, Send, Book, Refuse, Lose, Ongoing, Calm, WaveMayFail
    <3> QED
      BY <1>1, <3>1, <3>2 DEF ActorForm, Walk, Mend, Free, Fill, Cull
  <2> QED
    BY <2>1, <2>2 DEF OthersKeep, Calm
<1> QED
  BY <1>1 DEF Form, End, Expire, vars, local, Calm

LEMMA KeptInvariant == PollersSpec \/ (~WaveMayFail /\ Spec) => []Kept
<1>1. PollersInit => Kept
  BY BooksInit DEF PollersInit, InitAt, Kept, Calm
<1>2. ~WaveMayFail /\ Init => Kept
  BY BooksInit DEF Init, InitAt, Kept, Calm
<1>3. Kept /\ [Next]_vars => Kept'
  BY BooksKept, Forms, CalmKept DEF Kept, Books
<1>4. CASE WaveMayFail
  BY <1>1, <1>3, <1>4, PTL DEF PollersSpec
<1>5. CASE ~WaveMayFail
  BY <1>1, <1>2, <1>3, <1>5, PTL DEF Spec, PollersSpec
<1> QED
  BY <1>4, <1>5

\* Only a walk writes the parent's row, and only a pending one.
LEMMA RowForm ==
    ASSUME Calm, Form
    PROVE  \/ row' = row
           \/ /\ row = "pending" /\ row' \in Terminal
              /\ UNCHANGED <<plan, children>>
<1>1. ASSUME NEW a \in Actors, Walk(a)
      PROVE  row' = row \/ (row = "pending" /\ row' \in Terminal /\ UNCHANGED <<plan, children>>)
  BY <1>1 DEF Walk, Calm, RowEnds
<1>2. ASSUME NEW a \in Actors, ActorForm(a), ~Walk(a) PROVE row' = row
  BY <1>2 DEF ActorForm, Judge, Reserve, Take, Send, Book, Refuse, Lose, Mend, Free, Fill, Cull, Ongoing
<1> QED
  BY <1>1, <1>2 DEF Form, End, Expire, vars

\* A parent's status, once terminal, never changes: every write of it but the first
\* wave's abort is conditional on a pending row (update_workflow_status_if_pending),
\* so it holds whenever no first wave fails, or its submit call is gone.
THEOREM TerminalStays == PollersSpec \/ (~WaveMayFail /\ Spec) => TerminalIsPermanent
<1>1. Kept /\ [Next]_vars => [(row \in Terminal) => (row' = row)]_vars
  BY Forms, RowForm DEF Kept, Books, SInv, Terminal
<1>2. PollersSpec \/ (~WaveMayFail /\ Spec) => []Kept
  BY KeptInvariant
<1>3. CASE WaveMayFail
  BY <1>1, <1>2, <1>3, PTL DEF PollersSpec, TerminalIsPermanent
<1>4. CASE ~WaveMayFail
  BY <1>1, <1>2, <1>4, PTL DEF Spec, PollersSpec, TerminalIsPermanent
<1> QED
  BY <1>3, <1>4

ChunkView == [c \in Chunks |-> ChunkState(c)]

\* A chunk keeps its state as long as its child, if any, keeps its row.
LEMMA StateKept ==
    ASSUME NEW c \in Chunks, plan'.slots[c].child = plan.slots[c].child,
           plan.slots[c].child # NoChild
              => children'[plan.slots[c].child] = children[plan.slots[c].child]
    PROVE  ChunkState(c)' = ChunkState(c)
BY DEF ChunkState

LEMMA FillStarts ==
    ASSUME Books, NEW a \in Actors, Fill(a)
    PROVE  \E c \in Chunks : Promise!Start(c)
<1>1. PICK c \in Chunks : c = at[a]
  BY FillFills DEF Filled, Books, SInv
<1> DEFINE s == ChunkState(c)'
<1>2. /\ kid[a] # NoChild /\ children' = children /\ row' = row
      /\ plan'.slots[c].child = kid[a]
      /\ \A d \in Chunks \ {c} : plan'.slots[d] = plan.slots[d]
  BY <1>1, FillFills, BookTypes DEF Fill, Filled, Books, SInv
<1>3. ChunkState(c) \in {"waiting", "refused"}
  <2>1. plan.slots[c].child # NoChild => Failed(plan.slots[c].child)
    BY <1>1, FillerHolds
  <2> QED
    BY <2>1 DEF ChunkState, Failed
<1>4. s \in {"running", "delivered", "refused", "lost"}
  BY <1>2 DEF ChunkState
<1>5. \A d \in Chunks \ {c} : ChunkState(d)' = ChunkState(d)
  BY <1>2, StateKept
<1>6. ChunkView' = [ChunkView EXCEPT ![c] = s]
  BY <1>5 DEF ChunkView
<1> QED
  BY <1>2, <1>3, <1>4, <1>6 DEF Promise!Start, ChunkView

LEMMA EndFinishes ==
    ASSUME Books, NEW k \in ChildIds, End(k)
    PROVE  UNCHANGED ChunkView \/ \E c \in Chunks : Promise!Finish(c)
<1>1. /\ children[k].status = "pending" /\ children'[k].status \in Terminal
      /\ \A j \in ChildIds \ {k} : children'[j] = children[j]
      /\ row' = row /\ plan' = plan
  BY DEF End
<1>2. ASSUME NEW d \in Chunks, plan.slots[d].child # k PROVE ChunkState(d)' = ChunkState(d)
  <2>1. plan.slots[d].child # NoChild => plan.slots[d].child \in ChildIds \ {k}
    BY <1>2, BookTypes DEF Books, SInv
  <2> QED
    BY <1>1, <2>1, StateKept
<1>3. CASE \A d \in Chunks : plan.slots[d].child # k
  BY <1>2, <1>3 DEF ChunkView
<1>4. ASSUME NEW c \in Chunks, plan.slots[c].child = k
      PROVE  Promise!Finish(c)
  <2> DEFINE s == ChunkState(c)'
  <2>1. k # NoChild
    BY BookTypes DEF Books, SInv
  <2>2. \A d \in Chunks \ {c} : plan.slots[d].child # k
    BY <1>4, <2>1 DEF Books, OInv, PlansFiled, Filed
  <2>3. ChunkState(c) = "running"
    BY <1>1, <1>4, <2>1 DEF ChunkState
  <2>4. s \in {"delivered", "refused", "lost"}
    BY <1>1, <1>4, <2>1 DEF ChunkState, Terminal
  <2>5. ChunkView' = [ChunkView EXCEPT ![c] = s]
    BY <1>2, <2>2 DEF ChunkView
  <2> QED
    BY <1>1, <2>3, <2>4, <2>5 DEF Promise!Finish, ChunkView
<1> QED
  BY <1>3, <1>4

LEMMA CullAbandons ==
    ASSUME Books, NEW a \in Actors, Cull(a)
    PROVE  Promise!Abandon
<1>1. /\ row' = row /\ plan' = plan
      /\ \A k \in ChildIds : \/ children'[k] = children[k]
                             \/ /\ children[k].status = "pending"
                                /\ children'[k].status = "cancelled"
  BY CulledRow DEF Cull, Books, SInv, TInv
<1> DEFINE S == {c \in Chunks : ChunkState(c) = "running" /\ ChunkState(c)' = "lost"}
<1>2. ASSUME NEW c \in Chunks, c \notin S PROVE ChunkState(c)' = ChunkState(c)
  <2> DEFINE k == plan.slots[c].child
  <2>1. CASE k = NoChild
    BY <1>1, <2>1, StateKept
  <2>2. CASE k # NoChild
    <3>1. k \in ChildIds
      BY <2>2, BookTypes DEF Books, SInv
    <3>2. CASE children'[k] = children[k]
      BY <1>1, <3>2, StateKept
    <3>3. CASE children[k].status = "pending" /\ children'[k].status = "cancelled"
      BY <1>1, <1>2, <2>2, <3>3 DEF ChunkState
    <3> QED
      BY <1>1, <3>1, <3>2, <3>3
  <2> QED
    BY <2>1, <2>2
<1>3. ChunkView' = [c \in Chunks |-> IF c \in S THEN "lost" ELSE ChunkView[c]]
  BY <1>2 DEF ChunkView
<1>4. S \in SUBSET {c \in Chunks : ChunkView[c] = "running"}
  BY DEF ChunkView
<1> HIDE DEF S
<1> QED
  BY <1>1, <1>3, <1>4 DEF Promise!Abandon, ChunkView

\* Every other step leaves the chunks as they are.
LEMMA OthersStutter ==
    ASSUME Books, Form,
           ~\E a \in Actors : Fill(a) \/ Cull(a),
           ~\E k \in ChildIds : End(k)
    PROVE  UNCHANGED ChunkView
<1> SUFFICES ASSUME NEW c \in Chunks PROVE ChunkState(c)' = ChunkState(c)
  BY DEF ChunkView
<1> DEFINE k == plan.slots[c].child
<1>1. plan'.slots[c].child = k
  BY FSlots DEF Books, SInv, SlotForm, SameSlot
<1>2. ASSUME k # NoChild PROVE children'[k] = children[k]
  <2>1. k \in ChildIds /\ k \in Recorded
    BY <1>2, BookTypes DEF Books, SInv, OInv, PlansFiled, Filed
  <2>2. ASSUME NEW a \in Actors, Send(a) \/ Lose(a) PROVE children'[k] = children[k]
    BY <2>1, <2>2 DEF Send, Lose, LostAs, Unused, Recorded, RowStatus
  <2>3. ASSUME NEW a \in Actors, Book(a) PROVE children'[k] = children[k]
    BY <2>1, <2>3 DEF Book, Recorded, RowStatus, Books, SInv, RecordsItsOwn
  <2>4. ASSUME NEW a \in Actors, ActorForm(a), ~Send(a), ~Lose(a), ~Book(a)
        PROVE  children' = children
    BY <2>4 DEF ActorForm, Walk, Judge, Reserve, Take, Refuse, Mend, Free, Ongoing
  <2> QED
    BY <2>2, <2>3, <2>4 DEF Form, Expire, vars
<1> QED
  BY <1>1, <1>2, StateKept

LEMMA StepKeepsPromise ==
    Kept /\ [Next]_vars => [Promise!Next]_<<row, [c \in Chunks |-> ChunkState(c)]>>
<1> SUFFICES ASSUME Kept, [Next]_vars
             PROVE  [Promise!Next]_<<row, ChunkView>>
  BY DEF ChunkView
<1>1. Books /\ SInv /\ Calm /\ SInv' /\ Form
  BY Forms, SKept DEF Kept, Books
<1>2. CASE row' # row
  <2>1. row = "pending" /\ row' \in Terminal /\ UNCHANGED <<plan, children>>
    BY <1>1, <1>2, RowForm
  <2>2. UNCHANGED ChunkView
    BY <2>1, StateKept DEF ChunkView
  <2>3. CASE row' = "successful"
    <3>1. \A c \in Chunks : ChunkState(c) = "delivered"
      BY <1>1, <2>1, <2>3 DEF SInv, SuccessIsComplete, ChunkState
    <3> QED
      BY <2>1, <2>2, <2>3, <3>1 DEF Promise!Next, Promise!Succeed, ChunkView
  <2>4. CASE row' # "successful"
    BY <2>1, <2>2, <2>4 DEF Terminal, Promise!Next, Promise!GiveUp, ChunkView
  <2> QED
    BY <2>3, <2>4
<1>3. CASE row' = row
  <2>1. CASE UNCHANGED ChunkView
    BY <1>3, <2>1
  <2>2. ASSUME NEW a \in Actors, Fill(a) \/ Cull(a) PROVE Promise!Next
    BY <1>1, <2>2, FillStarts, CullAbandons DEF Promise!Next
  <2>3. ASSUME NEW k \in ChildIds, End(k) PROVE Promise!Next \/ UNCHANGED ChunkView
    BY <1>1, <2>3, EndFinishes DEF Promise!Next
  <2> QED
    BY <1>1, <1>3, <2>1, <2>2, <2>3, OthersStutter
<1> QED
  BY <1>2, <1>3

\* However polls, retries, cancels and deaths interleave, the parent behaves as FanOut
\* promises its caller: a chunk is given a job only while it has none or its last one
\* was refused, a delivered or lost chunk stays so, and the parent succeeds once, with
\* everything delivered, or ends failed or cancelled for ever.
THEOREM PromiseKept == PollersSpec \/ (~WaveMayFail /\ Spec) => KeepsPromise
<1>1. Init \/ PollersInit => Promise!Init
  BY DEF Init, PollersInit, InitAt, EmptyPlan, EmptySlot, ChunkState, Promise!Init
<1>2. Kept /\ [Next]_vars => [Promise!Next]_<<row, [c \in Chunks |-> ChunkState(c)]>>
  BY StepKeepsPromise
<1>3. PollersSpec \/ (~WaveMayFail /\ Spec) => []Kept
  BY KeptInvariant
<1>4. CASE WaveMayFail
  BY <1>1, <1>2, <1>3, <1>4, PTL DEF PollersSpec, KeepsPromise, Promise!Spec
<1>5. CASE ~WaveMayFail
  BY <1>1, <1>2, <1>3, <1>5, PTL DEF Spec, PollersSpec, KeepsPromise, Promise!Spec
<1> QED
  BY <1>4, <1>5

=============================================================================
