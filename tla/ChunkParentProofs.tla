-------------------------- MODULE ChunkParentProofs --------------------------
(***************************************************************************)
(* Theorems about ChunkParent, for any number of chunks, processes and     *)
(* children, any budget and retry limit, and every fault it models.        *)
(***************************************************************************)
EXTENDS ChunkParent, WellFoundedInduction, TLAPS

-----------------------------------------------------------------------------
(* What the helpers return.                                                *)

\* The first of a set of slots is in it, and none comes before.
LEMMA FirstLeast ==
    ASSUME NEW S \in SUBSET Nat, S # {}
    PROVE  First(S) \in S /\ \A j \in S : First(S) <= j
<1> DEFINE R == {ss \in Nat \X Nat : ss[1] < ss[2]}
<1>2. IsWellFoundedOn(R, Nat)
  BY NatLessThanWellFounded, Zenon DEF OpToRel
<1>3. PICK i \in S : \A j \in S : <<j, i>> \notin R
  <2> HIDE DEF R
  <2> QED
    BY <1>2, WFMin
<1>4. ASSUME NEW j \in S PROVE i <= j
  <2>1. i \in Nat /\ j \in Nat
    OBVIOUS
  <2>2. ~(j < i)
    BY <2>1, <1>3
  <2> QED
    BY <2>1, <2>2
<1> QED
  BY <1>4 DEF First

\* A sweep answers with a status, and is right when it says a child has ended.
LEMMA StatusMapTrue ==
    ASSUME TypeOK, NEW p
    PROVE  /\ StatusMap(p) \in [ChildIds -> SeenStatus]
           /\ \A k \in ChildIds : StatusMap(p)[k] \in Terminal
                                  => children[k].status = StatusMap(p)[k]
BY DEF StatusMap, SeenStatus, RowStatus, TypeOK, ChildStatus, Recorded, Terminal

\* Reserving or freeing a slot touches its owner only.
LEMMA ReservedPlan ==
    ASSUME NEW p \in Plan, NEW c \in Chunks, NEW o \in Actors \cup {NoOwner}
    PROVE  /\ Reserved(p, c, o) \in Plan
           /\ Reserved(p, c, o).stopped = p.stopped
           /\ Reserved(p, c, o).slots[c].owner = o
           /\ Reserved(p, c, o).slots[c].child = p.slots[c].child
           /\ \A d \in Chunks : d # c => Reserved(p, c, o).slots[d] = p.slots[d]
BY DEF Reserved, Plan, Slot

\* The mask of a failure touches nothing else.
Masking(p, c, b) == [p EXCEPT !.slots[c].pending = b]

LEMMA MaskedPlan ==
    ASSUME NEW p \in Plan, NEW c \in Chunks, NEW b \in BOOLEAN
    PROVE  /\ Masking(p, c, b) \in Plan
           /\ Masking(p, c, b).stopped = p.stopped
           /\ \A d \in Chunks : /\ Masking(p, c, b).slots[d].child = p.slots[d].child
                                /\ Masking(p, c, b).slots[d].owner = p.slots[d].owner
BY DEF Masking, Plan, Slot

LEMMA StoppedPlan ==
    ASSUME NEW p \in Plan
    PROVE  LET q == [p EXCEPT !.stopped = TRUE]
           IN  q \in Plan /\ q.stopped /\ q.slots = p.slots
BY DEF Plan

\* The assign write fills the actor's slot, and retires a child only if the slot
\* has one.
LEMMA AssignedPlan ==
    ASSUME TypeOK, NEW a \in Actors, at[a] \in Chunks,
           mode[a] = "retry" => plan.slots[at[a]].child # NoChild
    PROVE  /\ Assigned(a) \in Plan
           /\ Assigned(a).stopped = plan.stopped
           /\ Assigned(a).slots[at[a]].owner = NoOwner
           /\ Assigned(a).slots[at[a]].child = kid[a]
           /\ \A d \in Chunks : d # at[a] => Assigned(a).slots[d] = plan.slots[d]
<1>1. plan \in Plan /\ kid[a] \in ChildIds \cup {NoChild} /\ plan.slots[at[a]] \in Slot
  BY DEF TypeOK, Plan
<1>2. CASE mode[a] = "retry"
  <2> DEFINE t == plan.slots[at[a]]
             s == [child |-> kid[a], owner |-> NoOwner, attempt |-> t.attempt + 1,
                   pending |-> FALSE, superseded |-> t.superseded \cup {t.child}]
  <2>1. s \in Slot /\ s.owner = NoOwner /\ s.child = kid[a]
    BY <1>1, <1>2 DEF Slot
  <2>2. Assigned(a) = [plan EXCEPT !.slots[at[a]] = s]
    BY <1>2 DEF Assigned
  <2> HIDE DEF s
  <2> QED
    BY <1>1, <2>1, <2>2 DEF Plan
<1>3. CASE mode[a] # "retry"
  <2> DEFINE s == [plan.slots[at[a]] EXCEPT !.child = kid[a], !.owner = NoOwner]
  <2>1. s \in Slot /\ s.owner = NoOwner /\ s.child = kid[a]
    BY <1>1 DEF Slot
  <2>2. Assigned(a) = [plan EXCEPT !.slots[at[a]] = s]
    BY <1>3 DEF Assigned
  <2> HIDE DEF s
  <2> QED
    BY <1>1, <2>1, <2>2 DEF Plan
<1> QED
  BY <1>2, <1>3

LEMMA EmptyPlanType == EmptyPlan \in Plan
BY PlanAssumption DEF EmptyPlan, EmptySlot, Plan, Slot, ChildIds, NoChild

-----------------------------------------------------------------------------
(* Type correctness.  TypeOK is not inductive alone: an actor that works   *)
(* on a slot must be at a slot, one that records a child must have ordered *)
(* it, and a retry must find a child to retire.                            *)

AtSlot == {"submit", "record", "assign", "release", "decline", "mark", "claim"}

Placed ==
    \A a \in Actors :
        /\ pc[a] \in AtSlot => at[a] \in Chunks
        /\ pc[a] \in {"record", "assign"} => kid[a] \in ChildIds
        /\ pc[a] \in {"submit", "record", "assign"} /\ mode[a] = "retry"
           => plan.slots[at[a]].child # NoChild

\* A plan write never takes a child out of a slot without putting another in.
KeepsChildren == \A c \in Chunks : plan.slots[c].child # NoChild
                                   => plan'.slots[c].child # NoChild

TInv == TypeOK /\ Placed

LEMMA TInit ==
    ASSUME NEW step \in {"reserve", "dead"}, InitAt(step)
    PROVE  TInv
<1>1. NChunks \in Nat /\ 1 \in Chunks /\ 1 \in 1..(NChunks + 1)
  BY PlanAssumption DEF Chunks
<1>2. EmptyPlan \in Plan
  BY EmptyPlanType
<1>3. Unseen \in [ChildIds -> SeenStatus]
  BY DEF Unseen, SeenStatus
<1> QED
  BY <1>1, <1>2, <1>3 DEF InitAt, TInv, TypeOK, Placed, RowStatus, Child, ChildStatus,
     Class, Steps, Modes, AtSlot

\* Dropping what an actor held keeps every type.
LEMMA ForgetType ==
    ASSUME TypeOK, NEW a \in Actors, Forget(a)
    PROVE  /\ mode' \in [Actors -> Modes]
           /\ view' \in [Actors -> Plan]
           /\ seen' \in [Actors -> [ChildIds -> SeenStatus]]
           /\ at' \in [Actors -> 1..(NChunks + 1)]
           /\ kid' \in [Actors -> ChildIds \cup {NoChild}]
<1>1. NChunks \in Nat /\ 1 \in 1..(NChunks + 1)
  BY PlanAssumption
<1>2. EmptyPlan \in Plan
  BY EmptyPlanType
<1>3. Unseen \in [ChildIds -> SeenStatus]
  BY DEF Unseen, SeenStatus
<1> QED
  BY <1>1, <1>2, <1>3 DEF Forget, TypeOK, Modes

\* A write that gives up, or commits a well-formed plan, keeps the plans' types.
LEMMA AbortType ==
    ASSUME TypeOK, NEW a \in Actors, NEW old, NEW now, CasAborts(a, old, now)
    PROVE  /\ plan' = plan /\ plan' \in Plan /\ expired' = expired
           /\ view' \in [Actors -> Plan]
           /\ \A b \in Actors : view'[b] \in {view[b], plan'}
BY DEF CasAborts, TypeOK

LEMMA CommitType ==
    ASSUME TypeOK, NEW a \in Actors, NEW old, NEW now, NEW new \in Plan,
           CasCommits(a, old, now, new)
    PROVE  /\ plan' = new /\ plan' \in Plan /\ now
           /\ view' \in [Actors -> Plan]
           /\ \A b \in Actors : view'[b] \in {view[b], plan'}
BY DEF CasCommits, TypeOK

LEMMA CancelRowsType ==
    ASSUME TypeOK, NEW ks, CancelRows(ks)
    PROVE  /\ children' \in [ChildIds -> Child]
           /\ \A k \in ChildIds :
                 \/ children'[k] = children[k]
                 \/ children[k].status = "pending" /\ children'[k].status = "cancelled"
BY DEF CancelRows, TypeOK, Child, ChildStatus, RowStatus, Live

\* An accepted job takes a number nobody has had, for the chunk its orderer works on.
LEMMA AcceptedOne ==
    ASSUME TypeOK, NEW a \in Actors, at[a] \in Chunks, Accepted(a)
    PROVE  /\ First(Unused) \in ChildIds /\ children[First(Unused)].status = "none"
           /\ children'[First(Unused)] = [chunk |-> at[a], status |-> "ordered",
                                          class |-> "none", by |-> a]
           /\ \A k \in ChildIds \ {First(Unused)} : children'[k] = children[k]
           /\ children' \in [ChildIds -> Child]
<1> DEFINE new == [chunk |-> at[a], status |-> "ordered", class |-> "none", by |-> a]
<1>1. First(Unused) \in Unused
  BY FirstLeast DEF Accepted, Unused, ChildIds
<1>2. new \in Child
  BY DEF Child, ChildStatus, Class
<1>3. children' = [children EXCEPT ![First(Unused)] = new] /\ children \in [ChildIds -> Child]
  BY DEF Accepted, TypeOK
<1>4. children'[First(Unused)] = new
  BY <1>1, <1>3 DEF Unused
<1> HIDE DEF new
<1> QED
  BY <1>1, <1>2, <1>3, <1>4 DEF Unused, new

\* Only the actor that takes the step can come to be placed wrongly.
LEMMA PlacedKept ==
    ASSUME Placed, TypeOK, NEW a \in Actors, KeepsChildren,
           \A b \in Actors \ {a} : /\ pc'[b] = pc[b] /\ at'[b] = at[b]
                                   /\ kid'[b] = kid[b] /\ mode'[b] = mode[b],
           pc'[a] \in AtSlot => at'[a] \in Chunks,
           pc'[a] \in {"record", "assign"} => kid'[a] \in ChildIds,
           pc'[a] \in {"submit", "record", "assign"} /\ mode'[a] = "retry"
              => plan'.slots[at'[a]].child # NoChild
    PROVE  Placed'
<1>1. ASSUME NEW b \in Actors \ {a}, pc[b] \in {"submit", "record", "assign"}, mode[b] = "retry"
      PROVE  plan'.slots[at'[b]].child # NoChild
  BY <1>1 DEF Placed, KeepsChildren, AtSlot
<1>2. ASSUME NEW b \in Actors
      PROVE  /\ pc'[b] \in AtSlot => at'[b] \in Chunks
             /\ pc'[b] \in {"record", "assign"} => kid'[b] \in ChildIds
             /\ pc'[b] \in {"submit", "record", "assign"} /\ mode'[b] = "retry"
                => plan'.slots[at'[b]].child # NoChild
  <2>1. CASE b = a
    BY <2>1
  <2>2. CASE b # a
    BY <1>1, <2>2 DEF Placed
  <2> QED
    BY <2>1, <2>2
<1> QED
  BY <1>2 DEF Placed

\* Reserving or freeing a slot keeps its child.
LEMMA ReservedKeeps ==
    ASSUME TypeOK, NEW c \in Chunks, NEW o \in Actors \cup {NoOwner},
           plan' = Reserved(plan, c, o)
    PROVE  KeepsChildren /\ plan'.slots[c].child = plan.slots[c].child
<1>1. plan \in Plan
  BY DEF TypeOK
<1>2. /\ plan'.slots[c].child = plan.slots[c].child
      /\ \A d \in Chunks : d # c => plan'.slots[d] = plan.slots[d]
  BY <1>1, ReservedPlan
<1>3. ASSUME NEW d \in Chunks PROVE plan'.slots[d].child = plan.slots[d].child
  BY <1>2
<1> QED
  BY <1>2, <1>3 DEF KeepsChildren

\* Ordering a child: each step of the three loops.
LEMMA TOrder ==
    ASSUME TInv, NEW a \in Actors, OrderStep(a)
    PROVE  TInv'
<1> USE DEF TInv, AtSlot
<1>0. NChunks \in Nat /\ Chunks = 1..NChunks /\ ChildIds \in SUBSET Nat
  BY PlanAssumption DEF Chunks, ChildIds
<1>a. /\ pc \in [Actors -> Steps] /\ mode \in [Actors -> Modes]
      /\ at \in [Actors -> 1..(NChunks + 1)] /\ plan \in Plan
      /\ kid \in [Actors -> ChildIds \cup {NoChild}]
  BY DEF TypeOK
<1>1. CASE ReserveWave(a)
  <2> DEFINE old == CanReserve(view[a], at[a])
             now == CanReserve(plan, at[a])
  <2>1. at[a] \in Chunks /\ at[a] + 1 \in 1..(NChunks + 1)
    BY <1>0, <1>1, <1>a, PlanAssumption DEF ReserveWave, WaveSlots
  <2>2. mode[a] = "wave" /\ mode' = mode /\ kid' = kid
    BY <1>1 DEF ReserveWave
  <2>3. CASE CasAborts(a, old, now) /\ at' = [at EXCEPT ![a] = at[a] + 1] /\ pc' = pc
    <3>1. TypeOK'
      BY <1>1, <2>1, <2>3, AbortType DEF ReserveWave, TypeOK
    <3>2. KeepsChildren
      BY <2>3, AbortType DEF KeepsChildren
    <3> QED
      BY <1>1, <1>a, <2>2, <2>3, <3>1, <3>2, PlacedKept DEF ReserveWave
  <2>4. CASE /\ CasCommits(a, old, now, Reserved(plan, at[a], a))
             /\ expired' = expired \ {at[a]} /\ Goto(a, "submit") /\ at' = at
    <3>1. plan' = Reserved(plan, at[a], a) /\ plan' \in Plan
      BY <1>a, <2>1, <2>4, ReservedPlan, CommitType
    <3>2. TypeOK'
      BY <1>1, <2>1, <2>4, ReservedPlan, CommitType DEF ReserveWave, TypeOK, Goto, Steps
    <3>3. KeepsChildren
      BY <2>1, <3>1, ReservedKeeps
    <3> QED
      BY <1>a, <2>1, <2>2, <2>4, <3>2, <3>3, PlacedKept DEF Goto
  <2> QED
    BY <1>1, <2>3, <2>4 DEF ReserveWave
<1>2. CASE WaveDone(a)
  BY <1>2, ForgetType DEF WaveDone, Placed, TypeOK, Goto, Steps, Forget
<1>3. CASE ReserveRefill(a)
  <2> DEFINE old == CanRefill(view[a], seen[a])
             now == CanRefill(plan, seen[a])
             c   == First(Orderable(plan, expired))
  <2>1. mode[a] = "refill" /\ mode' = mode /\ kid' = kid
    BY <1>3 DEF ReserveRefill
  <2>2. CASE CasAborts(a, old, now) /\ Goto(a, "settle") /\ at' = at
    <3>1. TypeOK'
      BY <1>3, <2>2, AbortType DEF ReserveRefill, TypeOK, Goto, Steps
    <3>2. KeepsChildren
      BY <2>2, AbortType DEF KeepsChildren
    <3> QED
      BY <1>a, <2>1, <2>2, <3>1, <3>2, PlacedKept DEF Goto
  <2>3. CASE /\ CasCommits(a, old, now, Reserved(plan, c, a))
             /\ expired' = expired \ {c} /\ at' = [at EXCEPT ![a] = c] /\ Goto(a, "submit")
    <3>1. Orderable(plan, expired) # {} /\ Orderable(plan, expired) \in SUBSET Chunks
      BY <2>3 DEF CasCommits, CanRefill, Orderable
    <3>2. c \in Chunks /\ c \in 1..(NChunks + 1)
      BY <1>0, <3>1, FirstLeast
    <3> HIDE DEF c, old, now
    <3>3. plan' = Reserved(plan, c, a) /\ plan' \in Plan
      BY <1>a, <2>3, <3>2, ReservedPlan, CommitType
    <3>4. TypeOK'
      BY <1>3, <2>3, <3>2, ReservedPlan, CommitType DEF ReserveRefill, TypeOK, Goto, Steps
    <3>5. KeepsChildren
      BY <3>2, <3>3, ReservedKeeps
    <3> QED
      BY <1>a, <2>1, <2>3, <3>2, <3>4, <3>5, PlacedKept DEF Goto
  <2> QED
    BY <1>3, <2>2, <2>3 DEF ReserveRefill
<1>4. CASE Adopt(a)
  BY <1>4 DEF Adopt, Adoptable, Recorded, Placed, TypeOK, Goto, Steps
<1>5. CASE Order(a)
  <2>1. at[a] \in Chunks /\ Accepted(a)
    BY <1>5 DEF Order, Placed
  <2>2. First(Unused) \in ChildIds /\ children' \in [ChildIds -> Child]
    BY <2>1, AcceptedOne
  <2> QED
    BY <1>5, <2>1, <2>2 DEF Order, Placed, TypeOK, Goto, Steps
<1>6. CASE Record(a)
  <2>1. kid[a] \in ChildIds /\ children[kid[a]] \in Child
    BY <1>6 DEF Record, Placed, TypeOK
  <2>2. [children[kid[a]] EXCEPT !.status = "pending", !.by = NoOwner] \in Child
    BY <2>1 DEF Child, ChildStatus, RowStatus
  <2>3. children' \in [ChildIds -> Child]
    BY <1>6, <2>1, <2>2 DEF Record, TypeOK
  <2> QED
    BY <1>6, <2>3 DEF Record, Placed, TypeOK, Goto, Steps
<1>7. CASE OrderFails(a)
  <2>1. children' \in [ChildIds -> Child]
    BY <1>7, AcceptedOne DEF OrderFails, Placed, TypeOK
  <2> QED
    BY <1>7, <2>1 DEF OrderFails, Placed, TypeOK, Goto, Steps, local
<1>8. CASE Assign(a)
  <2> DEFINE old == Holds(a, view[a])
             now == Holds(a, plan)
  <2>1. /\ at[a] \in Chunks
        /\ mode[a] = "retry" => plan.slots[at[a]].child # NoChild
    BY <1>8 DEF Assign, Placed
  <2>2. /\ at' \in [Actors -> 1..(NChunks + 1)]
        /\ kid' \in [Actors -> ChildIds \cup {NoChild}]
        /\ pc' \in [Actors -> Steps]
        /\ pc'[a] \in {"reserve", "see", "refill"}
        /\ \A b \in Actors \ {a} : pc'[b] = pc[b] /\ at'[b] = at[b] /\ kid'[b] = kid[b]
    BY <1>0, <1>8, <1>a, <2>1 DEF Assign, NextRound, Goto, Steps
  <2>3. row' = row /\ children' = children /\ mode' = mode /\ seen' = seen
    BY <1>8 DEF Assign
  <2>4. CASE CasAborts(a, old, now)
    <3>1. TypeOK' /\ KeepsChildren
      BY <2>2, <2>3, <2>4, AbortType DEF TypeOK, KeepsChildren
    <3> QED
      BY <2>2, <2>3, <3>1, PlacedKept
  <2>5. CASE CasCommits(a, old, now, Assigned(a)) /\ expired' = expired \ {at[a]}
    <3>1. TypeOK'
      BY <2>1, <2>2, <2>3, <2>5, AssignedPlan, CommitType DEF TypeOK
    <3>2. kid[a] # NoChild
      BY <1>8, PlanAssumption DEF Assign, Placed, ChildIds, NoChild
    <3>3. KeepsChildren
      BY <2>1, <2>5, <3>2, AssignedPlan, CommitType DEF KeepsChildren
    <3> QED
      BY <2>2, <2>3, <3>1, <3>3, PlacedKept
  <2> QED
    BY <1>8, <2>4, <2>5 DEF Assign
<1>9. CASE Release(a)
  <2> DEFINE old == Holds(a, view[a])
             now == Holds(a, plan)
  <2>1. at[a] \in Chunks /\ pc' = [pc EXCEPT ![a] = "fail"]
    BY <1>9 DEF Release, Placed, Goto
  <2>2. row' = row /\ children' = children /\ UNCHANGED <<mode, seen, at, kid>>
    BY <1>9 DEF Release
  <2>3. CASE CasAborts(a, old, now)
    <3>1. TypeOK' /\ KeepsChildren
      BY <2>1, <2>2, <2>3, AbortType DEF TypeOK, KeepsChildren, Steps
    <3> QED
      BY <1>a, <2>1, <2>2, <3>1, PlacedKept
  <2>4. CASE /\ CasCommits(a, old, now, Reserved(plan, at[a], NoOwner))
             /\ expired' = expired \ {at[a]}
    <3>1. plan' = Reserved(plan, at[a], NoOwner)
      BY <2>4 DEF CasCommits
    <3>2. TypeOK'
      BY <2>1, <2>2, <2>4, ReservedPlan, CommitType DEF TypeOK, Steps
    <3>3. KeepsChildren
      BY <2>1, <3>1, ReservedKeeps
    <3> QED
      BY <1>a, <2>1, <2>2, <3>2, <3>3, PlacedKept
  <2> QED
    BY <1>9, <2>3, <2>4 DEF Release
<1>10. CASE FailParent(a)
  BY <1>10 DEF FailParent, SetRowIfPending, RowStatus, Placed, TypeOK, Goto, Steps, local
<1> QED
  BY <1>1, <1>2, <1>3, <1>4, <1>5, <1>6, <1>7, <1>8, <1>9, <1>10 DEF OrderStep

\* Polling: the retry pass, the sweeps and the verdict.
LEMMA TPoll ==
    ASSUME TInv, NEW a \in Actors, PollStep(a)
    PROVE  TInv'
<1> USE DEF TInv, AtSlot
<1>0. NChunks \in Nat /\ Chunks = 1..NChunks
  BY PlanAssumption DEF Chunks
<1>a. /\ pc \in [Actors -> Steps] /\ mode \in [Actors -> Modes]
      /\ at \in [Actors -> 1..(NChunks + 1)] /\ plan \in Plan
      /\ kid \in [Actors -> ChildIds \cup {NoChild}] /\ view[a] \in Plan
  BY DEF TypeOK
<1>b. \A p : StatusMap(p) \in [ChildIds -> SeenStatus]
  BY StatusMapTrue
<1>1. CASE StartPoll(a)
  BY <1>1, <1>a DEF StartPoll, FirstStep, Placed, TypeOK, Goto, Steps, Modes
<1>2. CASE PollDelivered(a)
  BY <1>2 DEF PollDelivered, Placed, TypeOK, vars
<1>3. CASE See(a)
  BY <1>3, <1>b DEF See, Placed, TypeOK, Goto, Steps
<1>4. CASE Scan(a)
  <2> DEFINE failed == {d \in Submitted(view[a]) :
                          d >= at[a] /\ seen[a][view[a].slots[d].child] = "failed"}
             c == First(failed)
  <2>1. failed # {} => /\ c \in Chunks /\ c \in 1..(NChunks + 1) /\ c + 1 \in 1..(NChunks + 1)
    <3>1. failed \in SUBSET Nat /\ failed \in SUBSET Chunks
      BY <1>0 DEF Submitted
    <3>2. failed # {} => First(failed) \in failed
      BY <3>1, FirstLeast
    <3>3. failed # {} => c \in Chunks
      BY <3>1, <3>2
    <3> HIDE DEF failed, c
    <3> QED
      BY <1>0, <3>3
  <2>2. /\ \/ pc' = pc /\ failed # {} /\ at' = [at EXCEPT ![a] = c + 1]
           \/ pc' = [pc EXCEPT ![a] = "refill"] /\ at' = at
           \/ \E step \in {"decline", "mark", "claim"} :
                 /\ failed # {}
                 /\ pc' = [pc EXCEPT ![a] = step] /\ at' = [at EXCEPT ![a] = c]
        /\ pc[a] = "scan"
        /\ UNCHANGED <<row, plan, children, expired, mode, view, seen, kid>>
    BY <1>4 DEF Scan, Goto
  <2> HIDE DEF failed, c
  <2>3. /\ TypeOK'
        /\ \A b \in Actors \ {a} : pc'[b] = pc[b] /\ at'[b] = at[b]
        /\ pc'[a] \in AtSlot => at'[a] \in Chunks
        /\ pc'[a] \in {"scan", "refill", "decline", "mark", "claim"}
    BY <1>a, <2>1, <2>2 DEF TypeOK, Steps
  <2>4. KeepsChildren
    BY <2>2 DEF KeepsChildren
  <2> QED
    BY <2>2, <2>3, <2>4, PlacedKept
<1>5. CASE Decline(a)
  <2> DEFINE new == Masking(plan, at[a], FALSE)
  <2>1. at[a] \in Chunks /\ pc' = [pc EXCEPT ![a] = "refill"]
        /\ UNCHANGED <<row, children, mode, seen, at, kid>>
    BY <1>5 DEF Decline, Placed, Goto
  <2>2. new \in Plan /\ \A d \in Chunks : new.slots[d].child = plan.slots[d].child
    BY <1>a, <2>1, MaskedPlan
  <2>3. /\ plan' \in {plan, new} /\ expired' = expired
        /\ \E p \in {view[a], plan, new} : view' = [view EXCEPT ![a] = p]
    BY <1>5 DEF Decline, Masking, CasAborts, CasCommits
  <2> HIDE DEF new
  <2>4. TypeOK' /\ KeepsChildren
    BY <1>a, <2>1, <2>2, <2>3 DEF TypeOK, KeepsChildren, Steps
  <2> QED
    BY <1>a, <2>1, <2>4, PlacedKept
<1>6. CASE Mark(a)
  <2> DEFINE new == Masking(plan, at[a], TRUE)
  <2>1. at[a] \in Chunks /\ pc' = [pc EXCEPT ![a] = "scan"]
        /\ UNCHANGED <<row, children, mode, seen, at, kid>>
    BY <1>6 DEF Mark, Placed, Goto
  <2>2. new \in Plan /\ \A d \in Chunks : new.slots[d].child = plan.slots[d].child
    BY <1>a, <2>1, MaskedPlan
  <2>3. /\ plan' \in {plan, new} /\ expired' = expired
        /\ \E p \in {view[a], plan, new} : view' = [view EXCEPT ![a] = p]
    BY <1>6 DEF Mark, Masking, CasAborts, CasCommits
  <2> HIDE DEF new
  <2>4. TypeOK' /\ KeepsChildren
    BY <1>a, <2>1, <2>2, <2>3 DEF TypeOK, KeepsChildren, Steps
  <2> QED
    BY <1>a, <2>1, <2>4, PlacedKept
<1>7. CASE Claim(a)
  <2> DEFINE old == CanClaim(a, view[a])
             now == CanClaim(a, plan)
  <2>1. at[a] \in Chunks /\ at[a] + 1 \in 1..(NChunks + 1)
        /\ UNCHANGED <<row, children, mode, seen, kid>>
    BY <1>0, <1>7 DEF Claim, Placed
  <2>2. CASE /\ CasAborts(a, old, now)
             /\ \/ Goto(a, "refill") /\ UNCHANGED at
                \/ Goto(a, "scan") /\ at' = [at EXCEPT ![a] = at[a] + 1]
    <3> HIDE DEF old, now
    <3>1. TypeOK' /\ KeepsChildren
      BY <2>1, <2>2, AbortType DEF TypeOK, KeepsChildren, Goto, Steps
    <3> QED
      BY <1>a, <2>1, <2>2, <3>1, PlacedKept DEF Goto
  <2>3. CASE /\ CasCommits(a, old, now, Reserved(plan, at[a], a))
             /\ expired' = expired \ {at[a]} /\ Goto(a, "submit") /\ UNCHANGED at
    <3>1. plan.slots[at[a]].child # NoChild
      BY <2>3 DEF CasCommits, CanClaim, SameChild
    <3> HIDE DEF old, now
    <3>2. plan' = Reserved(plan, at[a], a)
      BY <2>3 DEF CasCommits
    <3>3. TypeOK'
      BY <1>a, <2>1, <2>3, ReservedPlan, CommitType DEF TypeOK, Goto, Steps
    <3>4. KeepsChildren /\ plan'.slots[at[a]].child # NoChild
      BY <2>1, <3>1, <3>2, ReservedKeeps
    <3> QED
      BY <1>a, <2>1, <2>3, <3>3, <3>4, PlacedKept DEF Goto
  <2> QED
    BY <1>7, <2>2, <2>3 DEF Claim
<1>8. CASE SweepForRefill(a)
  <2>1. 1 \in 1..(NChunks + 1)
    BY <1>0
  <2> QED
    BY <1>8, <1>b, <2>1 DEF SweepForRefill, Placed, TypeOK, Goto, Steps, Modes
<1>9. CASE Settle(a)
  <2>1. CASE row = "successful"
    BY <1>9, <2>1, ForgetType DEF Settle, Placed, TypeOK, Goto, Steps, Forget
  <2>2. CASE row # "successful"
    <3>1. /\ view' = [view EXCEPT ![a] = plan] /\ seen' = [seen EXCEPT ![a] = StatusMap(plan)]
          /\ pc' = [pc EXCEPT ![a] = IF row = "pending" THEN "write" ELSE "sweep"]
          /\ UNCHANGED <<mode, at, kid, row, plan, children, expired>>
      BY <1>9, <2>2 DEF Settle, Goto
    <3>2. TypeOK'
      BY <1>a, <1>b, <3>1 DEF TypeOK, Steps
    <3> QED
      BY <1>a, <3>1, <3>2 DEF Placed
  <2> QED
    BY <2>1, <2>2
<1>10. CASE Write(a)
  <2>1. row' \in RowStatus /\ UNCHANGED <<plan, children, expired>> /\ pc[a] = "write"
    BY <1>10 DEF Write, SetRowIfPending, TypeOK, RowStatus, Terminal
  <2>2. CASE view' = [view EXCEPT ![a] = plan] /\ Goto(a, "sweep")
             /\ UNCHANGED <<mode, seen, at, kid>>
    BY <2>1, <2>2 DEF Placed, TypeOK, Goto, Steps
  <2>3. CASE Goto(a, "idle") /\ Forget(a)
    BY <2>1, <2>3, ForgetType DEF Placed, TypeOK, Goto, Steps, Forget
  <2>4. CASE Goto(a, "look") /\ UNCHANGED local
    BY <2>1, <2>4 DEF Placed, TypeOK, Goto, Steps, local
  <2> QED
    BY <1>10, <2>2, <2>3, <2>4 DEF Write
<1>11. CASE Look(a)
  <2>1. UNCHANGED <<row, plan, children, expired>> /\ pc[a] = "look"
    BY <1>11 DEF Look
  <2>2. CASE Goto(a, "sweep") /\ UNCHANGED local
    BY <2>1, <2>2 DEF Placed, TypeOK, Goto, Steps, local
  <2>3. CASE Goto(a, "idle") /\ Forget(a)
    BY <2>1, <2>3, ForgetType DEF Placed, TypeOK, Goto, Steps, Forget
  <2> QED
    BY <1>11, <2>2, <2>3 DEF Look
<1>12. CASE Cleanup(a)
  BY <1>12, ForgetType, CancelRowsType DEF Cleanup, Placed, TypeOK, Goto, Steps, Forget
<1> QED
  BY <1>1, <1>2, <1>3, <1>4, <1>5, <1>6, <1>7, <1>8, <1>9, <1>10, <1>11, <1>12 DEF PollStep

\* Cancelling, a failing wave, and what happens outside.
LEMMA TStop ==
    ASSUME TInv, NEW a \in Actors, NEW from \in Steps, NEW to \in Steps \ AtSlot,
           MarkStopped(a, from, to)
    PROVE  TInv'
<1>1. plan \in Plan
  BY DEF TInv, TypeOK
<1> DEFINE new == [plan EXCEPT !.stopped = TRUE]
<1>2. new \in Plan /\ new.slots = plan.slots
  BY <1>1, StoppedPlan
<1>3. CasCommits(a, TRUE, TRUE, new) /\ Goto(a, to)
      /\ UNCHANGED <<row, children, expired, mode, seen, at, kid>>
  BY DEF MarkStopped
<1> HIDE DEF new
<1>4. TypeOK' /\ KeepsChildren
  BY <1>2, <1>3, CommitType DEF TInv, TypeOK, KeepsChildren, Goto
<1> QED
  BY <1>3, <1>4, PlacedKept DEF TInv, TypeOK, Goto, AtSlot

LEMMA TCancel ==
    ASSUME TInv, NEW a \in Actors, CancelStep(a)
    PROVE  TInv'
<1> USE DEF TInv
<1>1. CASE StartCancel(a)
  BY <1>1 DEF StartCancel, Placed, AtSlot, TypeOK, Goto, Steps
<1>2. CASE MarkStopped(a, "stop", "kids")
  BY <1>2, TStop DEF Steps, AtSlot
<1>3. CASE CancelChildren(a)
  BY <1>3, CancelRowsType DEF CancelChildren, Placed, AtSlot, TypeOK, Goto, Steps, local
<1>4. CASE FinishCancel(a)
  BY <1>4, ForgetType DEF FinishCancel, SetRowIfPending, RowStatus, Placed, AtSlot, TypeOK,
     Goto, Steps, Forget
<1> QED
  BY <1>1, <1>2, <1>3, <1>4 DEF CancelStep

LEMMA TAbort ==
    ASSUME TInv, NEW a \in Actors, AbortStep(a)
    PROVE  TInv'
<1> USE DEF TInv
<1>1. CASE WaveCancelled(a)
  <2>1. children' \in [ChildIds -> Child]
    BY <1>1, AcceptedOne DEF WaveCancelled, Placed, AtSlot, TypeOK
  <2>2. /\ kid' \in [Actors -> ChildIds \cup {NoChild}]
        /\ \A b \in Actors \ {a} : kid'[b] = kid[b]
    BY <1>1 DEF WaveCancelled, TypeOK
  <2> QED
    BY <1>1, <2>1, <2>2 DEF WaveCancelled, Placed, AtSlot, TypeOK, Goto, Steps
<1>2. CASE AbortRow(a)
  BY <1>2 DEF AbortRow, Placed, AtSlot, TypeOK, RowStatus, Goto, Steps, local
<1>3. CASE MarkStopped(a, "abort_stop", "abort_kids")
  BY <1>3, TStop DEF Steps, AtSlot
<1>4. CASE AbortChildren(a)
  BY <1>4, ForgetType, CancelRowsType
     DEF AbortChildren, Placed, AtSlot, TypeOK, Goto, Steps, Forget
<1> QED
  BY <1>1, <1>2, <1>3, <1>4 DEF AbortStep

LEMMA TWorld ==
    ASSUME TInv,
           \/ \E k \in ChildIds, o \in Outcomes : ChildEnds(k, o)
           \/ \E c \in Chunks : Expire(c)
           \/ \E a \in Actors : Crash(a)
    PROVE  TInv'
<1> USE DEF TInv
<1>1. ASSUME NEW k \in ChildIds, NEW o \in Outcomes, ChildEnds(k, o) PROVE TInv'
  <2>1. PICK s \in {"successful", "failed", "cancelled"}, x \in Class :
           children' = [children EXCEPT ![k] = [@ EXCEPT !.status = s, !.class = x]]
    <3>1. /\ (CASE o = "ok" -> "successful" [] o = "dismissed" -> "cancelled"
              [] OTHER -> "failed") \in {"successful", "failed", "cancelled"}
          /\ (CASE o = "bad" -> "content" [] o = "rejected" -> "capacity"
              [] o = "empty" -> IF SiblingSucceeded(k) THEN "capacity" ELSE "unknown"
              [] OTHER -> "none") \in Class
      BY DEF Class
    <3> QED
      BY <1>1, <3>1 DEF ChildEnds
  <2>2. UNCHANGED <<row, plan, expired, pc, local>>
    BY <1>1 DEF ChildEnds
  <2> QED
    BY <2>1, <2>2 DEF Placed, TypeOK, Child, ChildStatus, RowStatus, local
<1>2. ASSUME NEW c \in Chunks, Expire(c) PROVE TInv'
  BY <1>2 DEF Expire, Placed, TypeOK, local
<1>3. ASSUME NEW a \in Actors, Crash(a) PROVE TInv'
  BY <1>3, ForgetType DEF Crash, Placed, AtSlot, TypeOK, Goto, Steps, Forget
<1> QED
  BY <1>1, <1>2, <1>3

LEMMA TStep == TInv /\ [Next]_vars => TInv'
<1> SUFFICES ASSUME TInv, [Next]_vars PROVE TInv'
  OBVIOUS
<1>1. CASE UNCHANGED vars
  BY <1>1 DEF TInv, TypeOK, Placed, vars
<1> QED
  BY <1>1, TOrder, TPoll, TCancel, TAbort, TWorld DEF Next

\* Every actor keeps to the steps, slots and children it can have, whatever the
\* interleaving (all of the chunked parent's code).
THEOREM TypeCorrect == Spec \/ PollersSpec => []TypeOK
<1>1. Init \/ PollersInit => TInv
  BY TInit DEF Init, PollersInit
<1>2. TInv => TypeOK
  BY DEF TInv
<1> QED
  BY <1>1, <1>2, TStep, PTL DEF Spec, PollersSpec

-----------------------------------------------------------------------------
(* Success.  A verdict is computed from a plan and a sweep that may be     *)
(* stale; it can be trusted because what an actor believes about a child   *)
(* that has ended stays true, and a slot whose child has not failed keeps  *)
(* that child.                                                             *)

\* A child that some actor saw end ended that way.
SeenTrue == \A a \in Actors, k \in ChildIds :
    seen[a][k] \in Terminal => children[k].status = seen[a][k]

\* A child in an actor's plan that has not failed is in the committed plan.
ViewTrue == \A a \in Actors, c \in Chunks :
    LET k == view[a].slots[c].child
    IN  k # NoChild /\ children[k].status # "failed" => plan.slots[c].child = k

\* A child about to be recorded was ordered by that actor alone.
RecordsItsOwn == \A a \in Actors : pc[a] = "record" =>
    /\ children[kid[a]].status = "ordered"
    /\ \A b \in Actors \ {a} : pc[b] = "record" => kid[b] # kid[a]

SInv == /\ TInv /\ SeenTrue /\ ViewTrue /\ RecordsItsOwn
        /\ ReservesOnlyWhatIsMissing /\ SuccessIsComplete

(* What one step can do.  A slot is untouched but for its owner being      *)
(* dropped, or reserved where a child is missing in a plan that is not     *)
(* stopped, or given a child by the owner of its reservation.              *)

SlotEffect(c) ==
    LET s == plan.slots[c]
        t == plan'.slots[c]
    IN  \/ t.child = s.child /\ t.owner \in {s.owner, NoOwner}
        \/ /\ t.child = s.child /\ t.owner # NoOwner /\ ~plan.stopped
           /\ s.child # NoChild => children[s.child].status = "failed"
        \/ s.owner # NoOwner /\ t.owner = NoOwner

PlanEffect == /\ \A c \in Chunks : SlotEffect(c)
              /\ plan.stopped => plan'.stopped

ChildrenEffect == \A k \in ChildIds :
    children[k].status \in Terminal => children'[k].status = children[k].status

ViewEffect == \A a \in Actors : view'[a] \in {view[a], plan', EmptyPlan}

SeenEffect == \A a \in Actors : \/ seen'[a] = seen[a] \/ seen'[a] = Unseen
                                \/ \E p \in Plan : seen'[a] = StatusMap(p)

RowEffect == row' = "successful" =>
    row = "successful" \/ \E a \in Actors : ParentStatus(view[a], seen[a]) = "successful"

Effect == /\ PlanEffect /\ ChildrenEffect /\ ViewEffect /\ SeenEffect /\ RowEffect
          /\ RecordsItsOwn'

LEMMA SamePlan == ASSUME plan' = plan PROVE PlanEffect
BY DEF PlanEffect, SlotEffect

LEMMA ReservePlan ==
    ASSUME TypeOK, NEW c \in Chunks, NEW a \in Actors, plan' = Reserved(plan, c, a),
           ~plan.stopped,
           plan.slots[c].child # NoChild => children[plan.slots[c].child].status = "failed"
    PROVE  PlanEffect
<1>1. /\ plan'.slots[c].owner = a /\ plan'.slots[c].child = plan.slots[c].child
      /\ \A d \in Chunks : d # c => plan'.slots[d] = plan.slots[d]
  BY ReservedPlan DEF TypeOK
<1>2. a # NoOwner
  BY PlanAssumption
<1>3. SlotEffect(c)
  BY <1>1, <1>2 DEF SlotEffect
<1>4. ASSUME NEW d \in Chunks \ {c} PROVE SlotEffect(d)
  BY <1>1 DEF SlotEffect
<1> QED
  BY <1>3, <1>4 DEF PlanEffect

LEMMA FreePlan ==
    ASSUME TypeOK, NEW c \in Chunks, plan' = Reserved(plan, c, NoOwner)
    PROVE  PlanEffect
<1>1. /\ plan'.slots[c].owner = NoOwner /\ plan'.slots[c].child = plan.slots[c].child
      /\ \A d \in Chunks : d # c => plan'.slots[d] = plan.slots[d]
      /\ plan'.stopped = plan.stopped
  BY ReservedPlan DEF TypeOK
<1>2. SlotEffect(c)
  BY <1>1 DEF SlotEffect
<1>3. ASSUME NEW d \in Chunks \ {c} PROVE SlotEffect(d)
  BY <1>1 DEF SlotEffect
<1> QED
  BY <1>1, <1>2, <1>3 DEF PlanEffect

LEMMA AssignPlan ==
    ASSUME TypeOK, NEW a \in Actors, at[a] \in Chunks, plan' = Assigned(a),
           mode[a] = "retry" => plan.slots[at[a]].child # NoChild,
           plan.slots[at[a]].owner = a
    PROVE  PlanEffect
<1>1. /\ plan'.slots[at[a]].owner = NoOwner
      /\ \A d \in Chunks : d # at[a] => plan'.slots[d] = plan.slots[d]
      /\ plan'.stopped = plan.stopped
  BY AssignedPlan
<1>2. a # NoOwner
  BY PlanAssumption
<1>3. SlotEffect(at[a])
  BY <1>1, <1>2 DEF SlotEffect
<1>4. ASSUME NEW d \in Chunks \ {at[a]} PROVE SlotEffect(d)
  BY <1>1 DEF SlotEffect
<1> QED
  BY <1>1, <1>3, <1>4 DEF PlanEffect

\* Nobody but the actor that steps can come to record a child.
LEMMA RecordsKept ==
    ASSUME RecordsItsOwn, TypeOK, Placed, NEW a \in Actors,
           \A b \in Actors \ {a} : pc'[b] = pc[b] /\ kid'[b] = kid[b],
           pc'[a] # "record",
           \A b \in Actors : pc'[b] = "record"
              => children'[kid[b]].status = children[kid[b]].status
    PROVE  RecordsItsOwn'
BY DEF RecordsItsOwn

\* Whatever has these effects keeps success complete.
LEMMA EffectKeeps == ASSUME SInv, TInv', Effect PROVE SInv'
<1> USE DEF SInv, TInv, Effect
<1>1. SeenTrue'
  <2> SUFFICES ASSUME NEW a \in Actors, NEW k \in ChildIds, seen'[a][k] \in Terminal
               PROVE  children'[k].status = seen'[a][k]
    BY DEF SeenTrue
  <2>1. CASE seen'[a] = seen[a]
    BY <2>1 DEF SeenTrue, ChildrenEffect
  <2>2. CASE seen'[a] = Unseen
    BY <2>2 DEF Unseen, Terminal
  <2>3. CASE \E p \in Plan : seen'[a] = StatusMap(p)
    BY <2>3, StatusMapTrue DEF ChildrenEffect
  <2> QED
    BY <2>1, <2>2, <2>3 DEF SeenEffect
<1>2. ReservesOnlyWhatIsMissing'
  <2> SUFFICES ASSUME NEW c \in Chunks, plan'.slots[c].owner # NoOwner,
                      plan'.slots[c].child # NoChild
               PROVE  children'[plan'.slots[c].child].status = "failed"
    BY DEF ReservesOnlyWhatIsMissing
  <2>1. plan'.slots[c].child \in ChildIds
    BY DEF TypeOK, Plan, Slot
  <2>2. children[plan'.slots[c].child].status = "failed"
    BY DEF PlanEffect, SlotEffect, ReservesOnlyWhatIsMissing
  <2> QED
    BY <2>1, <2>2 DEF ChildrenEffect, Terminal
<1>3. ViewTrue'
  <2> SUFFICES ASSUME NEW a \in Actors, NEW c \in Chunks,
                      view'[a].slots[c].child # NoChild,
                      children'[view'[a].slots[c].child].status # "failed"
               PROVE  plan'.slots[c].child = view'[a].slots[c].child
    BY DEF ViewTrue
  <2>1. CASE view'[a] = plan'
    BY <2>1
  <2>2. CASE view'[a] = EmptyPlan
    BY <2>2 DEF EmptyPlan, EmptySlot
  <2>3. CASE view'[a] = view[a]
    <3> DEFINE k == view[a].slots[c].child
    <3>1. k \in ChildIds /\ k # NoChild
      BY <2>3 DEF TypeOK, Plan, Slot
    <3>2. children[k].status # "failed"
      BY <2>3, <3>1 DEF ChildrenEffect, Terminal
    <3>3. plan.slots[c].child = k
      BY <3>1, <3>2 DEF ViewTrue
    <3>4. plan.slots[c].owner = NoOwner
      BY <3>1, <3>2, <3>3 DEF ReservesOnlyWhatIsMissing
    <3> QED
      BY <2>3, <3>3, <3>4 DEF PlanEffect, SlotEffect
  <2> QED
    BY <2>1, <2>2, <2>3 DEF ViewEffect
<1>4. SuccessIsComplete'
  <2> SUFFICES ASSUME row' = "successful", NEW c \in Chunks
               PROVE  /\ plan'.slots[c].child # NoChild
                      /\ children'[plan'.slots[c].child].status = "successful"
    BY DEF SuccessIsComplete
  <2>1. /\ plan.slots[c].child # NoChild
        /\ children[plan.slots[c].child].status = "successful"
    <3>1. CASE row = "successful"
      BY <3>1 DEF SuccessIsComplete
    <3>2. CASE \E a \in Actors : ParentStatus(view[a], seen[a]) = "successful"
      <4>1. PICK a \in Actors : ParentStatus(view[a], seen[a]) = "successful"
        BY <3>2
      <4> DEFINE k == view[a].slots[c].child
      <4>2. k # NoChild /\ MaskedStatus(view[a], seen[a], c) = "successful"
        BY <4>1 DEF ParentStatus
      <4>3. k \in ChildIds
        BY <4>2 DEF TypeOK, Plan, Slot
      <4>4. seen[a][k] = "successful"
        BY <4>2 DEF MaskedStatus
      <4>5. children[k].status = "successful"
        BY <4>3, <4>4 DEF SeenTrue, Terminal
      <4>6. plan.slots[c].child = k
        BY <4>2, <4>5 DEF ViewTrue
      <4> QED
        BY <4>2, <4>5, <4>6
    <3> QED
      BY <3>1, <3>2 DEF RowEffect
  <2>2. plan.slots[c].child \in ChildIds
    BY <2>1 DEF TypeOK, Plan, Slot
  <2>3. plan.slots[c].owner = NoOwner
    BY <2>1 DEF ReservesOnlyWhatIsMissing
  <2>4. plan'.slots[c].child = plan.slots[c].child
    BY <2>1, <2>3 DEF PlanEffect, SlotEffect
  <2> QED
    BY <2>1, <2>2, <2>4 DEF ChildrenEffect, Terminal
<1> QED
  BY <1>1, <1>2, <1>3, <1>4

\* A write to the plan leaves the actor with its old plan or the committed one.
LEMMA CasView ==
    ASSUME TypeOK, NEW a \in Actors, NEW old, NEW now, NEW new,
           CasAborts(a, old, now) \/ CasCommits(a, old, now, new)
    PROVE  ViewEffect
BY DEF CasAborts, CasCommits, ViewEffect, TypeOK

\* An actor that is done forgets what it saw.
LEMMA ForgetEffect ==
    ASSUME TypeOK, NEW a \in Actors, Forget(a)
    PROVE  /\ ViewEffect /\ SeenEffect
           /\ \A b \in Actors \ {a} : kid'[b] = kid[b]
BY DEF Forget, ViewEffect, SeenEffect, TypeOK

LEMMA CancelRowsEffect ==
    ASSUME TypeOK, NEW ks, CancelRows(ks)
    PROVE  /\ ChildrenEffect
           /\ \A k \in ChildIds : children[k].status = "ordered" => children'[k] = children[k]
BY CancelRowsType DEF ChildrenEffect, Terminal

LEMMA SameChildren ==
    ASSUME children' = children, RecordsItsOwn, NEW a \in Actors, pc'[a] # "record",
           \A b \in Actors \ {a} : pc'[b] = pc[b] /\ kid'[b] = kid[b]
    PROVE  ChildrenEffect /\ RecordsItsOwn'
BY DEF ChildrenEffect, RecordsItsOwn

\* A job that CDS accepts disturbs no other child, whoever learns of it.
LEMMA AcceptedEffect ==
    ASSUME TypeOK, NEW a \in Actors, at[a] \in Chunks, Accepted(a)
    PROVE  /\ ChildrenEffect
           /\ \A k \in ChildIds : children[k].status = "ordered" => children'[k] = children[k]
<1>1. ASSUME NEW k \in ChildIds, children[k].status # "none" PROVE children'[k] = children[k]
  BY <1>1, AcceptedOne
<1> QED
  BY <1>1 DEF ChildrenEffect, Terminal

LEMMA LostChild ==
    ASSUME TInv, RecordsItsOwn, NEW a \in Actors, at[a] \in Chunks,
           UNCHANGED children \/ Accepted(a), pc'[a] # "record",
           \A b \in Actors \ {a} : pc'[b] = pc[b] /\ kid'[b] = kid[b]
    PROVE  ChildrenEffect /\ RecordsItsOwn'
<1>1. CASE UNCHANGED children
  BY <1>1, SameChildren
<1>2. CASE Accepted(a)
  <2>1. ASSUME NEW b \in Actors \ {a}, pc'[b] = "record"
        PROVE  children'[kid'[b]] = children[kid[b]]
    BY <1>2, <2>1, AcceptedEffect DEF TInv, Placed, RecordsItsOwn
  <2> QED
    BY <1>2, <2>1, AcceptedEffect DEF TInv, RecordsItsOwn
<1> QED
  BY <1>1, <1>2

LEMMA EOrder ==
    ASSUME SInv, NEW a \in Actors, OrderStep(a)
    PROVE  Effect
<1> USE DEF SInv, TInv, Effect
<1>a. /\ pc \in [Actors -> Steps] /\ kid \in [Actors -> ChildIds \cup {NoChild}]
      /\ plan \in Plan /\ at \in [Actors -> 1..(NChunks + 1)]
  BY DEF TypeOK
<1>0. Chunks \in SUBSET Nat /\ ChildIds \in SUBSET Nat /\ NChunks \in Nat
  BY PlanAssumption DEF Chunks, ChildIds
<1>1. CASE ReserveWave(a)
  <2> DEFINE old == CanReserve(view[a], at[a])
             now == CanReserve(plan, at[a])
             new == Reserved(plan, at[a], a)
  <2>0. at[a] \in Chunks
    BY <1>0, <1>1, <1>a, PlanAssumption DEF ReserveWave, WaveSlots, Chunks
  <2>1. /\ at[a] \in Chunks /\ pc'[a] \in {"reserve", "submit"}
        /\ \A b \in Actors \ {a} : pc'[b] = pc[b]
        /\ UNCHANGED <<row, children, seen, kid>>
    BY <1>1, <1>a, <2>0 DEF ReserveWave, Goto
  <2>2. CasAborts(a, old, now) \/ CasCommits(a, old, now, new)
    BY <1>1 DEF ReserveWave
  <2>3. PlanEffect
    <3>1. CASE CasAborts(a, old, now)
      BY <3>1, SamePlan DEF CasAborts
    <3>2. CASE CasCommits(a, old, now, new)
      <4>1. plan' = new /\ ~plan.stopped /\ plan.slots[at[a]].child = NoChild
        BY <3>2 DEF CasCommits, CanReserve, Orderable
      <4> QED
        BY <2>1, <4>1, ReservePlan
    <3> QED
      BY <2>2, <3>1, <3>2
  <2> HIDE DEF old, now, new
  <2> QED
    BY <2>1, <2>2, <2>3, CasView, SameChildren DEF SeenEffect, RowEffect
<1>2. CASE WaveDone(a)
  BY <1>2, <1>a, ForgetEffect, SamePlan, SameChildren DEF WaveDone, Goto, RowEffect
<1>3. CASE ReserveRefill(a)
  <2> DEFINE old == CanRefill(view[a], seen[a])
             now == CanRefill(plan, seen[a])
             c   == First(Orderable(plan, expired))
             new == Reserved(plan, c, a)
  <2>1. /\ pc'[a] \in {"settle", "submit"}
        /\ \A b \in Actors \ {a} : pc'[b] = pc[b]
        /\ UNCHANGED <<row, children, seen, kid>>
    BY <1>3, <1>a DEF ReserveRefill, Goto
  <2>2. CasAborts(a, old, now) \/ CasCommits(a, old, now, new)
    BY <1>3 DEF ReserveRefill
  <2>3. PlanEffect
    <3>1. CASE CasAborts(a, old, now)
      BY <3>1, SamePlan DEF CasAborts
    <3>2. CASE CasCommits(a, old, now, new)
      <4>1. plan' = new /\ ~plan.stopped /\ Orderable(plan, expired) # {}
        BY <3>2 DEF CasCommits, CanRefill
      <4>2. Orderable(plan, expired) \in SUBSET Nat
        BY <1>0 DEF Orderable
      <4>3. c \in Orderable(plan, expired)
        BY <4>1, <4>2, FirstLeast
      <4>4. c \in Chunks /\ plan.slots[c].child = NoChild
        BY <4>3 DEF Orderable
      <4> HIDE DEF c
      <4> QED
        BY <4>1, <4>4, ReservePlan
    <3> QED
      BY <2>2, <3>1, <3>2
  <2> HIDE DEF old, now, new
  <2> QED
    BY <2>1, <2>2, <2>3, CasView, SameChildren DEF SeenEffect, RowEffect
<1>4. CASE Adopt(a)
  BY <1>4, <1>a, SamePlan, SameChildren DEF Adopt, Goto, ViewEffect, SeenEffect, RowEffect
<1>5. CASE Order(a)
  <2> DEFINE k == First(Unused)
  <2>0. at[a] \in Chunks /\ Accepted(a)
    BY <1>5 DEF Order, Placed, AtSlot
  <2>a. /\ k \in ChildIds /\ children[k].status = "none"
        /\ children'[k] = [chunk |-> at[a], status |-> "ordered", class |-> "none", by |-> a]
        /\ \A j \in ChildIds \ {k} : children'[j] = children[j]
    BY <2>0, AcceptedOne
  <2>1. k \in ChildIds /\ children[k].status = "none" /\ children'[k].status = "ordered"
        /\ \A j \in ChildIds \ {k} : children'[j] = children[j]
    BY <2>a
  <2>2. /\ kid' = [kid EXCEPT ![a] = k] /\ pc' = [pc EXCEPT ![a] = "record"]
        /\ UNCHANGED <<row, plan, view, seen>>
    BY <1>5 DEF Order, Goto
  <2> HIDE DEF k
  <2>3. ChildrenEffect
    BY <2>0, AcceptedEffect
  <2>4. RecordsItsOwn'
    <3>2. \A b \in Actors \ {a} : pc[b] = "record" => kid[b] \in ChildIds /\ kid[b] # k
      BY <2>1 DEF RecordsItsOwn, Placed
    <3>3. kid'[a] = k /\ \A b \in Actors \ {a} : kid'[b] = kid[b] /\ pc'[b] = pc[b]
      BY <1>a, <2>2
    <3> QED
      BY <2>1, <3>2, <3>3 DEF RecordsItsOwn
  <2> QED
    BY <2>2, <2>3, <2>4, SamePlan DEF ViewEffect, SeenEffect, RowEffect
<1>6. CASE Record(a)
  <2>1. kid[a] \in ChildIds /\ children[kid[a]].status = "ordered"
    BY <1>6 DEF Record, Placed, RecordsItsOwn
  <2>2. /\ children' = [children EXCEPT ![kid[a]].status = "pending",
                                               ![kid[a]].by = NoOwner]
        /\ pc' = [pc EXCEPT ![a] = "assign"] /\ UNCHANGED <<row, plan, view, seen, kid>>
    BY <1>6 DEF Record, Goto
  <2>3. \A k \in ChildIds \ {kid[a]} : children'[k] = children[k]
    BY <2>2 DEF TypeOK
  <2>4. ChildrenEffect
    BY <2>1, <2>3 DEF ChildrenEffect, Terminal
  <2>5. RecordsItsOwn'
    <3>1. \A b \in Actors : pc'[b] = "record"
             => b # a /\ pc[b] = "record" /\ kid[b] \in ChildIds \ {kid[a]}
      BY <1>6, <1>a, <2>2 DEF Record, RecordsItsOwn, Placed
    <3> QED
      BY <2>2, <2>3, <3>1 DEF RecordsItsOwn
  <2> QED
    BY <2>2, <2>4, <2>5, SamePlan DEF ViewEffect, SeenEffect, RowEffect
<1>7. CASE OrderFails(a)
  <2>1. /\ at[a] \in Chunks /\ pc'[a] # "record"
        /\ \A b \in Actors \ {a} : pc'[b] = pc[b] /\ kid'[b] = kid[b]
    BY <1>7, <1>a DEF OrderFails, local, Goto, Placed, AtSlot
  <2>2. UNCHANGED children \/ Accepted(a)
    BY <1>7 DEF OrderFails
  <2>3. ChildrenEffect /\ RecordsItsOwn'
    BY <2>1, <2>2, LostChild
  <2> QED
    BY <1>7, <2>3, SamePlan DEF OrderFails, local, ViewEffect, SeenEffect, RowEffect
<1>8. CASE Assign(a)
  <2> DEFINE old == Holds(a, view[a])
             now == Holds(a, plan)
  <2>1. /\ at[a] \in Chunks
        /\ mode[a] = "retry" => plan.slots[at[a]].child # NoChild
    BY <1>8 DEF Assign, Placed, AtSlot
  <2>2. /\ UNCHANGED <<row, children, seen>> /\ pc'[a] # "record"
        /\ \A b \in Actors \ {a} : pc'[b] = pc[b] /\ kid'[b] = kid[b]
    BY <1>8, <1>a DEF Assign, NextRound, Goto
  <2>3. CasAborts(a, old, now) \/ CasCommits(a, old, now, Assigned(a))
    BY <1>8 DEF Assign
  <2>4. PlanEffect
    <3>1. CASE CasAborts(a, old, now)
      BY <3>1, SamePlan DEF CasAborts
    <3>2. CASE CasCommits(a, old, now, Assigned(a))
      BY <2>1, <3>2, AssignPlan DEF CasCommits, Holds
    <3> QED
      BY <2>3, <3>1, <3>2
  <2> HIDE DEF old, now
  <2> QED
    BY <2>2, <2>3, <2>4, CasView, SameChildren DEF SeenEffect, RowEffect
<1>9. CASE Release(a)
  <2> DEFINE old == Holds(a, view[a])
             now == Holds(a, plan)
             new == Reserved(plan, at[a], NoOwner)
  <2>1. /\ at[a] \in Chunks /\ UNCHANGED <<row, children, seen, kid>> /\ pc'[a] = "fail"
        /\ \A b \in Actors \ {a} : pc'[b] = pc[b]
    BY <1>9, <1>a DEF Release, Placed, AtSlot, Goto
  <2>2. CasAborts(a, old, now) \/ CasCommits(a, old, now, new)
    BY <1>9 DEF Release
  <2>3. PlanEffect
    BY <2>1, <2>2, SamePlan, FreePlan DEF CasAborts, CasCommits
  <2> HIDE DEF old, now, new
  <2> QED
    BY <2>1, <2>2, <2>3, CasView, SameChildren DEF SeenEffect, RowEffect
<1>10. CASE FailParent(a)
  BY <1>10, <1>a, SamePlan, SameChildren
     DEF FailParent, SetRowIfPending, local, Goto, ViewEffect, SeenEffect, RowEffect
<1> QED
  BY <1>1, <1>2, <1>3, <1>4, <1>5, <1>6, <1>7, <1>8, <1>9, <1>10 DEF OrderStep

LEMMA EPoll ==
    ASSUME SInv, NEW a \in Actors, PollStep(a)
    PROVE  Effect
<1> USE DEF SInv, TInv, Effect
<1>a. /\ pc \in [Actors -> Steps] /\ kid \in [Actors -> ChildIds \cup {NoChild}]
      /\ plan \in Plan /\ view \in [Actors -> Plan]
      /\ seen \in [Actors -> [ChildIds -> SeenStatus]]
  BY DEF TypeOK
<1>1. CASE StartPoll(a)
  <2>1. pc'[a] # "record" /\ \A b \in Actors \ {a} : pc'[b] = pc[b]
    BY <1>1, <1>a DEF StartPoll, FirstStep, Goto
  <2> QED
    BY <1>1, <1>a, <2>1, SamePlan, SameChildren
       DEF StartPoll, ViewEffect, SeenEffect, RowEffect
<1>2. CASE PollDelivered(a)
  BY <1>2, <1>a, SamePlan, SameChildren
     DEF PollDelivered, vars, ViewEffect, SeenEffect, RowEffect
<1>3. CASE See(a)
  BY <1>3, <1>a, SamePlan, SameChildren DEF See, Goto, ViewEffect, SeenEffect, RowEffect
<1>4. CASE Scan(a)
  <2>1. /\ pc'[a] # "record" /\ \A b \in Actors \ {a} : pc'[b] = pc[b]
        /\ UNCHANGED <<row, plan, children, view, seen, kid>>
    BY <1>4, <1>a DEF Scan, Goto
  <2> QED
    BY <2>1, SamePlan, SameChildren DEF ViewEffect, SeenEffect, RowEffect
<1>5. CASE Decline(a) \/ Mark(a)
  <2>1. /\ pc'[a] # "record" /\ \A b \in Actors \ {a} : pc'[b] = pc[b]
        /\ UNCHANGED <<row, children, seen, kid>> /\ at[a] \in Chunks
    BY <1>5, <1>a DEF Decline, Mark, Goto, Placed, AtSlot
  <2>2. /\ \E p \in {view[a], plan'} : view' = [view EXCEPT ![a] = p]
        /\ \/ plan' = plan
           \/ \E b \in BOOLEAN : plan' = Masking(plan, at[a], b)
    BY <1>5 DEF Decline, Mark, Masking, CasAborts, CasCommits
  <2>3. PlanEffect
    <3>1. ASSUME NEW b \in BOOLEAN, plan' = Masking(plan, at[a], b) PROVE PlanEffect
      BY <1>a, <2>1, <3>1, MaskedPlan DEF PlanEffect, SlotEffect
    <3> QED
      BY <2>2, <3>1, SamePlan
  <2>4. ViewEffect
    BY <1>a, <2>2 DEF ViewEffect
  <2> QED
    BY <2>1, <2>3, <2>4, SameChildren DEF SeenEffect, RowEffect
<1>6. CASE Claim(a)
  <2> DEFINE old == CanClaim(a, view[a])
             now == CanClaim(a, plan)
             new == Reserved(plan, at[a], a)
  <2>1. /\ at[a] \in Chunks /\ pc'[a] # "record"
        /\ \A b \in Actors \ {a} : pc'[b] = pc[b]
        /\ UNCHANGED <<row, children, seen, kid>>
    BY <1>6, <1>a DEF Claim, Goto, Placed, AtSlot
  <2>2. CasAborts(a, old, now) \/ CasCommits(a, old, now, new)
    BY <1>6 DEF Claim
  <2>3. PlanEffect
    <3>1. CASE CasAborts(a, old, now)
      BY <3>1, SamePlan DEF CasAborts
    <3>2. CASE CasCommits(a, old, now, new)
      <4> DEFINE k == plan.slots[at[a]].child
      <4>1. plan' = new /\ ~plan.stopped /\ k # NoChild /\ seen[a][k] = "failed"
        BY <3>2 DEF CasCommits, CanClaim, SameChild
      <4>2. k \in ChildIds
        BY <1>a, <2>1, <4>1 DEF Plan, Slot
      <4>3. children[k].status = "failed"
        BY <4>1, <4>2 DEF SeenTrue, Terminal
      <4> QED
        BY <2>1, <4>1, <4>3, ReservePlan
    <3> QED
      BY <2>2, <3>1, <3>2
  <2> HIDE DEF old, now, new
  <2> QED
    BY <2>1, <2>2, <2>3, CasView, SameChildren DEF SeenEffect, RowEffect
<1>7. CASE SweepForRefill(a)
  BY <1>7, <1>a, SamePlan, SameChildren
     DEF SweepForRefill, Goto, ViewEffect, SeenEffect, RowEffect
<1>8. CASE Settle(a)
  <2>1. /\ pc'[a] # "record" /\ \A b \in Actors \ {a} : pc'[b] = pc[b] /\ kid'[b] = kid[b]
        /\ UNCHANGED <<row, plan, children>>
    BY <1>8, <1>a, ForgetEffect DEF Settle, Goto
  <2>2. ViewEffect /\ SeenEffect
    <3>1. CASE row = "successful"
      BY <1>8, <3>1, ForgetEffect DEF Settle
    <3>2. CASE row # "successful"
      BY <1>8, <1>a, <3>2 DEF Settle, ViewEffect, SeenEffect
    <3> QED
      BY <3>1, <3>2
  <2> QED
    BY <2>1, <2>2, SamePlan, SameChildren DEF RowEffect
<1>9. CASE Write(a)
  <2>1. /\ pc'[a] # "record" /\ \A b \in Actors \ {a} : pc'[b] = pc[b] /\ kid'[b] = kid[b]
        /\ UNCHANGED <<plan, children>>
    BY <1>9, <1>a, ForgetEffect DEF Write, Goto, local
  <2>2. ViewEffect /\ SeenEffect
    <3>1. CASE Forget(a)
      BY <3>1, ForgetEffect
    <3>2. CASE view' = [view EXCEPT ![a] = plan] /\ seen' = seen
      BY <1>a, <2>1, <3>2 DEF ViewEffect, SeenEffect
    <3>3. CASE UNCHANGED local
      BY <1>a, <2>1, <3>3 DEF local, ViewEffect, SeenEffect
    <3> QED
      BY <1>9, <3>1, <3>2, <3>3 DEF Write
  <2>3. RowEffect
    BY <1>9 DEF Write, SetRowIfPending, RowEffect
  <2> QED
    BY <2>1, <2>2, <2>3, SamePlan, SameChildren
<1>10. CASE Look(a)
  <2>1. /\ pc'[a] # "record" /\ \A b \in Actors \ {a} : pc'[b] = pc[b] /\ kid'[b] = kid[b]
        /\ UNCHANGED <<row, plan, children>>
    BY <1>10, <1>a, ForgetEffect DEF Look, Goto, local
  <2>2. ViewEffect /\ SeenEffect
    <3>1. CASE Forget(a)
      BY <3>1, ForgetEffect
    <3>2. CASE UNCHANGED local
      BY <1>a, <2>1, <3>2 DEF local, ViewEffect, SeenEffect
    <3> QED
      BY <1>10, <3>1, <3>2 DEF Look
  <2> QED
    BY <2>1, <2>2, SamePlan, SameChildren DEF RowEffect
<1>11. CASE Cleanup(a)
  <2>1. /\ pc'[a] # "record" /\ \A b \in Actors \ {a} : pc'[b] = pc[b]
        /\ UNCHANGED <<row, plan>> /\ CancelRows(ChildrenOf(view[a])) /\ Forget(a)
    BY <1>11, <1>a DEF Cleanup, Goto
  <2>2. RecordsItsOwn'
    BY <2>1, ForgetEffect, CancelRowsEffect DEF RecordsItsOwn, Placed
  <2> QED
    BY <2>1, <2>2, ForgetEffect, CancelRowsEffect, SamePlan DEF RowEffect
<1> QED
  BY <1>1, <1>2, <1>3, <1>4, <1>5, <1>6, <1>7, <1>8, <1>9, <1>10, <1>11 DEF PollStep

LEMMA EStop ==
    ASSUME SInv, NEW a \in Actors, NEW from, NEW to, to # "record", MarkStopped(a, from, to)
    PROVE  Effect
<1> DEFINE new == [plan EXCEPT !.stopped = TRUE]
<1>1. /\ plan \in Plan /\ new \in Plan /\ new.slots = plan.slots /\ new.stopped
      /\ pc \in [Actors -> Steps]
  BY StoppedPlan DEF SInv, TInv, TypeOK
<1>2. CasCommits(a, TRUE, TRUE, new) /\ Goto(a, to)
      /\ UNCHANGED <<row, children, expired, mode, seen, at, kid>>
  BY DEF MarkStopped
<1> HIDE DEF new
<1>3. PlanEffect
  BY <1>1, <1>2 DEF CasCommits, PlanEffect, SlotEffect
<1> QED
  BY <1>1, <1>2, <1>3, CasView, SameChildren
     DEF SInv, TInv, Effect, Goto, SeenEffect, RowEffect

LEMMA EStopping ==
    ASSUME SInv, NEW a \in Actors, CancelStep(a) \/ AbortStep(a)
    PROVE  Effect
<1> USE DEF SInv, TInv, Effect
<1>a. /\ pc \in [Actors -> Steps] /\ kid \in [Actors -> ChildIds \cup {NoChild}]
      /\ view \in [Actors -> Plan]
  BY DEF TypeOK
<1>1. CASE StartCancel(a)
  BY <1>1, <1>a, SamePlan, SameChildren DEF StartCancel, Goto, ViewEffect, SeenEffect, RowEffect
<1>2. CASE MarkStopped(a, "stop", "kids") \/ MarkStopped(a, "abort_stop", "abort_kids")
  BY <1>2, EStop
<1>3. CASE CancelChildren(a)
  <2>1. /\ pc'[a] # "record" /\ \A b \in Actors \ {a} : pc'[b] = pc[b]
        /\ UNCHANGED <<row, plan, view, seen, kid>> /\ CancelRows(ChildrenOf(view[a]))
    BY <1>3, <1>a DEF CancelChildren, Goto, local
  <2>2. RecordsItsOwn'
    BY <2>1, CancelRowsEffect DEF RecordsItsOwn, Placed
  <2> QED
    BY <2>1, <2>2, CancelRowsEffect, SamePlan DEF ViewEffect, SeenEffect, RowEffect
<1>4. CASE FinishCancel(a)
  BY <1>4, <1>a, ForgetEffect, SamePlan, SameChildren
     DEF FinishCancel, Goto, SetRowIfPending, RowEffect
<1>5. CASE WaveCancelled(a)
  <2>1. /\ pc'[a] # "record" /\ UNCHANGED <<row, plan, view, seen>>
        /\ \A b \in Actors \ {a} : pc'[b] = pc[b] /\ kid'[b] = kid[b]
    BY <1>5, <1>a DEF WaveCancelled, Goto
  <2>2. UNCHANGED children \/ (at[a] \in Chunks /\ Accepted(a))
    BY <1>5 DEF WaveCancelled, Placed, AtSlot
  <2>3. ChildrenEffect /\ RecordsItsOwn'
    BY <2>1, <2>2, SameChildren, LostChild
  <2> QED
    BY <2>1, <2>3, SamePlan DEF ViewEffect, SeenEffect, RowEffect
<1>6. CASE AbortRow(a)
  BY <1>6, <1>a, SamePlan, SameChildren
     DEF AbortRow, local, Goto, ViewEffect, SeenEffect, RowEffect
<1>7. CASE AbortChildren(a)
  <2>1. /\ pc'[a] # "record" /\ \A b \in Actors \ {a} : pc'[b] = pc[b]
        /\ UNCHANGED <<row, plan>> /\ CancelRows(ChildrenOf(view[a])) /\ Forget(a)
    BY <1>7, <1>a DEF AbortChildren, Goto
  <2>2. RecordsItsOwn'
    BY <2>1, ForgetEffect, CancelRowsEffect DEF RecordsItsOwn, Placed
  <2> QED
    BY <2>1, <2>2, ForgetEffect, CancelRowsEffect, SamePlan DEF RowEffect
<1> QED
  BY <1>1, <1>2, <1>3, <1>4, <1>5, <1>6, <1>7 DEF CancelStep, AbortStep

LEMMA EWorld ==
    ASSUME SInv,
           \/ \E k \in ChildIds, o \in Outcomes : ChildEnds(k, o)
           \/ \E c \in Chunks : Expire(c)
           \/ \E a \in Actors : Crash(a)
    PROVE  Effect
<1> USE DEF SInv, TInv, Effect
<1>1. ASSUME NEW k \in ChildIds, NEW o \in Outcomes, ChildEnds(k, o) PROVE Effect
  <2>1. /\ children[k].status = "pending" /\ UNCHANGED <<row, plan, pc, view, seen, kid>>
        /\ \A j \in ChildIds \ {k} : children'[j] = children[j]
    BY <1>1 DEF ChildEnds, Live, local, TypeOK
  <2>2. ChildrenEffect
    BY <2>1 DEF ChildrenEffect, Terminal
  <2>3. RecordsItsOwn'
    BY <2>1 DEF RecordsItsOwn, Placed
  <2> QED
    BY <2>1, <2>2, <2>3, SamePlan DEF ViewEffect, SeenEffect, RowEffect
<1>2. ASSUME NEW c \in Chunks, Expire(c) PROVE Effect
  <2>1. UNCHANGED <<row, plan, children, pc, view, seen, kid>>
    BY <1>2 DEF Expire, local
  <2> QED
    BY <2>1, SamePlan DEF ChildrenEffect, RecordsItsOwn, ViewEffect, SeenEffect, RowEffect
<1>3. ASSUME NEW a \in Actors, Crash(a) PROVE Effect
  <2>1. pc'[a] # "record" /\ \A b \in Actors \ {a} : pc'[b] = pc[b]
    BY <1>3 DEF Crash, Goto, TypeOK
  <2> QED
    BY <1>3, <2>1, ForgetEffect, SamePlan, SameChildren DEF Crash, RowEffect
<1> QED
  BY <1>1, <1>2, <1>3

LEMMA StepEffect == ASSUME SInv, [Next]_vars PROVE Effect
<1>1. CASE UNCHANGED vars
  BY <1>1, SamePlan DEF SInv, Effect, vars, ChildrenEffect, RecordsItsOwn, ViewEffect,
     SeenEffect, RowEffect
<1> QED
  BY <1>1, EOrder, EPoll, EStopping, EWorld DEF Next

LEMMA SInit ==
    ASSUME NEW step \in {"reserve", "dead"}, InitAt(step)
    PROVE  SInv
<1>1. TInv
  BY TInit
<1>2. /\ row = "pending" /\ plan = EmptyPlan /\ \A a \in Actors : view[a] = EmptyPlan
      /\ \A a \in Actors : seen[a] = Unseen /\ pc[a] # "record"
  BY DEF InitAt
<1>3. \A c \in Chunks : EmptyPlan.slots[c].child = NoChild /\ EmptyPlan.slots[c].owner = NoOwner
  BY DEF EmptyPlan, EmptySlot
<1>4. \A k \in ChildIds : Unseen[k] \notin Terminal
  BY DEF Unseen, Terminal
<1> QED
  BY <1>1, <1>2, <1>3, <1>4 DEF SInv, SeenTrue, ViewTrue, RecordsItsOwn,
     ReservesOnlyWhatIsMissing, SuccessIsComplete

LEMMA SKept == SInv /\ [Next]_vars => SInv'
BY StepEffect, EffectKeeps, TStep DEF SInv

LEMMA SInvariant == Spec \/ PollersSpec => []SInv
<1>1. Init \/ PollersInit => SInv
  BY SInit DEF Init, PollersInit
<1> QED
  BY <1>1, SKept, PTL DEF Spec, PollersSpec

\* A parent is never reported successful with a chunk missing, however stale the
\* plans and sweeps its polls decide on (compute_parent_status as called by
\* _advance_chunk_parent from any number of processes).
THEOREM SuccessComplete == Spec \/ PollersSpec => []SuccessIsComplete
BY SInvariant, PTL DEF SInv

\* No process ever reserves a slot whose child is live or delivered
\* (the re-checks under the compare-and-swap, _reserve and _reserve_retry).
THEOREM ReservesMissing == Spec \/ PollersSpec => []ReservesOnlyWhatIsMissing
BY SInvariant, PTL DEF SInv

\* Once a cancel has stopped the plan nothing is reserved any more: the flag is
\* looked at again in the very write that reserves (decision 8).
THEOREM StopHolds == Spec \/ PollersSpec => StopWins
<1> DEFINE Stays == plan.stopped => /\ plan'.stopped
                                    /\ \A c \in Chunks : plan'.slots[c].owner
                                          \in {plan.slots[c].owner, NoOwner}
<1>1. SInv /\ [Next]_vars => Stays
  BY StepEffect DEF Effect, PlanEffect, SlotEffect
<1>2. SInv /\ [Next]_vars => [Stays]_vars
  BY <1>1
<1> HIDE DEF Stays
<1>3. Spec \/ PollersSpec => [][Stays]_vars
  BY <1>2, SInvariant, PTL DEF Spec, PollersSpec
<1> QED
  BY <1>3 DEF StopWins, Stays

=============================================================================
