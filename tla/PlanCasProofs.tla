---------------------------- MODULE PlanCasProofs ----------------------------
(***************************************************************************)
(* For any number of actors, slots, attempts and commits: the versioned    *)
(* compare-and-swap of the chunk plan is atomic.                           *)
(***************************************************************************)
EXTENDS PlanCas, TLAPS

\* Every actor and slot keeps to its domain (_cas_mutate_plan, update_chunk_plan).
THEOREM TypeCorrect == Spec => []TypeOK
<1> USE CasAssumption DEF TypeOK
<1>1. Init => TypeOK
  BY DEF Init, PlanData, Owners, Mutations
<1>2. TypeOK /\ [Next]_vars => TypeOK'
  <2> SUFFICES ASSUME TypeOK, [Next]_vars PROVE TypeOK'
    OBVIOUS
  <2>1. ASSUME NEW a \in Actors, Load(a) PROVE TypeOK'
    BY <2>1 DEF Load
  <2>2. ASSUME NEW a \in Actors, NEW m \in Mutations, Begin(a, m) PROVE TypeOK'
    BY <2>2 DEF Begin, Call
  <2>3. ASSUME NEW a \in Actors, Abort(a) PROVE TypeOK'
    BY <2>3 DEF Abort, Call, Mutations
  <2>4. ASSUME NEW a \in Actors, Decide(a) PROVE TypeOK'
    <3>1. call[a] \in Mutations /\ copy[a] \in PlanData
      OBVIOUS
    <3>2. Mutated(a, call[a], copy[a]) \in PlanData
      <4>1. CASE call[a].kind = "stop"
        BY <3>1, <4>1 DEF Mutated, PlanData
      <4>2. CASE call[a].kind # "stop"
        BY <3>1, <4>2 DEF Mutated, Mutations, Halt, PlanData, Owners
      <4> QED
        BY <4>1, <4>2
    <3>3. CASE Allowed(a, call[a], copy[a])
      BY <2>4, <3>2, <3>3 DEF Decide
    <3>4. CASE ~Allowed(a, call[a], copy[a])
      BY <2>4, <3>4 DEF Decide
    <3> QED
      BY <3>3, <3>4
  <2>5. ASSUME NEW a \in Actors, Write(a) PROVE TypeOK'
    <3>1. CASE VersionMatches(a)
      BY <2>5, <3>1 DEF Write, Commit
    <3>2. CASE ~VersionMatches(a)
      BY <2>5, <3>2 DEF Write, Commit
    <3> QED
      BY <3>1, <3>2
  <2>6. ASSUME NEW a \in Actors, Reload(a) PROVE TypeOK'
    BY <2>6 DEF Reload, AttemptsLeft
  <2>7. ASSUME NEW a \in Actors, Raise(a) PROVE TypeOK'
    BY <2>7 DEF Raise, Commit
  <2>8. CASE UNCHANGED vars
    BY <2>8 DEF vars
  <2> QED
    BY <2>1, <2>2, <2>3, <2>4, <2>5, <2>6, <2>7, <2>8 DEF Next
<1> QED
  BY <1>1, <1>2, PTL DEF Spec

\* No copy is ahead of the database, and one that lost its write is behind it.
\* CopyIsCurrent is not inductive without it: a copy with a later version could
\* become current by another actor's write.
NotAhead ==
    \A a \in Actors : loaded[a] <= version /\ (pc[a] = "reload" => loaded[a] # version)

\* Only a stop is ever called on a copy that a raised call has edited, and that
\* call was none itself: a commit carries two mutations at most.
OnlyStops ==
    \A a \in Actors :
        left[a] # None => call[a] = Halt /\ left[a] # Halt /\ pc[a] # "idle"

IInv == TypeOK /\ NotAhead /\ OnlyStops /\ CopyIsCurrent

\* CopyIsCurrent of one actor.
Fresh(a) ==
    loaded[a] = version =>
        /\ left[a] # None => Allowed(a, left[a], plan)
        /\ pc[a] \in {"idle", "decide"} => copy[a] = LeftIn(a)
        /\ pc[a] \in {"write", "raised"} =>
              Allowed(a, call[a], LeftIn(a)) /\ copy[a] = Mutated(a, call[a], LeftIn(a))

LEMMA InitInv == Init => NotAhead /\ OnlyStops /\ CopyIsCurrent
  BY DEF Init, NotAhead, OnlyStops, CopyIsCurrent, LeftIn

\* A step that commits nothing keeps the copies of the other actors as current as
\* they were.
LEMMA OthersStay ==
    ASSUME NEW a \in Actors, IInv, UNCHANGED <<plan, version>>,
           \A b \in Actors \ {a} : /\ copy'[b] = copy[b] /\ loaded'[b] = loaded[b]
                                   /\ pc'[b] = pc[b] /\ call'[b] = call[b]
                                   /\ left'[b] = left[b],
           Fresh(a)'
    PROVE  CopyIsCurrent'
<1>1. ASSUME NEW b \in Actors \ {a} PROVE Fresh(b)'
  <2>1. LeftIn(b)' = LeftIn(b)
    BY <1>1 DEF LeftIn, Mutated
  <2>2. Fresh(b)
    BY DEF IInv, CopyIsCurrent, Fresh
  <2> QED
    BY <1>1, <2>1, <2>2 DEF Fresh, Allowed, Mutated
<1> QED
  BY <1>1 DEF CopyIsCurrent, Fresh

\* A commit leaves every other copy behind.
LEMMA CommitOutdates ==
    ASSUME NEW a \in Actors, IInv, Commit(a),
           \A b \in Actors \ {a} : loaded'[b] = loaded[b],
           Fresh(a)'
    PROVE  CopyIsCurrent'
<1>1. \A b \in Actors \ {a} : loaded'[b] # version'
  BY DEF Commit, IInv, TypeOK, NotAhead
<1> QED
  BY <1>1 DEF CopyIsCurrent, Fresh

\* One step of any actor keeps every copy current or behind.
LEMMA StepInv == ASSUME IInv, TypeOK', [Next]_vars PROVE IInv'
<1> DEFINE Goal == NotAhead /\ OnlyStops /\ CopyIsCurrent
<1>1. ASSUME NEW a \in Actors, Load(a) PROVE Goal'
  <2>1. NotAhead' /\ OnlyStops'
    BY <1>1 DEF Load, IInv, TypeOK, NotAhead, OnlyStops
  <2>2. Fresh(a)'
    BY <1>1 DEF Load, IInv, TypeOK, Fresh, LeftIn
  <2>3. CopyIsCurrent'
    BY <1>1, <2>2, OthersStay DEF Load, IInv, TypeOK
  <2> QED
    BY <2>1, <2>3
<1>2. ASSUME NEW a \in Actors, NEW m \in Mutations, Begin(a, m) PROVE Goal'
  <2>1. NotAhead' /\ OnlyStops'
    BY <1>2 DEF Begin, Call, IInv, TypeOK, NotAhead, OnlyStops
  <2>2. Fresh(a)'
    BY <1>2 DEF Begin, Call, IInv, TypeOK, CopyIsCurrent, Fresh, LeftIn
  <2>3. CopyIsCurrent'
    BY <1>2, <2>2, OthersStay DEF Begin, Call, IInv, TypeOK
  <2> QED
    BY <2>1, <2>3
<1>3. ASSUME NEW a \in Actors, Abort(a) PROVE Goal'
  <2>1. left[a] = None
    BY <1>3 DEF Abort, IInv, OnlyStops
  <2>2. NotAhead' /\ OnlyStops'
    BY <1>3 DEF Abort, Call, IInv, TypeOK, NotAhead, OnlyStops
  <2>3. None \notin Mutations
    BY DEF None, Mutations, Halt
  <2>4. Fresh(a)'
    <3>1. loaded[a] = version => Allowed(a, call[a], plan) /\ copy[a] = Mutated(a, call[a], plan)
      BY <1>3, <2>1 DEF Abort, IInv, CopyIsCurrent, LeftIn
    <3>2. left'[a] = call[a] /\ call[a] # None /\ pc'[a] = "decide" /\ copy' = copy
      BY <1>3, <2>3 DEF Abort, Call, IInv, TypeOK
    <3> QED
      BY <1>3, <3>1, <3>2 DEF Abort, Call, Fresh, LeftIn, Allowed, Mutated
  <2>5. CopyIsCurrent'
    BY <1>3, <2>4, OthersStay DEF Abort, Call, IInv, TypeOK
  <2> QED
    BY <2>2, <2>5
<1>4. ASSUME NEW a \in Actors, Decide(a) PROVE Goal'
  <2>1. NotAhead' /\ OnlyStops'
    <3>1. left[a] # None => Allowed(a, call[a], copy[a])
      BY <1>4 DEF Decide, IInv, OnlyStops, Allowed, Halt
    <3> QED
      BY <1>4, <3>1 DEF Decide, IInv, TypeOK, NotAhead, OnlyStops
  <2>2. Fresh(a)'
    <3>1. CASE Allowed(a, call[a], copy[a])
      <4>1. /\ UNCHANGED <<plan, loaded, version, call, left>> /\ pc'[a] = "write"
            /\ copy'[a] = Mutated(a, call[a], copy[a]) /\ pc[a] = "decide"
        BY <1>4, <3>1 DEF Decide, IInv, TypeOK
      <4>2. ASSUME loaded[a] = version
            PROVE  copy[a] = LeftIn(a) /\ (left[a] # None => Allowed(a, left[a], plan))
        BY <4>1, <4>2 DEF IInv, CopyIsCurrent
      <4>3. LeftIn(a)' = LeftIn(a)
        BY <4>1 DEF LeftIn, Mutated
      <4>4. ASSUME loaded[a] = version
            PROVE  /\ left'[a] # None => Allowed(a, left'[a], plan')
                   /\ Allowed(a, call'[a], LeftIn(a)')
                   /\ copy'[a] = Mutated(a, call'[a], LeftIn(a)')
        <5>1. call' = call /\ left' = left /\ plan' = plan /\ LeftIn(a)' = copy[a]
          BY <4>1, <4>2, <4>3, <4>4
        <5>2. left'[a] # None => Allowed(a, left'[a], plan')
          BY <4>2, <4>4, <5>1 DEF Allowed
        <5>3. Allowed(a, call'[a], LeftIn(a)')
          BY <3>1, <5>1 DEF Allowed
        <5>4. copy'[a] = Mutated(a, call'[a], LeftIn(a)')
          BY <4>1, <5>1 DEF Mutated
        <5> QED
          BY <5>2, <5>3, <5>4
      <4> QED
        <5>1. loaded'[a] = version' =>
                 /\ left'[a] # None => Allowed(a, left'[a], plan')
                 /\ Allowed(a, call'[a], LeftIn(a)')
                 /\ copy'[a] = Mutated(a, call'[a], LeftIn(a)')
          BY <4>1, <4>4
        <5>2. pc'[a] \notin {"idle", "decide"}
          BY <4>1
        <5> QED
          BY <5>1, <5>2 DEF Fresh
    <3>2. CASE ~Allowed(a, call[a], copy[a])
      BY <1>4, <3>2 DEF Decide, IInv, TypeOK, CopyIsCurrent, Fresh, LeftIn, Allowed, Mutated
    <3> QED
      BY <3>1, <3>2
  <2>3. CopyIsCurrent'
    BY <1>4, <2>2, OthersStay DEF Decide, IInv, TypeOK
  <2> QED
    BY <2>1, <2>3
<1>5. ASSUME NEW a \in Actors, Write(a) PROVE Goal'
  <2>1. CASE Commit(a)
    <3>1. /\ plan' = copy[a] /\ version' = version + 1 /\ loaded[a] = version /\ copy' = copy
          /\ loaded' = [loaded EXCEPT ![a] = loaded[a] + 1]
          /\ left' = [left EXCEPT ![a] = None] /\ call' = call
          /\ pc' = [pc EXCEPT ![a] = "idle"]
      BY <1>5, <2>1 DEF Write, Commit, VersionMatches
    <3>2. NotAhead' /\ OnlyStops'
      BY <3>1 DEF IInv, TypeOK, NotAhead, OnlyStops
    <3>3. Fresh(a)'
      BY <3>1 DEF IInv, TypeOK, Fresh, LeftIn
    <3>4. CopyIsCurrent'
      BY <2>1, <3>1, <3>3, CommitOutdates DEF IInv, TypeOK
    <3> QED
      BY <3>2, <3>4
  <2>2. CASE ~VersionMatches(a)
    <3>1. /\ UNCHANGED <<plan, version, loaded, left, copy, call>>
          /\ pc' = [pc EXCEPT ![a] = "reload"] /\ loaded[a] # version
      BY <1>5, <2>2 DEF Write, Commit, VersionMatches
    <3>2. NotAhead' /\ OnlyStops'
      BY <3>1 DEF IInv, TypeOK, NotAhead, OnlyStops
    <3>3. CopyIsCurrent'
      BY <3>1, OthersStay DEF IInv, TypeOK, Fresh
    <3> QED
      BY <3>2, <3>3
  <2> QED
    BY <1>5, <2>1, <2>2 DEF Write
<1>6. ASSUME NEW a \in Actors, Reload(a) PROVE Goal'
  <2>1. NotAhead' /\ OnlyStops'
    BY <1>6 DEF Reload, AttemptsLeft, IInv, TypeOK, NotAhead, OnlyStops
  <2>2. Fresh(a)'
    BY <1>6 DEF Reload, AttemptsLeft, IInv, TypeOK, Fresh, LeftIn
  <2>3. CopyIsCurrent'
    BY <1>6, <2>2, OthersStay DEF Reload, AttemptsLeft, IInv, TypeOK
  <2> QED
    BY <2>1, <2>3
<1>7. ASSUME NEW a \in Actors, Raise(a) PROVE Goal'
  <2>1. CASE pc[a] = "write" /\ Commit(a)
    <3>1. /\ version' = version + 1 /\ loaded[a] = version
          /\ UNCHANGED <<loaded, left, call, copy>> /\ pc' = [pc EXCEPT ![a] = "raised"]
      BY <1>7, <2>1 DEF Raise, Commit, VersionMatches
    <3>2. NotAhead' /\ OnlyStops'
      BY <3>1 DEF IInv, TypeOK, NotAhead, OnlyStops
    <3>3. CopyIsCurrent'
      BY <2>1, <3>1, CommitOutdates DEF IInv, TypeOK, Fresh
    <3> QED
      BY <3>2, <3>3
  <2>2. CASE UNCHANGED <<plan, version>>
    <3>1. /\ pc[a] \in {"write", "reload"} /\ pc' = [pc EXCEPT ![a] = "raised"]
          /\ UNCHANGED <<plan, version, loaded, left, call, copy>>
      BY <1>7, <2>2 DEF Raise
    <3>2. NotAhead' /\ OnlyStops'
      BY <3>1 DEF IInv, TypeOK, NotAhead, OnlyStops
    <3>3. Fresh(a)'
      BY <3>1 DEF IInv, TypeOK, NotAhead, CopyIsCurrent, Fresh, LeftIn
    <3>4. CopyIsCurrent'
      BY <3>1, <3>3, OthersStay DEF IInv, TypeOK
    <3> QED
      BY <3>2, <3>4
  <2> QED
    BY <1>7, <2>1, <2>2 DEF Raise
<1>8. ASSUME UNCHANGED vars PROVE Goal'
  <2>1. \A a \in Actors : LeftIn(a)' = LeftIn(a)
    BY <1>8 DEF vars, LeftIn, Mutated
  <2>2. NotAhead' /\ OnlyStops'
    BY <1>8 DEF vars, IInv, NotAhead, OnlyStops
  <2>3. CopyIsCurrent'
    BY <1>8, <2>1 DEF vars, IInv, CopyIsCurrent, Allowed, Mutated
  <2> QED
    BY <2>2, <2>3
<1>9. Goal'
  BY <1>1, <1>2, <1>3, <1>4, <1>5, <1>6, <1>7, <1>8 DEF Next
<1> QED
  BY <1>9 DEF IInv

LEMMA Inductive == Spec => []IInv
<1>1. Init /\ TypeOK => IInv
  BY InitInv DEF IInv
<1>2. IInv /\ TypeOK' /\ [Next]_vars => IInv'
  BY StepInv
<1> QED
  BY <1>1, <1>2, TypeCorrect, PTL DEF Spec

\* An actor that wins the version check decided on what the database holds: the
\* loser re-decides, and the abort of a wave whose write raised commits the raised
\* mutation only where that still was allowed (_cas_mutate_plan, _abort_chunk_parent).
THEOREM CopyCurrent == Spec => []CopyIsCurrent
  BY Inductive, PTL DEF IInv

\* The plan an abort commits: one mutation and the stop, both as AtomicPlan allows.
LEMMA StepIsAbstract ==
    ASSUME NEW a \in Actors, NEW m \in Mutations, NEW p \in PlanData, IInv,
           Allowed(a, m, plan), p = Mutated(a, m, plan),
           plan' \in {p, [p EXCEPT !.stopped = TRUE]}
    PROVE  Abs!Next
<1>1. CASE m.kind = "reserve"
  <2>1. m.slot \in Slots /\ ~plan.stopped /\ plan.slots[m.slot] = Nobody
    BY <1>1 DEF Mutations, Halt, Allowed
  <2>2. p = Abs!Held(m.slot, a)
    BY <1>1 DEF Mutated, Abs!Held
  <2> QED
    BY <2>1, <2>2 DEF Abs!Next, Abs!Reserve, Abs!Stopped
<1>2. CASE m.kind = "release"
  <2>1. m.slot \in Slots /\ plan.slots[m.slot] = a
    BY <1>2 DEF Mutations, Halt, Allowed
  <2>2. p = Abs!Held(m.slot, Nobody)
    BY <1>2 DEF Mutated, Abs!Held
  <2> QED
    BY <2>1, <2>2 DEF Abs!Next, Abs!Release, Abs!Stopped
<1>3. CASE m.kind = "stop"
  <2>1. p = [plan EXCEPT !.stopped = TRUE]
    BY <1>3 DEF Mutated
  <2>2. [p EXCEPT !.stopped = TRUE] = p
    BY <2>1 DEF IInv, TypeOK, PlanData
  <2> QED
    BY <2>1, <2>2 DEF Abs!Next, Abs!Stop, Abs!Stopped
<1> QED
  BY <1>1, <1>2, <1>3 DEF Mutations, Halt

\* The whole call of _cas_mutate_plan is one atomic step of AtomicPlan: no
\* committed reservation is lost, none is taken from another actor, none is made
\* on a stopped plan.
THEOREM CasIsAtomic == Spec => IsAtomic
<1>1. Init => Abs!Init
  BY DEF Init, Abs!Init
<1>2. IInv /\ [Next]_vars => [Abs!Next]_plan
  <2> SUFFICES ASSUME IInv, [Next]_vars, plan' # plan
               PROVE  Abs!Next
    OBVIOUS
  <2>1. PICK a \in Actors : pc[a] = "write" /\ Commit(a)
    BY DEF Next, vars, Load, Begin, Abort, Call, Decide, Write, Reload, Raise
  <2>2. /\ Allowed(a, call[a], LeftIn(a)) /\ plan' = Mutated(a, call[a], LeftIn(a))
        /\ left[a] # None => Allowed(a, left[a], plan)
    BY <2>1 DEF IInv, CopyIsCurrent, Commit, VersionMatches
  <2>3. call[a] \in Mutations /\ left[a] \in Mutations \cup {None} /\ plan \in PlanData
    BY DEF IInv, TypeOK
  <2>4. \A m \in Mutations : Mutated(a, m, plan) \in PlanData
    BY <2>3, CasAssumption DEF Mutated, Mutations, Halt, PlanData, Owners
  <2>5. CASE left[a] = None
    BY <2>2, <2>3, <2>4, <2>5, StepIsAbstract DEF LeftIn
  <2>6. CASE left[a] # None
    <3>1. call[a] = Halt
      BY <2>6 DEF IInv, OnlyStops
    <3>2. plan' = [Mutated(a, left[a], plan) EXCEPT !.stopped = TRUE]
      BY <2>2, <2>6, <3>1 DEF LeftIn, Mutated, Halt
    <3> QED
      BY <2>2, <2>3, <2>4, <2>6, <3>2, StepIsAbstract
  <2> QED
    BY <2>5, <2>6
<1> QED
  BY <1>1, <1>2, Inductive, PTL DEF Spec, IsAtomic, Abs!Spec

-----------------------------------------------------------------------------

\* What the count of attempts is worth: k attempts begun, k - 1 of them lost.
Counted ==
    \A a \in Actors :
        /\ pc[a] \in {"decide", "write"} => tries[a] >= 1 /\ loaded[a] + 1 >= base[a] + tries[a]
        /\ pc[a] = "reload" => version >= base[a] + tries[a]

\* Giving up takes Attempts commits since the plan was loaded, never fewer.
THEOREM Contention == Spec => []LossesAreContention
<1> USE DEF IInv, TypeOK, NotAhead
<1>1. Init => Counted
  BY DEF Init, Counted
<1>2. IInv /\ Counted /\ [Next]_vars => Counted'
  <2> SUFFICES ASSUME IInv, Counted, [Next]_vars PROVE Counted'
    OBVIOUS
  <2>1. ASSUME NEW a \in Actors, Load(a) PROVE Counted'
    BY <2>1 DEF Load, Counted
  <2>2. ASSUME NEW a \in Actors, NEW m \in Mutations, Begin(a, m) PROVE Counted'
    BY <2>2 DEF Begin, Call, Counted
  <2>8. ASSUME NEW a \in Actors, Abort(a) PROVE Counted'
    BY <2>8 DEF Abort, Call, Counted
  <2>3. ASSUME NEW a \in Actors, Decide(a) PROVE Counted'
    BY <2>3 DEF Decide, Counted
  <2>4. ASSUME NEW a \in Actors, Write(a) PROVE Counted'
    <3>1. CASE VersionMatches(a)
      BY <2>4, <3>1 DEF Write, Commit, Counted
    <3>2. CASE ~VersionMatches(a)
      <4>1. loaded[a] + 1 <= version
        BY <3>2 DEF VersionMatches
      <4> QED
        BY <2>4, <3>2, <4>1 DEF Write, Commit, Counted
    <3> QED
      BY <3>1, <3>2
  <2>5. ASSUME NEW a \in Actors, Reload(a) PROVE Counted'
    BY <2>5 DEF Reload, AttemptsLeft, Counted
  <2>6. ASSUME NEW a \in Actors, Raise(a) PROVE Counted'
    BY <2>6 DEF Raise, Commit, Counted
  <2>7. CASE UNCHANGED vars
    BY <2>7 DEF vars, Counted
  <2> QED
    BY <2>1, <2>2, <2>3, <2>4, <2>5, <2>6, <2>7, <2>8 DEF Next
<1>3. Counted => LossesAreContention
  BY DEF Counted, LossesAreContention
<1> QED
  BY <1>1, <1>2, <1>3, Inductive, PTL DEF Spec

=============================================================================
