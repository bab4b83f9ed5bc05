------------------------------- MODULE PlanCas -------------------------------
(***************************************************************************)
(* The compare-and-swap under every chunk-plan write: _cas_mutate_plan of  *)
(* backends/cds/backend.py over update_chunk_plan of the SQLite backend.   *)
(*                                                                         *)
(* Every actor (a poll, a cancel or a submit, in any process) keeps a plan *)
(* it loaded some time ago together with the version it had.  A call       *)
(* applies a mutation to that copy in place, or aborts when the copy does  *)
(* not allow it; it writes the result if the version in the database is    *)
(* still the copy's; otherwise it loads the committed plan and starts      *)
(* over, at most Attempts times.  The mutations here are those of the      *)
(* reservations (take a free slot, drop one's own) and the stop of the     *)
(* whole plan.                                                             *)
(*                                                                         *)
(* A call may also raise, its write committed or not, and leaves the copy  *)
(* edited at the version it had.  One caller goes on with that copy: the   *)
(* abort of a first wave stops the plan with it.                           *)
(***************************************************************************)
EXTENDS Naturals

CONSTANTS Actors, Slots, Nobody,
          Attempts,    \* attempts of one call (6 in the code)
          MaxVersion   \* no call begins at this version: bounds the model

ASSUME CasAssumption ==
    /\ Nobody \notin Actors
    /\ Attempts \in Nat \ {0}
    /\ MaxVersion \in Nat

VARIABLES
    plan,     \* the committed plan: each slot's reservation, and the stopped flag
    version,  \* its chunk_plan_version
    copy,     \* each actor's plan
    loaded,   \* each actor's _version
    pc,       \* idle, or the next step of the call it is in
    call,     \* the mutation of that call
    tries,    \* attempts it has begun
    base,     \* the copy's version when the call began (history)
    left      \* the mutation a raised call left in the copy, or None (history)

vars == <<plan, version, copy, loaded, pc, call, tries, base, left>>

Owners    == Actors \cup {Nobody}
PlanData  == [slots: [Slots -> Owners], stopped: BOOLEAN]
None      == [kind |-> "none"]
Halt      == [kind |-> "stop"]
Mutations == [kind: {"reserve", "release"}, slot: Slots] \cup {Halt}

TypeOK ==
    /\ plan \in PlanData
    /\ version \in Nat
    /\ copy \in [Actors -> PlanData]
    /\ loaded \in [Actors -> Nat]
    /\ pc \in [Actors -> {"idle", "decide", "write", "reload", "raised"}]
    /\ call \in [Actors -> Mutations]
    /\ tries \in [Actors -> 0..Attempts]
    /\ base \in [Actors -> Nat]
    /\ left \in [Actors -> Mutations \cup {None}]

Init ==
    /\ plan = [slots |-> [s \in Slots |-> Nobody], stopped |-> FALSE]
    /\ version = 0
    /\ copy = [a \in Actors |-> plan]
    /\ loaded = [a \in Actors |-> 0]
    /\ pc = [a \in Actors |-> "idle"]
    /\ call \in [Actors -> {[kind |-> "reserve", slot |-> s] : s \in Slots}]
    /\ tries = [a \in Actors |-> 0]
    /\ base = [a \in Actors |-> 0]
    /\ left = [a \in Actors |-> None]

\* The precondition of mutation m of actor a on plan p, and what it makes of it.
Allowed(a, m, p) ==
    \/ m.kind = "reserve" /\ ~p.stopped /\ p.slots[m.slot] = Nobody
    \/ m.kind = "release" /\ p.slots[m.slot] = a
    \/ m.kind = "stop"

Mutated(a, m, p) ==
    IF m.kind = "stop" THEN [p EXCEPT !.stopped = TRUE]
    ELSE [p EXCEPT !.slots[m.slot] = IF m.kind = "reserve" THEN a ELSE Nobody]

\* The plan is read with its version (_load_chunk_plan), at the start of a poll.
Load(a) ==
    /\ pc[a] \in {"idle", "raised"}
    /\ copy' = [copy EXCEPT ![a] = plan]
    /\ loaded' = [loaded EXCEPT ![a] = version]
    /\ left' = [left EXCEPT ![a] = None]
    /\ pc' = [pc EXCEPT ![a] = "idle"]
    /\ UNCHANGED <<plan, version, call, tries, base>>

\* A call of mutation m on the copy the actor has.
Call(a, m) ==
    /\ version < MaxVersion
    /\ pc' = [pc EXCEPT ![a] = "decide"]
    /\ call' = [call EXCEPT ![a] = m]
    /\ tries' = [tries EXCEPT ![a] = 1]
    /\ base' = [base EXCEPT ![a] = loaded[a]]
    /\ UNCHANGED <<plan, version, copy, loaded>>

Begin(a, m) == pc[a] = "idle" /\ Call(a, m) /\ UNCHANGED left

\* A reserve or an assign of the first wave raised: the abort stops the plan with
\* the copy that call has edited, at the version it had (_abort_chunk_parent).
\* Of the abort itself nothing follows: its own raise is suppressed.
Abort(a) ==
    /\ pc[a] = "raised"
    /\ call[a] # Halt
    /\ Call(a, Halt)
    /\ left' = [left EXCEPT ![a] = call[a]]

\* mutate(plan): edit the copy in place, or abort the call.
Decide(a) ==
    /\ pc[a] = "decide"
    /\ \/ /\ Allowed(a, call[a], copy[a])
          /\ copy' = [copy EXCEPT ![a] = Mutated(a, call[a], copy[a])]
          /\ pc' = [pc EXCEPT ![a] = "write"]
       \/ /\ ~Allowed(a, call[a], copy[a])
          /\ pc' = [pc EXCEPT ![a] = "idle"]
          /\ UNCHANGED copy
    /\ UNCHANGED <<plan, version, loaded, call, tries, base, left>>

\* Mutants of VersionMatches: no version check, and one against the next version.
AnyVersion(a) == TRUE
NextVersion(a) == loaded[a] + 1 = version

\* UPDATE ... WHERE chunk_plan_version = expected: one row written, or none.
VersionMatches(a) == loaded[a] = version

\* The one row is written: the plan and its version move on.
Commit(a) == VersionMatches(a) /\ plan' = copy[a] /\ version' = version + 1

Write(a) ==
    /\ pc[a] = "write"
    /\ \/ /\ Commit(a)
          /\ loaded' = [loaded EXCEPT ![a] = loaded[a] + 1]
          /\ left' = [left EXCEPT ![a] = None]
          /\ pc' = [pc EXCEPT ![a] = "idle"]
       \/ /\ ~VersionMatches(a)
          /\ pc' = [pc EXCEPT ![a] = "reload"]
          /\ UNCHANGED <<plan, version, loaded, left>>
    /\ UNCHANGED <<copy, call, tries, base>>

\* Mutant of Reload: the loser writes its own bytes again at the new version.
RetryBlindly(a) ==
    /\ pc[a] = "reload"
    /\ loaded' = [loaded EXCEPT ![a] = version]
    /\ \/ /\ tries[a] < Attempts
          /\ tries' = [tries EXCEPT ![a] = tries[a] + 1]
          /\ pc' = [pc EXCEPT ![a] = "write"]
       \/ /\ tries[a] = Attempts
          /\ pc' = [pc EXCEPT ![a] = "idle"]
          /\ UNCHANGED tries
    /\ UNCHANGED <<plan, version, copy, call, base, left>>

\* range(6) of _cas_mutate_plan.
AttemptsLeft(a) == tries[a] < Attempts

\* The loser takes the committed plan; it decides again while attempts are left.
Reload(a) ==
    /\ pc[a] = "reload"
    /\ copy' = [copy EXCEPT ![a] = plan]
    /\ loaded' = [loaded EXCEPT ![a] = version]
    /\ left' = [left EXCEPT ![a] = None]
    /\ \/ /\ AttemptsLeft(a)
          /\ tries' = [tries EXCEPT ![a] = tries[a] + 1]
          /\ pc' = [pc EXCEPT ![a] = "decide"]
       \/ /\ ~AttemptsLeft(a)
          /\ pc' = [pc EXCEPT ![a] = "idle"]
          /\ UNCHANGED tries
    /\ UNCHANGED <<plan, version, call, base>>

\* The call raises (a locked or full database, a cancelled task): at its write,
\* which is committed or not, or where the loser reads the row again.  The copy
\* stays edited, with the version it had.
Raise(a) ==
    /\ pc[a] \in {"write", "reload"}
    /\ \/ pc[a] = "write" /\ Commit(a)
       \/ UNCHANGED <<plan, version>>
    /\ pc' = [pc EXCEPT ![a] = "raised"]
    /\ UNCHANGED <<copy, loaded, call, tries, base, left>>

Next ==
    \E a \in Actors : \/ Load(a) \/ Decide(a) \/ Write(a) \/ Reload(a) \/ Raise(a)
                      \/ Abort(a)
                      \/ \E m \in Mutations : Begin(a, m)

Spec == Init /\ [][Next]_vars

-----------------------------------------------------------------------------

\* The committed plan with what a raised call of the actor left in its copy.
LeftIn(a) == IF left[a] = None THEN plan ELSE Mutated(a, left[a], plan)

\* An actor whose version is the committed one holds the committed plan, with its
\* own raised mutation if it is the abort that goes on with that copy, and with
\* the call's own once it has edited it; each was allowed where it was applied.
\* Winning the comparison means having decided on what the database holds
\* (update_chunk_plan): a raised write never makes a later call of the same copy
\* commit a decision about another plan.
CopyIsCurrent ==
    \A a \in Actors : loaded[a] = version =>
        /\ left[a] # None => Allowed(a, left[a], plan)
        /\ pc[a] \in {"idle", "decide"} => copy[a] = LeftIn(a)
        /\ pc[a] \in {"write", "raised"} =>
              Allowed(a, call[a], LeftIn(a)) /\ copy[a] = Mutated(a, call[a], LeftIn(a))

\* Each attempt is lost to a commit: a call gives up only after Attempts commits
\* since its plan was loaded, all by others but for one of its own that raised
\* (the docstring's "pathological contention").
LossesAreContention ==
    \A a \in Actors : pc[a] = "reload" => version >= base[a] + tries[a]

\* The whole call is one atomic step on the committed plan: a commit carries one
\* allowed mutation, or that of an aborted wave with its stop.
Abs == INSTANCE AtomicPlan
IsAtomic == Abs!Spec

=============================================================================
