------------------------------ MODULE AtomicPlan ------------------------------
(***************************************************************************)
(* What _cas_mutate_plan promises: a commit is one mutation that the       *)
(* committed plan of that moment allows.  A submit that gives up (the      *)
(* abort of a first wave) may commit, together with its stop, the mutation *)
(* that an earlier, raised write of its own had put in its copy.           *)
(***************************************************************************)
CONSTANTS Actors, Slots, Nobody

VARIABLE plan  \* its slots, each with the actor whose reservation it carries; stopped

Init == plan = [slots |-> [s \in Slots |-> Nobody], stopped |-> FALSE]

Held(s, a) == [plan EXCEPT !.slots[s] = a]
Stopped(p) == [p EXCEPT !.stopped = TRUE]

Reserve(a, s) ==
    /\ ~plan.stopped /\ plan.slots[s] = Nobody
    /\ plan' \in {Held(s, a), Stopped(Held(s, a))}

Release(a, s) ==
    /\ plan.slots[s] = a
    /\ plan' \in {Held(s, Nobody), Stopped(Held(s, Nobody))}

Stop == plan' = Stopped(plan)

Next == Stop \/ \E a \in Actors, s \in Slots : Reserve(a, s) \/ Release(a, s)

Spec == Init /\ [][Next]_plan

=============================================================================
