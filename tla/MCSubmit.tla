------------------------------- MODULE MCSubmit -------------------------------
(* Model-checking instances of Submit. *)
EXTENDS Submit, TLC

CONSTANTS c1, c2, c3, p1, p2

\* Three calls of one server; two, and one of another server.
TwoServers == {[c \in Calls |-> p1], c1 :> p1 @@ c2 :> p1 @@ c3 :> p2}

Request(models, cost, chunks) ==
    [keys |-> "snapshot", models |-> models, known |-> TRUE, cost |-> cost,
     cells |-> TRUE, chunks |-> chunks, size |-> "unknown", tier |-> FALSE]

\* One job; two models; more than one job's worth of years.
ThreeShapes == {Request(1, "under", 0), Request(2, "under", 2), Request(1, "over", 3)}
AllBudgets == Budgets
=============================================================================
