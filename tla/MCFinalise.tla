------------------------------ MODULE MCFinalise ------------------------------
(* Model-checking instances of Finalise. *)
EXTENDS Finalise, TLC

CONSTANTS p1, p2, p3, r1, r2

Two   == {p1, p2}
Three == {p1, p2, p3}

\* Two processes follow the requests; one fetches, the other cancels and evicts.
FollowDuties == p1 :> {"finalise", "fetch"} @@ p2 :> {"finalise", "cancel", "evict"}
\* Two processes fetch a delivered request while a third one cancels and evicts.
ServeDuties == p1 :> {"finalise", "fetch"} @@ p2 :> {"fetch"}
               @@ p3 :> {"finalise", "cancel", "evict"}
=============================================================================
