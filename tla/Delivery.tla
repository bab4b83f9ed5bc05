------------------------------- MODULE Delivery -------------------------------
(***************************************************************************)
(* What a CDS request promises: it ends once, and the cache serves one     *)
(* result per cache key, that of a request which has been delivered.       *)
(* Finalise implements it.                                                 *)
(***************************************************************************)
CONSTANTS Requests,  \* requests with the same cache key (force_refresh)
          Nothing    \* no result on the shelf

VARIABLES status, shelf

Init == status = [r \in Requests |-> "pending"] /\ shelf = Nothing

\* The request becomes successful and its result available in one step, in the
\* place of an earlier one.
Deliver(r) ==
    /\ status[r] = "pending"
    /\ status' = [status EXCEPT ![r] = "successful"]
    /\ shelf' = r

End(r) ==
    /\ status[r] = "pending"
    /\ \E s \in {"failed", "cancelled"} : status' = [status EXCEPT ![r] = s]
    /\ UNCHANGED shelf

\* The result is evicted.
Lose == shelf # Nothing /\ shelf' = Nothing /\ UNCHANGED status

\* It is fetched or found again; this never takes the place of another one.
Restore(r) ==
    /\ status[r] = "successful"
    /\ shelf = Nothing
    /\ shelf' = r
    /\ UNCHANGED status

Next == Lose \/ \E r \in Requests : Deliver(r) \/ End(r) \/ Restore(r)

Spec == Init /\ [][Next]_<<status, shelf>>

=============================================================================
