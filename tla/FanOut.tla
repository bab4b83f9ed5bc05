-------------------------------- MODULE FanOut --------------------------------
(***************************************************************************)
(* What a chunked parent promises its caller, whatever processes poll,     *)
(* cancel or retry it: the abstract specification ChunkParent implements.  *)
(*                                                                         *)
(* Each chunk is waiting for a job, has one running, has been delivered,   *)
(* was refused (and may be given another job), or is lost for good.  A     *)
(* chunk is given a job only while it has none, a delivered or lost chunk  *)
(* is never ordered again, and the parent succeeds once, when everything   *)
(* has been delivered, or ends failed or cancelled, for ever.              *)
(***************************************************************************)
CONSTANT Chunks

VARIABLES parent, chunk

Init == parent = "pending" /\ chunk = [c \in Chunks |-> "waiting"]

\* A job is taken on for a chunk; it may be over by the time it is.
Start(c) ==
    /\ chunk[c] \in {"waiting", "refused"}
    /\ \E s \in {"running", "delivered", "refused", "lost"} :
          chunk' = [chunk EXCEPT ![c] = s]
    /\ UNCHANGED parent

Finish(c) ==
    /\ chunk[c] = "running"
    /\ \E s \in {"delivered", "refused", "lost"} : chunk' = [chunk EXCEPT ![c] = s]
    /\ UNCHANGED parent

\* A cancel or a cleanup gives up some of the running jobs.
Abandon ==
    /\ \E S \in SUBSET {c \in Chunks : chunk[c] = "running"} :
          chunk' = [c \in Chunks |-> IF c \in S THEN "lost" ELSE chunk[c]]
    /\ UNCHANGED parent

Succeed ==
    /\ parent = "pending"
    /\ \A c \in Chunks : chunk[c] = "delivered"
    /\ parent' = "successful"
    /\ UNCHANGED chunk

GiveUp ==
    /\ parent = "pending"
    /\ parent' \in {"failed", "cancelled"}
    /\ UNCHANGED chunk

Next == (\E c \in Chunks : Start(c) \/ Finish(c)) \/ Abandon \/ Succeed \/ GiveUp

Spec == Init /\ [][Next]_<<parent, chunk>>

=============================================================================
