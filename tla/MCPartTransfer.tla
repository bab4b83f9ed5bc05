---------------------------- MODULE MCPartTransfer ----------------------------
(* Model-checking instances of PartTransfer. *)
EXTENDS PartTransfer, TLC

CONSTANTS p1, p2

\* A process dies while another stalls, or CDS makes the result anew; one
\* transfer may fail.
ApartFaults == {[deaths |-> 1, regenerations |-> 0, failures |-> 1, stalls |-> 1],
                [deaths |-> 0, regenerations |-> 1, failures |-> 1, stalls |-> 0]}
=============================================================================
