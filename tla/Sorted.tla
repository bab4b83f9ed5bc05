--------------------------------- MODULE Sorted ---------------------------------
(***************************************************************************)
(* A finite set as a sequence in a given order, with no element twice:     *)
(* Python's sorted on distinct keys, and ORDER BY.  This is SetToSortSeq,  *)
(* defined so that what it returns can be proved: SortSeq has no           *)
(* definition a prover could expand.                                       *)
(***************************************************************************)
EXTENDS Naturals, SequencesExt

InOrder(S, Before(_, _)) ==
    CHOOSE s \in SetToSeqs(S) : \A i, j \in DOMAIN s : i < j => Before(s[i], s[j])
=============================================================================
