---------------------------- MODULE MCChunkParent ----------------------------
(* Model-checking instances of ChunkParent. *)
EXTENDS ChunkParent, TLC

\* The actors: two polling processes and the submit call.
CONSTANTS w1, w2, sub

MCActors  == {w1, w2, sub}
MCWorkers == {w1, w2}
\* One polling process beside the submit call.
OneWorker == {w1}
WaveActors == {w1, sub}
\* A calendar split: all chunks have the same non-calendar overrides.
MCShape   == [c \in 1..NChunks |-> "same"]

MCSymmetry == Permutations(MCWorkers)
=============================================================================
