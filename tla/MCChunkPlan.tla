---------------------------- MODULE MCChunkPlan ----------------------------
(* Model-checking instance of ChunkPlan. *)
EXTENDS ChunkPlan

\* Every int64 of the scaled-down machine.
MCFileSizes == (-MaxInt - 1)..MaxInt

=============================================================================
