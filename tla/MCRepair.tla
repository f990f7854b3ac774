------------------------------ MODULE MCRepair ------------------------------
(* Model-checking instances of Repair: one-chunk files on three or four nodes. *)
EXTENDS Repair, TLC

CONSTANTS c1, c2, f1, f2, n1, n2, n3, n4

MCChunkOf == [c \in ChunkID |-> IF c = c1 THEN f1 ELSE f2]
MCRank == [n \in NodeID |-> CASE n = n1 -> 1 [] n = n2 -> 2 [] n = n3 -> 3 [] OTHER -> 4]

=============================================================================
