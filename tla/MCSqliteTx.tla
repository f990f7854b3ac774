----------------------------- MODULE MCSqliteTx -----------------------------
(* Model-checking instance of SqliteTx. *)
EXTENDS SqliteTx, TLC

\* A node alone, and the same one twice, which breaks the primary key; repair
\* adds the other.
MCReplicaLists == LET n == CHOOSE m \in NodeID : TRUE IN {<<n>>, <<n, n>>}

Symmetry == Permutations(Handler) \cup Permutations(ChunkID)

=============================================================================
