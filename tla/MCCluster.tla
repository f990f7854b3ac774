----------------------------- MODULE MCCluster -----------------------------
(* Model-checking instance of Cluster. *)
EXTENDS Cluster, TLC

Symmetry ==
  Permutations(Handler) \cup Permutations(ChunkID) \cup Permutations(NodeID)

=============================================================================
