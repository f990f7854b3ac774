----------------------------- MODULE MCManifest -----------------------------
(* Model-checking instance of Manifest. *)
EXTENDS Manifest, TLC

\* The empty list, lists of two nodes (the same one twice included) and lists with an
\* empty id.
MCReplicaLists ==
  {<<>>} \cup (NodeID \X NodeID) \cup (NodeID \X {EmptyID})

Symmetry ==
  Permutations(Handler) \cup Permutations(FileID) \cup Permutations(SessionID)
    \cup Permutations(ChunkID) \cup Permutations(NodeID)

=============================================================================
