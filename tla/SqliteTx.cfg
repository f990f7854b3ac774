CONSTANTS
  FileID = {f1}
  SessionID = {s1}
  ChunkID = {c1, c2}
  NodeID = {n1, n2}
  NoFile = NoFile
  Handler = {h1, h2}
  ReplicationFactor = 1
  ChunkSize = 2
  FileSizes = {3}
  EmptyID = EmptyID
  ReplicaLists <- MCReplicaLists
  Free = Free
  MaxBroken = 1
SYMMETRY Symmetry
SPECIFICATION SqliteSpec
INVARIANTS
  AckedCommitIsDurable
  DurableForeignKeys
  HolderNeverWaits
PROPERTIES
  ImplementsManifest
