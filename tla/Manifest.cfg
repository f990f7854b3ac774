CONSTANTS
  FileID = {f1, f2}
  SessionID = {s1, s2}
  ChunkID = {c1, c2}
  NodeID = {n1, n2, n3}
  NoFile = NoFile
  Handler = {h1, h2}
  ReplicationFactor = 2
  ChunkSize = 2
  FileSizes = {2, 3}
  EmptyID = EmptyID
  ReplicaLists <- MCReplicaLists
SYMMETRY Symmetry
SPECIFICATION ManifestSpec
INVARIANTS
  TypeOK
  CommittedFullyReplicated
  UncommittedHasNoLocations
  SessionFileAgreement
  AckedDeleteIsFinal
  GetFilePlanComplete
  OfferedPlacementCommits
PROPERTIES
  LifecycleForward
