CONSTANTS
  FileID = {f1}
  SessionID = {s1}
  ChunkID = {c1}
  NodeID = {n1, n2, n3}
  NoFile = NoFile
  Handler = {h1, h2}
  ReplicationFactor = 2
  ChunkSize = 2
  FileSizes = {2}
  EmptyID = EmptyID
  ReplicaLists = {}
  MaxStops = 2
SYMMETRY Symmetry
SPECIFICATION ClusterSpec
INVARIANTS
  ClusterTypeOK
  RecordedIsHeld
  ReadSurvivesFailures
PROPERTIES
  ImplementsFileService
