CONSTANTS
  Rpc = {r1, r2}
  Worker = {"updater", "monitor", "scanner"}
  FileID = {f1}
  ChunkID = {c1}
  NodeID = {n1, n2}
  NoFile = NoFile
SPECIFICATION MetadSpec
CHECK_DEADLOCK FALSE
INVARIANTS
  LifecycleTypeOK
  RpcsDrained
  GaugesNotAhead
PROPERTIES
  ShutdownCompletes
  GaugesConverge
