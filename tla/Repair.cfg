CONSTANTS
  c1 = c1
  c2 = c2
  f1 = f1
  f2 = f2
  n1 = n1
  n2 = n2
  n3 = n3
  n4 = n4
  FileID = {f1, f2}
  ChunkID = {c1, c2}
  NodeID = {n1, n2, n3}
  NoFile = NoFile
  NoChunk = NoChunk
  NoNode = NoNode
  ChunkOf <- MCChunkOf
  Rank <- MCRank
  ReplicationFactor = 2
  MaxFaults = 2
SPECIFICATION RepairSpec
INVARIANTS
  RepairTypeOK
  RecordedWasStored
  CopyFromRecorded
  PendingUntouched
PROPERTIES
  HealedUnlessLost
