CONSTANTS
  t1 = t1
  t2 = t2
  c1 = c1
  c2 = c2
  d1 = d1
  d2 = d2
  Thread = {t1, t2}
  Chunk = {c1}
  Data = {d1, d2}
  Bytes <- MCBytes
  HeaderSize = 1
  MaxSize = 2
  Rotten = Rotten
  Torn = Torn
  None = None
  MayPut <- Anything
  MaxFaults = 0
  MaxDrift = 3
SPECIFICATION ChunkStoreSpec
PROPERTIES
  ChunkImmutable
