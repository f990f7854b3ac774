----------------------------- MODULE ChunkPlan -----------------------------
(***************************************************************************)
(* How a file is cut into chunks: the loop at the head of PrepareUpload    *)
(* with the width of its integers, the ids NewRequestID gives the chunks,  *)
(* a client that uploads the pieces of its file to them and GetFile, which *)
(* lists the chunks by chunk_index.                                        *)
(*                                                                         *)
(* PrepareUpload answers from a Go map, in no order, with neither index    *)
(* nor offset.  The only thing the client has to tell the first chunk from *)
(* the second is the order of the ids: it sorts the plan by chunk_id.      *)
(* Placement, transactions and commit are left to Manifest and SqliteTx.   *)
(***************************************************************************)
EXTENDS Integers, Sequences, FiniteSets

CONSTANTS
  MaxInt,        \* the largest int64
  ChunkSize,     \* manifest.Manager.chunkSize, from DetermineChunkSize
  FileSizes,     \* values of file_size_bytes in a request
  Entropy,       \* the random part of an id
  MaxMillis,     \* bound on the clock
  MaxChunk,      \* chunkstore's maxSize
  RecvLimits,    \* limits gRPC may have on a message received: its default,
                 \* which storaged leaves alone, or one that is raised
  Overhead       \* what a PutChunk message holds besides the data

ASSUME ChunkPlanAssumption ==
  /\ MaxInt \in Nat
  /\ ChunkSize \in 1..((MaxInt + 3) \div 2)
  /\ FileSizes \subseteq (-MaxInt - 1)..MaxInt
  /\ Entropy \subseteq Nat
  /\ MaxMillis \in Nat
  /\ MaxChunk \in Nat /\ RecvLimits \subseteq Nat /\ Overhead \in Nat

VARIABLES
  pc,          \* what happens next
  fileSize,    \* file_size_bytes of the request
  chunkCount,  \* chunkCount of PrepareUpload
  chunks,      \* the rows of the chunks so far, in the order of chunk_index
  now,         \* the clock, in milliseconds
  stored,      \* the piece of the file the client stored under a chunk
  contents,    \* the pieces of the file as a reader gets them
  maxRecv      \* the limit on a message the storage nodes were built with

planVars == <<pc, fileSize, chunkCount, chunks, now, stored, contents, maxRecv>>

PlanInit ==
  /\ pc = "idle"
  /\ fileSize = 0
  /\ chunkCount = 0
  /\ chunks = <<>>
  /\ now = 0
  /\ stored = <<>>
  /\ contents = <<>>
  /\ maxRecv \in RecvLimits

-----------------------------------------------------------------------------
(* Integers of the machine *)

\* The value x takes in an int64.
Wrap(x) == ((x + MaxInt + 1) % (2 * (MaxInt + 1))) - (MaxInt + 1)

\* Division of the machine rounds towards zero.
Quotient(x, y) == IF x >= 0 THEN x \div y ELSE -((-x) \div y)

-----------------------------------------------------------------------------
(* PrepareUpload *)

\* Mutant: the count is rounded down.
CountChunksDown(size) == Quotient(size, ChunkSize)

CountChunks(size) == Quotient(Wrap(Wrap(size + ChunkSize) - 1), ChunkSize)

\* The server refuses a size that is not positive; make panics on a negative
\* capacity, and metad stops.
PrepareUpload(size) ==
  /\ pc = "idle"
  /\ size > 0
  /\ fileSize' = size
  /\ chunkCount' = CountChunks(size)
  /\ pc' = IF CountChunks(size) < 0 THEN "panicked" ELSE "loop"
  /\ UNCHANGED <<chunks, now, stored, contents, maxRecv>>

\* The size of chunk i, counted from 0.
SizeOfChunk(i) ==
  LET remaining == Wrap(fileSize - Wrap(i * ChunkSize))
  IN IF i = chunkCount - 1 /\ remaining > 0 THEN remaining ELSE ChunkSize

\* NewRequestID: the time and fresh entropy.  The Monotonic reader lasts for
\* one call, so nothing orders two ids of the same millisecond; that they
\* differ is left to the 80 random bits.
NewRequestID(id) ==
  /\ id \in {now} \X Entropy
  /\ \A i \in DOMAIN chunks : chunks[i].id # id

AppendChunk(id) ==
  /\ pc = "loop"
  /\ Len(chunks) < chunkCount
  /\ NewRequestID(id)
  /\ chunks' = Append(chunks, [id |-> id, size |-> SizeOfChunk(Len(chunks))])
  /\ UNCHANGED <<pc, fileSize, chunkCount, now, stored, contents, maxRecv>>

\* The clock goes on while the loop runs, or is set back: time.Now().UTC() is
\* the clock of the wall.
Tick ==
  /\ pc = "loop"
  /\ now' \in (0..MaxMillis) \ {now}
  /\ UNCHANGED <<pc, fileSize, chunkCount, chunks, stored, contents, maxRecv>>

Reply ==
  /\ pc = "loop"
  /\ Len(chunks) = chunkCount
  /\ pc' = "planned"
  /\ UNCHANGED <<fileSize, chunkCount, chunks, now, stored, contents, maxRecv>>

-----------------------------------------------------------------------------
(* The client and the storage node *)

Before(a, b) == a[1] < b[1] \/ (a[1] = b[1] /\ a[2] < b[2])

\* The place of chunk i in the plan sorted by chunk_id.
Place(i) == 1 + Cardinality({j \in DOMAIN chunks : Before(chunks[j].id, chunks[i].id)})

\* The bytes of piece k of the file.
PieceSize(k) == IF k < chunkCount THEN ChunkSize ELSE fileSize - (chunkCount - 1) * ChunkSize

\* Mutant: the limit itself is refused.
AcceptsBelow(bytes) == bytes > 0 /\ bytes < MaxChunk /\ bytes + Overhead < maxRecv

\* gRPC refuses a message over its limit before PutChunk sees it; the store
\* refuses data that is empty or too long.
Accepts(bytes) == bytes > 0 /\ bytes <= MaxChunk /\ bytes + Overhead <= maxRecv

PutChunk(i) ==
  /\ pc = "planned"
  /\ i \notin DOMAIN stored
  /\ IF Accepts(PieceSize(Place(i)))
     THEN /\ stored' = [j \in DOMAIN stored \cup {i} |->
                          IF j = i THEN Place(i) ELSE stored[j]]
          /\ pc' = pc
     ELSE pc' = "refused" /\ UNCHANGED stored
  /\ UNCHANGED <<fileSize, chunkCount, chunks, now, contents, maxRecv>>

-----------------------------------------------------------------------------
(* GetFile: ORDER BY chunk_index *)

\* Mutant: ORDER BY chunk_index DESC.
ReadFileDescending ==
  /\ pc = "planned"
  /\ DOMAIN stored = DOMAIN chunks
  /\ contents' = [k \in DOMAIN chunks |-> stored[chunkCount + 1 - k]]
  /\ pc' = "read"
  /\ UNCHANGED <<fileSize, chunkCount, chunks, now, stored, maxRecv>>

ReadFile ==
  /\ pc = "planned"
  /\ DOMAIN stored = DOMAIN chunks
  /\ contents' = [k \in DOMAIN chunks |-> stored[k]]
  /\ pc' = "read"
  /\ UNCHANGED <<fileSize, chunkCount, chunks, now, stored, maxRecv>>

PlanNext ==
  \/ \E size \in FileSizes : PrepareUpload(size)
  \/ \E id \in {now} \X Entropy : AppendChunk(id)
  \/ Tick
  \/ Reply
  \/ \E i \in DOMAIN chunks : PutChunk(i)
  \/ ReadFile

PlanSpec == PlanInit /\ [][PlanNext]_planVars

-----------------------------------------------------------------------------
(* Properties *)

\* A plan is the file cut without gap or rest, although the count is computed
\* in an int64 that wraps: every chunk but the last has ChunkSize bytes, the
\* last one has what is left, at least one byte and at most ChunkSize.  A
\* size so large that the sum wraps never gets as far as a plan.
PlanCoversFile ==
  pc \notin {"idle", "panicked"} =>
    /\ fileSize > 0
    /\ chunkCount > 0
    /\ (chunkCount - 1) * ChunkSize < fileSize
    /\ fileSize <= chunkCount * ChunkSize
    /\ Len(chunks) <= chunkCount
    /\ \A i \in DOMAIN chunks :
         chunks[i].size = IF i < chunkCount THEN ChunkSize
                          ELSE fileSize - (chunkCount - 1) * ChunkSize

\* Two ids of the same millisecond are in the order in which NewRequestID gave
\* them, as docs/internal-packages.md says of it ("preserves ordering within
\* the same millisecond").
OrderedInMillisecond ==
  \A i, j \in DOMAIN chunks :
    i < j /\ chunks[i].id[1] = chunks[j].id[1] => Before(chunks[i].id, chunks[j].id)

\* Who reads the chunks in the order of GetFile gets every piece of the file
\* its uploader cut up, once, whatever ids the chunks got; and two pieces can
\* only be the wrong way round if the clock of NewRequestID did not go on
\* between their ids.
ReadBackByTime ==
  pc = "read" =>
    /\ {contents[k] : k \in DOMAIN contents} = 1..chunkCount
    /\ \A i, j \in DOMAIN chunks :
         i < j /\ chunks[i].id[1] < chunks[j].id[1] => contents[i] < contents[j]

\* The longest piece of the file, which need not be the first one sent.
LongestPiece == IF fileSize < ChunkSize THEN fileSize ELSE ChunkSize

\* Whether a file can be uploaded depends on its size alone, not on the order
\* of its chunks: no file is refused whose longest piece fits into a message
\* of the storage node, and none is complete whose longest piece does not.
\* With the chunk size and the limit the program has, which are the same
\* number of bytes, no file of a full chunk or more can be uploaded.
SizeDecidesUpload ==
  LET fits == LongestPiece <= MaxChunk /\ LongestPiece + Overhead <= maxRecv
  IN /\ pc = "refused" => ~fits
     /\ pc = "read" => fits

=============================================================================
