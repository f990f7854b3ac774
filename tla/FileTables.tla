----------------------------- MODULE FileTables -----------------------------
(***************************************************************************)
(* The tables files, chunks and chunk_locations of the metadata database   *)
(* (internal/metadata/store) and the statements on them; the table nodes   *)
(* is in module NodeTable, upload_sessions in module MetaStore.            *)
(*                                                                         *)
(* NewSQLite keeps a single connection (SetMaxOpenConns(1)), so a          *)
(* statement, or a whole WithTx transaction, runs with no other statement  *)
(* in between: each is one step of the modules that use it.  A statement   *)
(* that can fail is a conjunct that is FALSE when it would return an       *)
(* error; a transaction is the conjunction of its statements, so it is     *)
(* applied as a whole or, when one statement fails, not at all.            *)
(*                                                                         *)
(* A table is a function from its primary key: "none" and NoFile stand     *)
(* for the absent row.  Names, sizes and creation times are left out.      *)
(***************************************************************************)
EXTENDS Integers, Sequences, FiniteSets, NodeTable

CONSTANTS
  FileID,      \* files.file_id
  ChunkID,     \* chunks.chunk_id
  NoFile       \* the file_id of a row that does not exist

ASSUME FileTablesAssumption ==
  /\ NoFile \notin FileID
  /\ IsFiniteSet(ChunkID)

VARIABLES
  fileStatus,      \* files.status by file_id
  chunkFile,       \* chunks.file_id by chunk_id
  chunkLocations   \* the rows of chunk_locations, a set of <<chunk_id, node_id>>

FileStatus == {"none", "pending", "committed", "deleted"}

FileTablesTypeOK ==
  /\ fileStatus \in [FileID -> FileStatus]
  /\ chunkFile \in [ChunkID -> FileID \cup {NoFile}]
  /\ chunkLocations \subseteq ChunkID \X NodeID

-----------------------------------------------------------------------------
(* files *)

CreateFile(f) ==
  /\ fileStatus[f] = "none"
  /\ fileStatus' = [fileStatus EXCEPT ![f] = "pending"]

GetFile(f) == fileStatus[f]

\* An UPDATE of a row that does not exist changes no row and is no error.
UpdateFileStatus(f, status) ==
  fileStatus' = [fileStatus EXCEPT ![f] = IF @ = "none" THEN @ ELSE status]

-----------------------------------------------------------------------------
(* chunks *)

InsertChunks(cs, f) ==
  /\ \A c \in cs : chunkFile[c] = NoFile
  /\ chunkFile' = [c \in ChunkID |-> IF c \in cs THEN f ELSE chunkFile[c]]

GetChunksByFileID(f) == {c \in ChunkID : chunkFile[c] = f}

\* Mutant: ListAllChunks, which does not join with files.
ListAllChunks == {c \in ChunkID : chunkFile[c] # NoFile}

ListCommittedChunks ==
  {c \in ChunkID : chunkFile[c] # NoFile /\ fileStatus[chunkFile[c]] = "committed"}

-----------------------------------------------------------------------------
(* chunk_locations: the primary key is (chunk_id, node_id). *)

GetChunkLocations(c) == {n \in NodeID : <<c, n>> \in chunkLocations}

Injective(list) == \A i, j \in DOMAIN list : list[i] = list[j] => i = j

\* The rows a replica map chunk_id -> sequence of node_ids asks for.
RowsOf(rm) == UNION {{<<c, rm[c][i]>> : i \in DOMAIN rm[c]} : c \in DOMAIN rm}

\* Mutant: INSERT OR IGNORE, a repeated row is skipped without an error.
InsertOrIgnoreLocations(rm) == chunkLocations' = chunkLocations \cup RowsOf(rm)

\* One INSERT per entry: a node named twice for a chunk, or a row already
\* there, breaks the primary key and fails the statement.
InsertChunkLocations(rm) ==
  /\ \A c \in DOMAIN rm : Injective(rm[c])
  /\ RowsOf(rm) \cap chunkLocations = {}
  /\ chunkLocations' = chunkLocations \cup RowsOf(rm)

\* Mutant: the two strings are bound in the wrong order.
AddChunkLocationSwapped(c, n) ==
  chunkLocations' = chunkLocations \cup {<<n, c>>}

\* A plain INSERT: it fails when the row is there already.
AddChunkLocation(c, n) ==
  /\ <<c, n>> \notin chunkLocations
  /\ chunkLocations' = chunkLocations \cup {<<c, n>>}

\* What a repair writes: one more location of a chunk that has one.
RepairRecords(c, n) == GetChunkLocations(c) # {} /\ AddChunkLocation(c, n)

=============================================================================
