----------------------------- MODULE MetaStore -----------------------------
(***************************************************************************)
(* The whole metadata database of metad: FileTables, NodeTable and the     *)
(* table upload_sessions with its statements.                              *)
(***************************************************************************)
EXTENDS FileTables

CONSTANT SessionID   \* upload_sessions.session_id

VARIABLES
  sessionStatus,   \* upload_sessions.status by session_id
  sessionFile      \* upload_sessions.file_id by session_id

fileTables == <<fileStatus, sessionStatus, sessionFile, chunkFile>>
storeVars == <<fileTables, chunkLocations, nodeStatus>>

SessionStatus == {"none", "preparing", "committed"}

StoreTypeOK ==
  /\ FileTablesTypeOK
  /\ NodeTypeOK
  /\ sessionStatus \in [SessionID -> SessionStatus]
  /\ sessionFile \in [SessionID -> FileID \cup {NoFile}]

\* bootstrapSchema on an empty database.
StoreInit ==
  /\ NodeInit
  /\ fileStatus = [f \in FileID |-> "none"]
  /\ chunkFile = [c \in ChunkID |-> NoFile]
  /\ chunkLocations = {}
  /\ sessionStatus = [s \in SessionID |-> "none"]
  /\ sessionFile = [s \in SessionID |-> NoFile]

\* Mutant: the session is created with the file's status constant.
CreateUploadSessionAsFile(s, f) ==
  /\ sessionStatus[s] = "none"
  /\ sessionStatus' = [sessionStatus EXCEPT ![s] = "pending"]
  /\ sessionFile' = [sessionFile EXCEPT ![s] = f]

CreateUploadSession(s, f) ==
  /\ sessionStatus[s] = "none"
  /\ sessionStatus' = [sessionStatus EXCEPT ![s] = "preparing"]
  /\ sessionFile' = [sessionFile EXCEPT ![s] = f]

GetUploadSession(s) == sessionStatus[s]

UpdateUploadSessionStatus(s, status) ==
  sessionStatus' = [sessionStatus EXCEPT ![s] = IF @ = "none" THEN @ ELSE status]

\* The FOREIGN KEY clauses of the schema, switched on by initPragmas: a row of
\* chunks or upload_sessions names an existing file, a location an existing
\* chunk.
ForeignKeys ==
  /\ \A s \in SessionID : sessionStatus[s] # "none" => sessionFile[s] # NoFile
  /\ \A s \in SessionID : sessionFile[s] # NoFile =>
       sessionStatus[s] # "none" /\ fileStatus[sessionFile[s]] # "none"
  /\ \A c \in ChunkID : chunkFile[c] # NoFile => fileStatus[chunkFile[c]] # "none"
  /\ \A l \in chunkLocations : chunkFile[l[1]] # NoFile

=============================================================================
