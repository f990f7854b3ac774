------------------------------ MODULE Manifest ------------------------------
(***************************************************************************)
(* The life of a file in metad: the manifest manager                       *)
(* (internal/metadata/manifest), the placement engine it asks for replicas *)
(* and the gRPC handlers of cmd/metad/server.go that call it.              *)
(*                                                                         *)
(* A request runs in a goroutine of its own (a Handler).  CommitUpload is  *)
(* one transaction, hence one action.  PrepareUpload reads the healthy     *)
(* nodes and writes its rows in a later transaction; DeleteFile reads the  *)
(* file and updates it in a later statement; GetFile reads the file, its   *)
(* chunks and the locations of each chunk one statement after the other.   *)
(* The other writers of the database (node heartbeats, the health monitor  *)
(* and the repair scanner) run in between.                                 *)
(***************************************************************************)
EXTENDS MetaStore

CONSTANTS
  Handler,            \* goroutines serving requests
  ReplicationFactor,  \* placement.Engine.replicationFactor; any integer
  ChunkSize,          \* manifest.Manager.chunkSize
  FileSizes,          \* sizes a client may announce; the server wants them > 0
  EmptyID,            \* the empty string where a node_id is expected
  ReplicaLists        \* the node_id lists a client may send in a CommitUpload

ASSUME ManifestAssumption ==
  /\ ReplicationFactor \in Int
  /\ ChunkSize \in Nat \ {0}
  /\ FileSizes \subseteq Nat \ {0}
  /\ EmptyID \notin NodeID
  /\ ReplicaLists \subseteq Seq(NodeID \cup {EmptyID})

VARIABLES
  hpc,           \* what each handler is about to do
  hfile,         \* the file a DeleteFile or GetFile is about
  hnodes,        \* PrepareUpload: the healthy nodes it read
  htodo,         \* GetFile: chunks whose locations are still to be read
  hplan,         \* GetFile: the rows <<chunk, node>> of the reply built so far
  offered,       \* the replica map PrepareUpload returned for a session
  ackedDeletes   \* files whose DeleteFile was answered with success

handlerVars == <<hpc, hfile, hnodes, htodo, hplan>>
clientVars == <<offered, ackedDeletes>>
manifestVars == <<storeVars, handlerVars, clientVars>>

HandlerPC == {"idle", "prepare", "delete", "chunks", "locations", "reply"}

(* Every variable has the type the code gives it. *)
TypeOK ==
  /\ StoreTypeOK
  /\ hpc \in [Handler -> HandlerPC]
  /\ hfile \in [Handler -> FileID \cup {NoFile}]
  /\ hnodes \in [Handler -> SUBSET NodeID]
  /\ htodo \in [Handler -> SUBSET ChunkID]
  /\ hplan \in [Handler -> SUBSET (ChunkID \X NodeID)]
  /\ DOMAIN offered = SessionID
  /\ ackedDeletes \subseteq FileID

ManifestInit ==
  /\ StoreInit
  /\ hpc = [h \in Handler |-> "idle"]
  /\ hfile = [h \in Handler |-> NoFile]
  /\ hnodes = [h \in Handler |-> {}]
  /\ htodo = [h \in Handler |-> {}]
  /\ hplan = [h \in Handler |-> {}]
  /\ offered = [s \in SessionID |-> <<>>]
  /\ ackedDeletes = {}

\* The handler returns: its goroutine ends and its local state with it.
Return(h) ==
  /\ hpc' = [hpc EXCEPT ![h] = "idle"]
  /\ hfile' = [hfile EXCEPT ![h] = NoFile]
  /\ hnodes' = [hnodes EXCEPT ![h] = {}]
  /\ htodo' = [htodo EXCEPT ![h] = {}]
  /\ hplan' = [hplan EXCEPT ![h] = {}]

-----------------------------------------------------------------------------
(* PrepareUpload *)

ChunkCount(size) == (size + ChunkSize - 1) \div ChunkSize

\* Mutant: every replica is drawn from all the nodes, not from a permutation.
SelectWithReplacement(cs, nodes) ==
  IF ReplicationFactor <= 0 \/ Cardinality(nodes) < ReplicationFactor
  THEN {}
  ELSE [cs -> [1..ReplicationFactor -> nodes]]

\* SelectReplicas: for every chunk the first ReplicationFactor nodes of a
\* random permutation of the healthy ones; no result (an error) when there
\* are too few of them or the factor is not positive.
SelectReplicas(cs, nodes) ==
  IF ReplicationFactor <= 0 \/ Cardinality(nodes) < ReplicationFactor
  THEN {}
  ELSE [cs -> {list \in [1..ReplicationFactor -> nodes] : Injective(list)}]

PrepareUploadRead(h) ==
  /\ hpc[h] = "idle"
  /\ hpc' = [hpc EXCEPT ![h] = "prepare"]
  /\ hnodes' = [hnodes EXCEPT ![h] = ListHealthyNodes]
  /\ UNCHANGED <<storeVars, hfile, htodo, hplan, clientVars>>

\* The ids are fresh ULIDs; a clash would fail an INSERT and the transaction.
PrepareUploadTx(h, f, s, cs, size) ==
  /\ hpc[h] = "prepare"
  /\ Cardinality(cs) = ChunkCount(size)
  /\ CreateFile(f)
  /\ CreateUploadSession(s, f)
  /\ InsertChunks(cs, f)
  /\ \E rm \in SelectReplicas(cs, hnodes[h]) :
       offered' = [offered EXCEPT ![s] = rm]
  /\ Return(h)
  /\ UNCHANGED <<chunkLocations, nodeStatus, ackedDeletes>>

-----------------------------------------------------------------------------
(* CommitUpload *)

\* Mutant: the status of the file is not checked, only the session's.
CommitValidSessionOnly(s, rm) ==
  LET chunks == GetChunksByFileID(sessionFile[s])
  IN /\ sessionStatus[s] = "preparing"
     /\ chunks # {}
     /\ DOMAIN rm = chunks
     /\ \A c \in DOMAIN rm :
          /\ Len(rm[c]) >= ReplicationFactor
          /\ \A i \in DOMAIN rm[c] : rm[c][i] # EmptyID

\* Every check of CommitUpload on a session that is still to be committed.
\* len(replicaMap) is compared with the chunk count first, then every key
\* must be a chunk of the file.
CommitValid(s, rm) ==
  LET chunks == GetChunksByFileID(sessionFile[s])
  IN /\ GetUploadSession(s) = "preparing"
     /\ GetFile(sessionFile[s]) = "pending"
     /\ chunks # {}
     /\ Cardinality(DOMAIN rm) = Cardinality(chunks)
     /\ DOMAIN rm \subseteq chunks
     /\ \A c \in DOMAIN rm :
          /\ Len(rm[c]) >= ReplicationFactor
          /\ \A i \in DOMAIN rm[c] : rm[c][i] # EmptyID

\* Mutant: the session is not marked committed.
CommitUploadFileOnly(s, rm) ==
  /\ CommitValid(s, rm)
  /\ InsertChunkLocations(rm)
  /\ UpdateFileStatus(sessionFile[s], "committed")
  /\ UNCHANGED <<sessionStatus, sessionFile, chunkFile, nodeStatus,
                 handlerVars, clientVars>>

\* The whole transaction.  A committed session is answered with success and
\* a map that fails a check with an error; neither writes anything.
CommitUpload(s, rm) ==
  /\ CommitValid(s, rm)
  /\ InsertChunkLocations(rm)
  /\ UpdateFileStatus(sessionFile[s], "committed")
  /\ UpdateUploadSessionStatus(s, "committed")
  /\ UNCHANGED <<sessionFile, chunkFile, nodeStatus, handlerVars, clientVars>>

-----------------------------------------------------------------------------
(* DeleteFile *)

DeleteFileRead(h, f) ==
  /\ hpc[h] = "idle"
  /\ GetFile(f) # "none"
  /\ hpc' = [hpc EXCEPT ![h] = "delete"]
  /\ hfile' = [hfile EXCEPT ![h] = f]
  /\ UNCHANGED <<storeVars, hnodes, htodo, hplan, clientVars>>

\* Mutant: deleting a file puts it back to pending.
DeleteFileReopens(h) ==
  /\ hpc[h] = "delete"
  /\ UpdateFileStatus(hfile[h], "pending")
  /\ Return(h)
  /\ UNCHANGED <<sessionStatus, sessionFile, chunkFile, chunkLocations,
                 nodeStatus, clientVars>>

DeleteFileWrite(h) ==
  /\ hpc[h] = "delete"
  /\ UpdateFileStatus(hfile[h], "deleted")
  /\ ackedDeletes' = ackedDeletes \cup {hfile[h]}
  /\ Return(h)
  /\ UNCHANGED <<sessionStatus, sessionFile, chunkFile, chunkLocations,
                 nodeStatus, offered>>

-----------------------------------------------------------------------------
(* GetFile *)

\* Mutant: GetFile serves a file that is not committed.
GetFileReadAnyStatus(h, f) ==
  /\ hpc[h] = "idle"
  /\ GetFile(f) # "none"
  /\ hpc' = [hpc EXCEPT ![h] = "chunks"]
  /\ hfile' = [hfile EXCEPT ![h] = f]
  /\ UNCHANGED <<storeVars, hnodes, htodo, hplan, clientVars>>

GetFileRead(h, f) ==
  /\ hpc[h] = "idle"
  /\ GetFile(f) = "committed"
  /\ hpc' = [hpc EXCEPT ![h] = "chunks"]
  /\ hfile' = [hfile EXCEPT ![h] = f]
  /\ UNCHANGED <<storeVars, hnodes, htodo, hplan, clientVars>>

GetFileChunks(h) ==
  /\ hpc[h] = "chunks"
  /\ GetChunksByFileID(hfile[h]) # {}
  /\ htodo' = [htodo EXCEPT ![h] = GetChunksByFileID(hfile[h])]
  /\ hpc' = [hpc EXCEPT ![h] = "locations"]
  /\ UNCHANGED <<storeVars, hfile, hnodes, hplan, clientVars>>

\* Mutant: only the nodes that are healthy at this moment are named.
GetFileLocationsHealthy(h, c) ==
  /\ hpc[h] = "locations"
  /\ c \in htodo[h]
  /\ hplan' = [hplan EXCEPT ![h] =
                 @ \cup ({c} \X (GetChunkLocations(c) \cap ListHealthyNodes))]
  /\ htodo' = [htodo EXCEPT ![h] = @ \ {c}]
  /\ hpc' = [hpc EXCEPT ![h] = IF htodo[h] = {c} THEN "reply" ELSE @]
  /\ UNCHANGED <<storeVars, hfile, hnodes, clientVars>>

GetFileLocations(h, c) ==
  /\ hpc[h] = "locations"
  /\ c \in htodo[h]
  /\ hplan' = [hplan EXCEPT ![h] = @ \cup ({c} \X GetChunkLocations(c))]
  /\ htodo' = [htodo EXCEPT ![h] = @ \ {c}]
  /\ hpc' = [hpc EXCEPT ![h] = IF htodo[h] = {c} THEN "reply" ELSE @]
  /\ UNCHANGED <<storeVars, hfile, hnodes, clientVars>>

GetFileReply(h) ==
  /\ hpc[h] = "reply"
  /\ Return(h)
  /\ UNCHANGED <<storeVars, clientVars>>

-----------------------------------------------------------------------------
(* ListFiles: one statement, filtered by status. *)

ListFiles == {f \in FileID : GetFile(f) = "committed"}

-----------------------------------------------------------------------------
(* Failures and the other writers of the database *)

\* A statement fails, the request's context is cancelled, placement finds too
\* few nodes, or metad stops: the handler ends without an answer of success.
\* A crash of metad is this step for every handler.
HandlerError(h) ==
  /\ hpc[h] # "idle"
  /\ Return(h)
  /\ UNCHANGED <<storeVars, clientVars>>

\* Heartbeat: UpsertNodeHeartbeat registers the node or marks it healthy.
NodeHeartbeat(n) ==
  /\ HeartbeatMarks(n)
  /\ UNCHANGED <<fileTables, chunkLocations, handlerVars, clientVars>>

\* monitorOnce: a silent node is marked down.
NodeTimeout(n) ==
  /\ MonitorMarks(n)
  /\ UNCHANGED <<fileTables, chunkLocations, handlerVars, clientVars>>

\* Mutant: the scanner walks all chunks, not those of committed files.
RepairAddsAnyChunk(c, n) ==
  /\ chunkFile[c] # NoFile
  /\ AddChunkLocation(c, n)
  /\ UNCHANGED <<fileTables, nodeStatus, handlerVars, clientVars>>

\* The end of repairChunk.  The scanner only picks chunks of committed files
\* that have a location; the file may have been deleted since.
RepairAdds(c, n) ==
  /\ RepairRecords(c, n)
  /\ UNCHANGED <<fileTables, nodeStatus, handlerVars, clientVars>>

PrepareUpload(h) ==
  \/ PrepareUploadRead(h)
  \/ \E f \in FileID, s \in SessionID, cs \in SUBSET ChunkID, size \in FileSizes :
       PrepareUploadTx(h, f, s, cs, size)

\* The client sends a non-empty map.  Only a session that is preparing can be
\* committed: for the others CommitUpload changes nothing.
CommitUploadRequest ==
  \E s \in {t \in SessionID : GetUploadSession(t) = "preparing"} :
    \E D \in (SUBSET ChunkID) \ {{}} :
      \E rm \in [D -> ReplicaLists] : CommitUpload(s, rm)

DeleteFile(h) ==
  \/ \E f \in FileID : DeleteFileRead(h, f)
  \/ DeleteFileWrite(h)

GetFileRequest(h) ==
  \/ \E f \in FileID : GetFileRead(h, f)
  \/ GetFileChunks(h)
  \/ \E c \in ChunkID : GetFileLocations(h, c)
  \/ GetFileReply(h)

ManifestNext ==
  \/ \E h \in Handler : \/ PrepareUpload(h)
                        \/ DeleteFile(h)
                        \/ GetFileRequest(h)
                        \/ HandlerError(h)
  \/ CommitUploadRequest
  \/ \E n \in NodeID : NodeHeartbeat(n) \/ NodeTimeout(n)
  \/ \E c \in ChunkID, n \in NodeID : RepairAdds(c, n)

ManifestSpec == ManifestInit /\ [][ManifestNext]_manifestVars

-----------------------------------------------------------------------------
(* Properties *)

\* A file that readers can see is replicated: a committed file has a chunk,
\* and every chunk has ReplicationFactor DIFFERENT nodes recorded, although
\* CommitUpload counts list entries and never compares them.
CommittedFullyReplicated ==
  \A f \in ListFiles :
    /\ GetChunksByFileID(f) # {}
    /\ \A c \in GetChunksByFileID(f) :
         Cardinality(GetChunkLocations(c)) >= ReplicationFactor

\* No chunk of a file that was never committed has a location, so neither a
\* reader nor the repair scanner meets half an upload.
UncommittedHasNoLocations ==
  \A f \in FileID : fileStatus[f] = "pending" =>
    \A c \in GetChunksByFileID(f) : GetChunkLocations(c) = {}

\* The session and the file are committed by the same transaction: a session
\* is committed only if its file is or was, and a preparing session's file is
\* pending or was deleted, whatever retries and deletes come in between.
SessionFileAgreement ==
  \A s \in SessionID :
    /\ sessionStatus[s] = "committed" => fileStatus[sessionFile[s]] \in {"committed", "deleted"}
    /\ sessionStatus[s] = "preparing" => fileStatus[sessionFile[s]] \in {"pending", "deleted"}

\* A delete that was answered with success is final: no late CommitUpload, of
\* a session prepared before the delete, brings the file back.
AckedDeleteIsFinal ==
  \A f \in ackedDeletes : fileStatus[f] = "deleted"

\* The reply GetFile assembles from several statements lists every chunk of
\* the file with at least ReplicationFactor nodes, and only chunks of that
\* file, whatever was deleted, committed or repaired in between.
GetFilePlanComplete ==
  \A h \in Handler : hpc[h] = "reply" =>
    /\ \A l \in hplan[h] : chunkFile[l[1]] = hfile[h]
    /\ \A c \in GetChunksByFileID(hfile[h]) :
         Cardinality({n \in NodeID : <<c, n>> \in hplan[h]}) >= ReplicationFactor

\* What PrepareUpload offered can be committed: as long as the file is
\* pending, CommitUpload accepts the very map the client was given, even when
\* the nodes of the map have gone down since.
OfferedPlacementCommits ==
  \A s \in SessionID :
    sessionStatus[s] = "preparing" /\ fileStatus[sessionFile[s]] = "pending" =>
      /\ CommitValid(s, offered[s])
      /\ \A c \in DOMAIN offered[s] : Injective(offered[s][c])
      /\ RowsOf(offered[s]) \cap chunkLocations = {}

\* A file moves only forward (created pending, then committed, then deleted,
\* or deleted while pending), and a recorded location is never dropped.
ForwardOnly ==
  /\ \A f \in FileID :
       fileStatus'[f] # fileStatus[f] =>
         <<fileStatus[f], fileStatus'[f]>> \in
            {<<"none", "pending">>, <<"pending", "committed">>,
             <<"pending", "deleted">>, <<"committed", "deleted">>}
  /\ chunkLocations \subseteq chunkLocations'
  /\ \A c \in ChunkID : chunkFile[c] # NoFile => chunkFile'[c] = chunkFile[c]

LifecycleForward == [][ForwardOnly]_manifestVars

-----------------------------------------------------------------------------
(* What makes the properties inductive *)

\* Every session has a file of its own.
OneSessionPerFile ==
  \A s, t \in SessionID :
    sessionFile[s] = sessionFile[t] /\ sessionFile[s] # NoFile => s = t

\* The file was committed at some time, and still has all its locations.
EverCommitted(f) ==
  /\ fileStatus[f] \in {"committed", "deleted"}
  /\ \A c \in GetChunksByFileID(f) :
       Cardinality(GetChunkLocations(c)) >= ReplicationFactor

PlanNodes(h, c) == {n \in NodeID : <<c, n>> \in hplan[h]}

\* What a handler knows between two statements.
HandlerOK(h) ==
  /\ hpc[h] = "delete" => hfile[h] \in FileID /\ fileStatus[hfile[h]] # "none"
  /\ hpc[h] \in {"chunks", "locations", "reply"} =>
       hfile[h] \in FileID /\ EverCommitted(hfile[h])
  /\ hpc[h] \notin {"locations", "reply"} => htodo[h] = {} /\ hplan[h] = {}
  /\ hpc[h] = "locations" => htodo[h] \subseteq GetChunksByFileID(hfile[h])
  /\ hpc[h] = "reply" => htodo[h] = {}
  /\ hpc[h] \in {"locations", "reply"} =>
       /\ \A l \in hplan[h] : chunkFile[l[1]] = hfile[h]
       /\ \A c \in GetChunksByFileID(hfile[h]) \ htodo[h] :
            Cardinality(PlanNodes(h, c)) >= ReplicationFactor

HandlerInv == \A h \in Handler : HandlerOK(h)

\* The inductive invariant.
ManifestInv ==
  /\ TypeOK
  /\ ForeignKeys
  /\ OneSessionPerFile
  /\ CommittedFullyReplicated
  /\ UncommittedHasNoLocations
  /\ SessionFileAgreement
  /\ AckedDeleteIsFinal
  /\ OfferedPlacementCommits
  /\ HandlerInv

=============================================================================
