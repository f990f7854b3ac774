------------------------------ MODULE SqliteTx ------------------------------
(***************************************************************************)
(* The transactions of SQLiteStore, statement by statement.  Manifest      *)
(* takes PrepareUpload's and CommitUpload's transactions as one step each; *)
(* here WithTx takes the only connection of the pool (SetMaxOpenConns(1)), *)
(* runs the statements of its function one after the other and commits or  *)
(* rolls back.  A statement outside a transaction needs the connection for *)
(* itself, so it waits for the transaction to end.                         *)
(*                                                                         *)
(* The table variables are what the connection sees: between BEGIN and     *)
(* COMMIT they hold the rows written so far, and saved holds the database  *)
(* as it was at BEGIN, which is what a rollback or a crash leaves.  The    *)
(* reads and checks at the head of CommitUpload's transaction see nobody   *)
(* else's writes and write nothing themselves: they are one step.          *)
(***************************************************************************)
EXTENDS Manifest

CONSTANTS
  Free,        \* nobody holds the connection
  MaxBroken    \* bound on the requests that hold a broken-off list of rows

ASSUME SqliteTxAssumption == Free \notin Handler /\ MaxBroken \in Nat

VARIABLES
  conn,          \* the handler whose transaction has the connection, or Free
  saved,         \* the tables at BEGIN, <<>> outside a transaction
  htx,           \* the arguments of a handler's transaction
  ackedCommits,  \* sessions whose CommitUpload was answered with success
  broken         \* requests whose list of rows broke off unnoticed

txVars == <<conn, saved, htx, ackedCommits, broken>>
sqliteVars == <<manifestVars, txVars>>

NoTx == [f |-> NoFile, s |-> NoFile, rm |-> <<>>, rows |-> {}]

\* The tables as one value.
Tables ==
  [files |-> fileStatus, chunks |-> chunkFile, locations |-> chunkLocations,
   nodes |-> nodeStatus, sessions |-> sessionStatus, owners |-> sessionFile]

\* What a crash now would leave behind.
Durable == IF conn = Free THEN Tables ELSE saved

SqliteInit ==
  /\ ManifestInit
  /\ conn = Free
  /\ saved = <<>>
  /\ htx = [h \in Handler |-> NoTx]
  /\ ackedCommits = {}
  /\ broken = {}

-----------------------------------------------------------------------------
(* WithTx *)

\* A step of the transaction: handler h is at statement pc and goes on to next.
InTx(h, pc, next) ==
  /\ conn = h
  /\ hpc[h] = pc
  /\ hpc' = [hpc EXCEPT ![h] = next]
  /\ UNCHANGED <<hfile, hnodes, htodo, hplan, clientVars, conn, saved,
                 ackedCommits, broken>>

BeginTx(h, tx, first) ==
  /\ conn = Free
  /\ conn' = h
  /\ saved' = Tables
  /\ htx' = [htx EXCEPT ![h] = tx]
  /\ hpc' = [hpc EXCEPT ![h] = first]
  /\ UNCHANGED <<storeVars, hfile, hnodes, htodo, hplan, clientVars,
                 ackedCommits, broken>>

EndTx(h) ==
  /\ conn' = Free
  /\ saved' = <<>>
  /\ htx' = [htx EXCEPT ![h] = NoTx]
  /\ Return(h)

\* Mutant: an error returns from WithTx without a rollback.
RollbackForgotten(h) ==
  /\ conn = h
  /\ EndTx(h)
  /\ UNCHANGED <<storeVars, clientVars, ackedCommits, broken>>

Rollback(h) ==
  /\ conn = h
  /\ fileStatus' = saved.files
  /\ chunkFile' = saved.chunks
  /\ chunkLocations' = saved.locations
  /\ nodeStatus' = saved.nodes
  /\ sessionStatus' = saved.sessions
  /\ sessionFile' = saved.owners
  /\ EndTx(h)
  /\ UNCHANGED <<clientVars, ackedCommits, broken>>

-----------------------------------------------------------------------------
(* PrepareUpload: the transaction after the placement *)

PrepareBegin(h, f, s, cs, size) ==
  /\ hpc[h] = "prepare"
  /\ fileStatus[f] = "none" /\ sessionStatus[s] = "none"
  /\ \A c \in cs : chunkFile[c] = NoFile
  /\ Cardinality(cs) = ChunkCount(size)
  /\ \E rm \in SelectReplicas(cs, hnodes[h]) :
       BeginTx(h, [f |-> f, s |-> s, rm |-> rm, rows |-> cs], "createFile")

\* Mutant: the row is updated instead of inserted.
PrepareUpdateFile(h) ==
  /\ InTx(h, "createFile", "createSession")
  /\ UpdateFileStatus(htx[h].f, "pending")
  /\ UNCHANGED <<sessionStatus, sessionFile, chunkFile, chunkLocations,
                 nodeStatus, htx>>

PrepareCreateFile(h) ==
  /\ InTx(h, "createFile", "createSession")
  /\ CreateFile(htx[h].f)
  /\ UNCHANGED <<sessionStatus, sessionFile, chunkFile, chunkLocations,
                 nodeStatus, htx>>

\* Mutant: the closure uses the manager's store instead of the transaction's,
\* and asks the pool for a second connection.
PrepareCreateSessionOutside(h) ==
  /\ conn = Free
  /\ InTx(h, "createSession", "insertChunks")
  /\ CreateUploadSession(htx[h].s, htx[h].f)
  /\ UNCHANGED <<fileStatus, chunkFile, chunkLocations, nodeStatus, htx>>

PrepareCreateSession(h) ==
  /\ InTx(h, "createSession", "insertChunks")
  /\ CreateUploadSession(htx[h].s, htx[h].f)
  /\ UNCHANGED <<fileStatus, chunkFile, chunkLocations, nodeStatus, htx>>

PrepareInsertChunk(h, c) ==
  /\ InTx(h, "insertChunks",
          IF htx[h].rows = {c} THEN "commitPrepare" ELSE "insertChunks")
  /\ c \in htx[h].rows
  /\ InsertChunks({c}, htx[h].f)
  /\ htx' = [htx EXCEPT ![h].rows = @ \ {c}]
  /\ UNCHANGED <<fileStatus, sessionStatus, sessionFile, chunkLocations,
                 nodeStatus>>

PrepareCommit(h) ==
  /\ conn = h
  /\ hpc[h] = "commitPrepare"
  /\ offered' = [offered EXCEPT ![htx[h].s] = htx[h].rm]
  /\ EndTx(h)
  /\ UNCHANGED <<storeVars, ackedDeletes, ackedCommits, broken>>

-----------------------------------------------------------------------------
(* CommitUpload *)

CommitBegin(h, s, rm) ==
  /\ hpc[h] = "idle"
  /\ BeginTx(h, [f |-> NoFile, s |-> s, rm |-> rm, rows |-> {}], "check")

\* A session or a file that is committed already is answered with success.
AlreadyCommitted(s) ==
  /\ GetUploadSession(s) # "none"
  /\ \/ GetUploadSession(s) = "committed"
     \/ GetUploadSession(s) = "preparing" /\ GetFile(sessionFile[s]) = "committed"

CommitCheckDone(h) ==
  /\ InTx(h, "check", "commitUpload")
  /\ AlreadyCommitted(htx[h].s)
  /\ UNCHANGED <<storeVars, htx>>

\* The rows to insert: a chunk and a position in its list.
LocationRows(rm) == UNION {{c} \X DOMAIN rm[c] : c \in DOMAIN rm}

CommitCheckPassed(h) ==
  /\ InTx(h, "check", IF LocationRows(htx[h].rm) = {} THEN "updateFile"
                                                      ELSE "insertLocations")
  /\ CommitValid(htx[h].s, htx[h].rm)
  /\ htx' = [htx EXCEPT ![h].f = sessionFile[htx[h].s],
                        ![h].rows = LocationRows(htx[h].rm)]
  /\ UNCHANGED storeVars

\* The entries of the list of a chunk are inserted in their order.
NextRow(h, r) ==
  r \in htx[h].rows /\ \A q \in htx[h].rows : q[1] = r[1] => r[2] <= q[2]

RowNode(h, r) == htx[h].rm[r[1]][r[2]]

CommitInsertLocation(h, r) ==
  /\ InTx(h, "insertLocations",
          IF htx[h].rows = {r} THEN "updateFile" ELSE "insertLocations")
  /\ NextRow(h, r)
  /\ AddChunkLocation(r[1], RowNode(h, r))
  /\ htx' = [htx EXCEPT ![h].rows = @ \ {r}]
  /\ UNCHANGED <<fileTables, nodeStatus>>

CommitUpdateFile(h) ==
  /\ InTx(h, "updateFile", "updateSession")
  /\ UpdateFileStatus(htx[h].f, "committed")
  /\ UNCHANGED <<sessionStatus, sessionFile, chunkFile, chunkLocations,
                 nodeStatus, htx>>

CommitUpdateSession(h) ==
  /\ InTx(h, "updateSession", "commitUpload")
  /\ UpdateUploadSessionStatus(htx[h].s, "committed")
  /\ UNCHANGED <<fileStatus, sessionFile, chunkFile, chunkLocations,
                 nodeStatus, htx>>

\* Mutant: success is reported before the COMMIT.
CommitUploadEarlyAnswer(h) ==
  /\ conn = h
  /\ hpc[h] = "commitUpload"
  /\ hpc' = [hpc EXCEPT ![h] = "answer"]
  /\ UNCHANGED <<storeVars, saved, conn, htx, hfile, hnodes, htodo, hplan, clientVars,
                 ackedCommits, broken>>

CommitUploadCommit(h) ==
  /\ conn = h
  /\ hpc[h] = "commitUpload"
  /\ hpc' = [hpc EXCEPT ![h] = "answer"]
  /\ conn' = Free
  /\ saved' = <<>>
  /\ UNCHANGED <<storeVars, htx, hfile, hnodes, htodo, hplan, clientVars,
                 ackedCommits, broken>>

CommitAnswer(h) ==
  /\ hpc[h] = "answer"
  /\ ackedCommits' = ackedCommits \cup {htx[h].s}
  /\ htx' = [htx EXCEPT ![h] = NoTx]
  /\ Return(h)
  /\ UNCHANGED <<storeVars, clientVars, conn, saved, broken>>

-----------------------------------------------------------------------------
(* Errors inside a transaction *)

\* A check of CommitUpload fails, or a row is in the table already.
CommitRefused(h) ==
  \/ /\ hpc[h] = "check"
     /\ ~AlreadyCommitted(htx[h].s)
     /\ ~CommitValid(htx[h].s, htx[h].rm)
  \/ /\ hpc[h] = "insertLocations"
     /\ \E r \in htx[h].rows :
          NextRow(h, r) /\ <<r[1], RowNode(h, r)>> \in chunkLocations

TxRefused(h) == CommitRefused(h) /\ Rollback(h)

\* A statement or the COMMIT fails for another reason, the request's context
\* is cancelled, or metad stops.  WithTx returns the error of a COMMIT without
\* a Rollback of its own; that the transaction is over then, and has written
\* nothing, is left to database/sql and the driver.
TxFault(h) == Rollback(h)

-----------------------------------------------------------------------------
(* Statements outside a transaction *)

\* The statement A waits for the connection and gives it back.
Single(A) == conn = Free /\ A /\ UNCHANGED txVars

\* No list query looks at rows.Err(): when the rows of GetChunksByFileID break
\* off, GetFile goes on with the ones it has (any of them: the ids are random
\* and only the chunk_index, which is left out, orders them).
GetFileChunksBroken(h) ==
  /\ conn = Free
  /\ Cardinality(broken) < MaxBroken
  /\ hpc[h] = "chunks"
  /\ \E part \in (SUBSET GetChunksByFileID(hfile[h])) \ {{}, GetChunksByFileID(hfile[h])} :
       htodo' = [htodo EXCEPT ![h] = part]
  /\ hpc' = [hpc EXCEPT ![h] = "locations"]
  /\ broken' = broken \cup {h}
  /\ UNCHANGED <<storeVars, hfile, hnodes, hplan, clientVars,
                 conn, saved, htx, ackedCommits>>

\* The same of the locations of a chunk.
GetFileLocationsBroken(h, c) ==
  /\ conn = Free
  /\ h \notin broken /\ Cardinality(broken) < MaxBroken
  /\ hpc[h] = "locations"
  /\ c \in htodo[h]
  /\ \E part \in (SUBSET GetChunkLocations(c)) \ {GetChunkLocations(c)} :
       hplan' = [hplan EXCEPT ![h] = @ \cup ({c} \X part)]
  /\ htodo' = [htodo EXCEPT ![h] = @ \ {c}]
  /\ hpc' = [hpc EXCEPT ![h] = IF htodo[h] = {c} THEN "reply" ELSE @]
  /\ broken' = broken \cup {h}
  /\ UNCHANGED <<storeVars, hfile, hnodes, clientVars,
                 conn, saved, htx, ackedCommits>>

GetFileAnswer(h) ==
  /\ GetFileReply(h)
  /\ broken' = broken \ {h}
  /\ UNCHANGED <<conn, saved, htx, ackedCommits>>

\* Placement finds too few nodes, or the bounded ids are used up.
PrepareGivesUp(h) ==
  /\ hpc[h] = "prepare"
  /\ \/ SelectReplicas({}, hnodes[h]) = {}
     \/ \A f \in FileID : fileStatus[f] # "none"
     \/ \A s \in SessionID : sessionStatus[s] # "none"
     \/ \A size \in FileSizes :
          Cardinality({c \in ChunkID : chunkFile[c] = NoFile}) < ChunkCount(size)
  /\ conn # h
  /\ HandlerError(h)
  /\ UNCHANGED txVars

\* An error or a crash outside a transaction, the answer of CommitUpload lost.
HandlerFault(h) ==
  /\ conn # h
  /\ hpc[h] # "idle"
  /\ htx' = [htx EXCEPT ![h] = NoTx]
  /\ broken' = broken \ {h}
  /\ Return(h)
  /\ UNCHANGED <<storeVars, clientVars, conn, saved, ackedCommits>>

TxStep(h) ==
  \/ PrepareCreateFile(h)
  \/ PrepareCreateSession(h)
  \/ \E c \in ChunkID : PrepareInsertChunk(h, c)
  \/ PrepareCommit(h)
  \/ CommitCheckDone(h)
  \/ CommitCheckPassed(h)
  \/ \E r \in htx[h].rows : CommitInsertLocation(h, r)
  \/ CommitUpdateFile(h)
  \/ CommitUpdateSession(h)
  \/ CommitUploadCommit(h)
  \/ TxRefused(h)

NewRequest(h) ==
  \/ Single(PrepareUploadRead(h))
  \/ \E s \in SessionID, D \in (SUBSET ChunkID) \ {{}} :
       \E rm \in [D -> ReplicaLists] : CommitBegin(h, s, rm)
  \/ \E f \in FileID : Single(DeleteFileRead(h, f)) \/ Single(GetFileRead(h, f))

\* The next statement of a request that needs the connection first.
NextStatement(h) ==
  \/ \E f \in FileID, s \in SessionID, cs \in SUBSET ChunkID, size \in FileSizes :
       PrepareBegin(h, f, s, cs, size)
  \/ Single(DeleteFileWrite(h))
  \/ Single(GetFileChunks(h))
  \/ GetFileChunksBroken(h)
  \/ \E c \in ChunkID : Single(GetFileLocations(h, c)) \/ GetFileLocationsBroken(h, c)

Finish(h) ==
  \/ CommitAnswer(h)
  \/ GetFileAnswer(h)
  \/ PrepareGivesUp(h)

SqliteNext ==
  \/ \E h \in Handler : \/ NewRequest(h)
                        \/ NextStatement(h)
                        \/ TxStep(h)
                        \/ Finish(h)
                        \/ TxFault(h)
                        \/ HandlerFault(h)
  \/ \E n \in NodeID : Single(NodeHeartbeat(n)) \/ Single(NodeTimeout(n))
  \/ \E c \in ChunkID, n \in NodeID : Single(RepairAdds(c, n))

SqliteSpec == SqliteInit /\ [][SqliteNext]_sqliteVars

-----------------------------------------------------------------------------
(* Properties *)

\* A handler as Manifest sees it: a transaction that has not ended has not
\* begun, and a request whose rows broke off has failed.
ManifestPC(h) ==
  IF h \in broken THEN "idle"
  ELSE IF hpc[h] \in HandlerPC THEN hpc[h]
  ELSE IF hpc[h] \in {"createFile", "createSession", "insertChunks", "commitPrepare"}
  THEN "prepare"
  ELSE "idle"

Unbroken(values, none) == [h \in Handler |-> IF h \in broken THEN none ELSE values[h]]

M == INSTANCE Manifest WITH
       fileStatus     <- Durable.files,
       chunkFile      <- Durable.chunks,
       chunkLocations <- Durable.locations,
       nodeStatus     <- Durable.nodes,
       sessionStatus  <- Durable.sessions,
       sessionFile    <- Durable.owners,
       hpc            <- [h \in Handler |-> ManifestPC(h)],
       hfile          <- Unbroken(hfile, NoFile),
       htodo          <- Unbroken(htodo, {}),
       hplan          <- Unbroken(hplan, {})

\* The transactions are atomic: whatever statement fails, whatever request is
\* cancelled and wherever metad stops, the database goes through the steps of
\* Manifest, where PrepareUpload and CommitUpload write everything at once,
\* and every request but one with a broken-off list is answered as there.
ImplementsManifest == M!ManifestSpec

\* A CommitUpload that was answered with success has happened: the session and
\* its file are committed in the database a crash would leave, also when the
\* answer is the one a repeated request gets.
AckedCommitIsDurable ==
  \A s \in ackedCommits :
    /\ Durable.sessions[s] = "committed"
    /\ Durable.files[Durable.owners[s]] \in {"committed", "deleted"}

\* The schema's references hold in the database without the help of the
\* foreign_keys pragma, which is set once, on the first connection of the
\* pool, and not on one that replaces it after an error.
DurableForeignKeys == M!ForeignKeys

\* Nobody who holds the only connection waits: whatever statement its
\* transaction has come to, it can run, or be refused, without a second
\* connection, which nobody could give back.
HolderNeverWaits == conn # Free => ENABLED TxStep(conn)

\* GetFile's plan names every chunk of the file with its nodes, as in Manifest.
TxPlanComplete ==
  \A h \in Handler : hpc[h] = "reply" =>
    \A c \in GetChunksByFileID(hfile[h]) :
      Cardinality(PlanNodes(h, c)) >= ReplicationFactor

=============================================================================
