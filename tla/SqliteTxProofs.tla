--------------------------- MODULE SqliteTxProofs ---------------------------
(***************************************************************************)
(* Proofs about module SqliteTx, for any files, sessions, chunks, nodes,   *)
(* handlers and replica maps: the transactions, statement by statement and *)
(* with every failure between two statements, implement Manifest, where    *)
(* each is one step; so the database a crash leaves behind satisfies all   *)
(* that is proved about Manifest.                                          *)
(*                                                                         *)
(* The heart of the inductive invariant says, for every statement the      *)
(* holder of the connection has come to, how far the tables it sees have   *)
(* moved away from the ones a crash would leave (PrepareTxOK, CommitTxOK). *)
(* MP is module ManifestProofs about the database a crash would leave.     *)
(***************************************************************************)
EXTENDS SqliteTx, FiniteSetTheorems, WellFoundedInduction, TLAPS

MP == INSTANCE ManifestProofs WITH
        fileStatus     <- Durable.files,
        chunkFile      <- Durable.chunks,
        chunkLocations <- Durable.locations,
        nodeStatus     <- Durable.nodes,
        sessionStatus  <- Durable.sessions,
        sessionFile    <- Durable.owners,
        hpc            <- [h \in Handler |-> ManifestPC(h)],
        hfile          <- Unbroken(hfile, NoFile),
        htodo          <- Unbroken(htodo, {}),
        hplan          <- Unbroken(hplan, {})

\* The statements of the two transactions.
PreparePC == {"createFile", "createSession", "insertChunks", "commitPrepare"}
CommitPC == {"check", "insertLocations", "updateFile", "updateSession", "commitUpload"}

\* A transaction's arguments have the shape of NoTx.
IsTx(tx) == tx = [f |-> tx.f, s |-> tx.s, rm |-> tx.rm, rows |-> tx.rows]

TxTypeOK ==
  /\ hpc \in [Handler -> HandlerPC \cup PreparePC \cup CommitPC \cup {"answer"}]
  /\ hfile \in [Handler -> FileID \cup {NoFile}]
  /\ hnodes \in [Handler -> SUBSET NodeID]
  /\ htodo \in [Handler -> SUBSET ChunkID]
  /\ hplan \in [Handler -> SUBSET (ChunkID \X NodeID)]
  /\ conn \in Handler \cup {Free}
  /\ htx = [h \in Handler |-> htx[h]]
  /\ \A h \in Handler : IsTx(htx[h])
  /\ ackedCommits \subseteq SessionID
  /\ broken \subseteq Handler

\* Who is inside a transaction, who has a broken list, and what is empty in a
\* handler that is not reading a file or preparing an upload.
HandlerLocal(h) ==
  /\ hpc[h] \in PreparePC \cup CommitPC <=> conn = h
  /\ h \in broken => hpc[h] \in {"locations", "reply"}
  /\ hpc[h] \notin PreparePC \cup {"prepare"} => hnodes[h] = {}
  /\ hpc[h] \notin {"delete", "chunks", "locations", "reply"} => hfile[h] = NoFile
  /\ hpc[h] \notin {"locations", "reply"} => htodo[h] = {} /\ hplan[h] = {}

LocalInv == \A h \in Handler : HandlerLocal(h)

\* What PrepareUpload's transaction has written when it comes to a statement.
PrepareTxOK(h) ==
  LET tx == htx[h]
      cs == DOMAIN htx[h].rm
  IN /\ tx.f \in FileID /\ tx.s \in SessionID /\ cs \subseteq ChunkID /\ cs # {}
     /\ \E size \in FileSizes : Cardinality(cs) = ChunkCount(size)
     /\ tx.rm \in SelectReplicas(cs, hnodes[h])
     /\ Durable.files[tx.f] = "none" /\ Durable.sessions[tx.s] = "none"
     /\ \A c \in cs : Durable.chunks[c] = NoFile
     /\ tx.rows \subseteq cs
     /\ hpc[h] \in {"createFile", "createSession"} => tx.rows = cs
     /\ hpc[h] = "commitPrepare" <=> tx.rows = {}
     /\ fileStatus = IF hpc[h] = "createFile" THEN Durable.files
                     ELSE [Durable.files EXCEPT ![tx.f] = "pending"]
     /\ sessionStatus = IF hpc[h] \in {"createFile", "createSession"} THEN Durable.sessions
                        ELSE [Durable.sessions EXCEPT ![tx.s] = "preparing"]
     /\ sessionFile = IF hpc[h] \in {"createFile", "createSession"} THEN Durable.owners
                      ELSE [Durable.owners EXCEPT ![tx.s] = tx.f]
     /\ chunkFile = [c \in ChunkID |-> IF c \in cs \ tx.rows THEN tx.f ELSE Durable.chunks[c]]
     /\ chunkLocations = Durable.locations
     /\ nodeStatus = Durable.nodes

\* The rows of the replica map that are in chunk_locations by now.
Written(h) == LocationRows(htx[h].rm) \ htx[h].rows

\* CommitUpload's transaction after its checks have passed.
CommitWrites(h) ==
  LET tx == htx[h]
  IN /\ hpc[h] # "check"
     /\ tx.f = Durable.owners[tx.s]
     /\ MP!CommitValid(tx.s, tx.rm)
     /\ tx.rows \subseteq LocationRows(tx.rm)
     /\ hpc[h] = "insertLocations" <=> tx.rows # {}
     /\ chunkLocations = Durable.locations \cup {<<r[1], RowNode(h, r)>> : r \in Written(h)}
     /\ \A r \in Written(h) : <<r[1], RowNode(h, r)>> \notin Durable.locations
     /\ \A q, r \in Written(h) : q[1] = r[1] /\ RowNode(h, q) = RowNode(h, r) => q = r
     /\ fileStatus = IF hpc[h] \in {"updateSession", "commitUpload"}
                     THEN [Durable.files EXCEPT ![tx.f] = "committed"] ELSE Durable.files
     /\ sessionStatus = IF hpc[h] = "commitUpload"
                        THEN [Durable.sessions EXCEPT ![tx.s] = "committed"] ELSE Durable.sessions

\* CommitUpload's transaction while it has nothing to write: before the checks,
\* or when the session is committed already.
CommitReads(h) ==
  /\ hpc[h] \in {"check", "commitUpload"}
  /\ hpc[h] = "commitUpload" => Durable.sessions[htx[h].s] = "committed"
  /\ fileStatus = Durable.files
  /\ sessionStatus = Durable.sessions
  /\ chunkLocations = Durable.locations

CommitTxOK(h) ==
  LET tx == htx[h]
  IN /\ tx.s \in SessionID
     /\ DOMAIN tx.rm \subseteq ChunkID /\ DOMAIN tx.rm # {}
     /\ tx.rm \in [DOMAIN tx.rm -> ReplicaLists]
     /\ sessionFile = Durable.owners
     /\ chunkFile = Durable.chunks
     /\ nodeStatus = Durable.nodes
     /\ IF tx.f = NoFile THEN CommitReads(h) ELSE CommitWrites(h)

TxOK(h) ==
  /\ hpc[h] \in PreparePC => PrepareTxOK(h)
  /\ hpc[h] \in CommitPC => CommitTxOK(h)

\* A commit that was, or is about to be, answered with success is durable.
AnswersDurable ==
  /\ \A s \in ackedCommits : Durable.sessions[s] = "committed"
  /\ \A h \in Handler : hpc[h] = "answer" =>
       htx[h].s \in SessionID /\ Durable.sessions[htx[h].s] = "committed"

\* The inductive invariant.
SqliteInv ==
  /\ TxTypeOK
  /\ LocalInv
  /\ \A h \in Handler : conn = h => TxOK(h)
  /\ AnswersDurable
  /\ MP!ManifestInv

-----------------------------------------------------------------------------
(* What is proved about Manifest, said of the database a crash would leave *)

\* The two instances share the definitions of FiniteSets.
LEMMA SameSets ==
  /\ \A S : MP!IsFiniteSet(S) <=> IsFiniteSet(S)
  /\ \A S : MP!Cardinality(S) = Cardinality(S)
  /\ \A S : M!Cardinality(S) = Cardinality(S)
<1>1. \A S : MP!IsFiniteSet(S) <=> IsFiniteSet(S)
  BY DEF IsFiniteSet, MP!IsFiniteSet
<1>2. \A S : MP!Cardinality(S) = Cardinality(S)
  BY DEF Cardinality, MP!Cardinality
<1>3. \A S : M!Cardinality(S) = Cardinality(S)
  BY DEF Cardinality, M!Cardinality
<1> QED
  BY <1>1, <1>2, <1>3

\* The inductive invariant of Manifest, and its committed sessions.
LEMMA DurableNext ==
  MP!ManifestInv /\ [MP!ManifestNext]_(MP!manifestVars) =>
    /\ MP!ManifestInv'
    /\ \A s \in SessionID : Durable.sessions[s] = "committed" => Durable'.sessions[s] = "committed"
<1>1. MP!ManifestInv /\ [MP!ManifestNext]_(MP!manifestVars) => MP!ManifestInv'
  BY SameSets, MP!NextInv, NodeAssumption, FileTablesAssumption, ManifestAssumption
<1>2. MP!ManifestInv /\ [MP!ManifestNext]_(MP!manifestVars) =>
        \A s \in SessionID : Durable.sessions[s] = "committed" => Durable'.sessions[s] = "committed"
  BY SameSets, MP!SessionsStayCommitted, NodeAssumption, FileTablesAssumption, ManifestAssumption
<1> QED
  BY <1>1, <1>2

\* Manifest's variables, as the database a crash would leave and the handlers
\* as Manifest sees them.
HPC == [h \in Handler |-> ManifestPC(h)]
HFile == Unbroken(hfile, NoFile)
HTodo == Unbroken(htodo, {})
HPlan == Unbroken(hplan, {})

durableTables ==
  <<Durable.files, Durable.chunks, Durable.locations, Durable.nodes, Durable.sessions, Durable.owners>>

-----------------------------------------------------------------------------
(* The database a crash would leave *)

\* While nobody holds the connection it is what the tables hold.
LEMMA FreeDurable ==
  conn = Free =>
    /\ Durable.files = fileStatus /\ Durable.chunks = chunkFile
    /\ Durable.locations = chunkLocations /\ Durable.nodes = nodeStatus
    /\ Durable.sessions = sessionStatus /\ Durable.owners = sessionFile
BY DEF Durable, Tables

\* The same of the state after a step.
LEMMA FreeDurableNext ==
  conn' = Free =>
    /\ Durable'.files = fileStatus' /\ Durable'.chunks = chunkFile'
    /\ Durable'.locations = chunkLocations' /\ Durable'.nodes = nodeStatus'
    /\ Durable'.sessions = sessionStatus' /\ Durable'.owners = sessionFile'
BY DEF Durable, Tables

\* Writing, rolling back, beginning and keeping the connection leave it alone.
LEMMA DurableKept ==
  ASSUME TxTypeOK,
         \/ UNCHANGED <<storeVars, conn, saved>>
         \/ \E h \in Handler : conn = h /\ UNCHANGED <<conn, saved>>
         \/ \E h \in Handler : Rollback(h)
         \/ \E h \in Handler : conn = Free /\ conn' = h /\ saved' = Tables
  PROVE  UNCHANGED durableTables
<1>1. CASE UNCHANGED <<storeVars, conn, saved>>
  BY <1>1 DEF durableTables, Durable, Tables, storeVars, fileTables
<1>2. ASSUME NEW h \in Handler, conn = h, UNCHANGED <<conn, saved>>
      PROVE  UNCHANGED durableTables
  BY <1>2, SqliteTxAssumption DEF durableTables, Durable
<1>3. ASSUME NEW h \in Handler, Rollback(h)
      PROVE  UNCHANGED durableTables
  <2>1. Durable = saved
    BY <1>3, SqliteTxAssumption DEF Rollback, Durable
  <2>2. conn' = Free
    BY <1>3 DEF Rollback, EndTx
  <2> QED
    BY <1>3, <2>1, <2>2, FreeDurableNext DEF Rollback, durableTables
<1>4. ASSUME NEW h \in Handler, conn = Free, conn' = h, saved' = Tables
      PROVE  UNCHANGED durableTables
  <2>1. Durable' = saved'
    BY <1>4, SqliteTxAssumption DEF Durable
  <2>2. Durable = Tables
    BY <1>4 DEF Durable
  <2> QED
    BY <1>4, <2>1, <2>2 DEF durableTables
<1> QED
  BY <1>1, <1>2, <1>3, <1>4

-----------------------------------------------------------------------------
(* The handlers as Manifest sees them *)

\* Only handler h moves.
OnlyHandler(h) ==
  \A g \in Handler \ {h} :
    /\ hpc'[g] = hpc[g] /\ hfile'[g] = hfile[g]
    /\ htodo'[g] = htodo[g] /\ hplan'[g] = hplan[g]
    /\ g \in broken' <=> g \in broken

\* Then only h moves for Manifest.
LEMMA OnlyHandlerMapped ==
  ASSUME NEW h \in Handler, OnlyHandler(h)
  PROVE  /\ HPC' = [HPC EXCEPT ![h] = ManifestPC(h)']
         /\ HFile' = [HFile EXCEPT ![h] = IF h \in broken' THEN NoFile ELSE hfile'[h]]
         /\ HTodo' = [HTodo EXCEPT ![h] = IF h \in broken' THEN {} ELSE htodo'[h]]
         /\ HPlan' = [HPlan EXCEPT ![h] = IF h \in broken' THEN {} ELSE hplan'[h]]
<1>1. \A g \in Handler \ {h} : ManifestPC(g)' = ManifestPC(g)
  BY DEF OnlyHandler, ManifestPC
<1>2. HPC' = [HPC EXCEPT ![h] = ManifestPC(h)']
  BY <1>1 DEF HPC
<1>3. HFile' = [HFile EXCEPT ![h] = IF h \in broken' THEN NoFile ELSE hfile'[h]]
  BY DEF OnlyHandler, HFile, Unbroken
<1>4. HTodo' = [HTodo EXCEPT ![h] = IF h \in broken' THEN {} ELSE htodo'[h]]
  BY DEF OnlyHandler, HTodo, Unbroken
<1>5. HPlan' = [HPlan EXCEPT ![h] = IF h \in broken' THEN {} ELSE hplan'[h]]
  BY DEF OnlyHandler, HPlan, Unbroken
<1> QED
  BY <1>2, <1>3, <1>4, <1>5

\* A handler whose list did not break off is seen as it is.
LEMMA HandlerSeen ==
  ASSUME NEW h \in Handler
  PROVE  /\ HPC[h] = ManifestPC(h)
         /\ h \in broken => HPC[h] = "idle" /\ HFile[h] = NoFile /\ HTodo[h] = {} /\ HPlan[h] = {}
         /\ h \notin broken => HFile[h] = hfile[h] /\ HTodo[h] = htodo[h] /\ HPlan[h] = hplan[h]
         /\ h \notin broken /\ hpc[h] \in HandlerPC => HPC[h] = hpc[h]
         /\ h \notin broken /\ hpc[h] \in PreparePC => HPC[h] = "prepare"
         /\ hpc[h] \in CommitPC \cup {"answer"} => HPC[h] = "idle"
BY DEF HPC, HFile, HTodo, HPlan, Unbroken, ManifestPC, HandlerPC, PreparePC, CommitPC

\* A step Manifest does not see.
LEMMA AsStutter ==
  ASSUME UNCHANGED <<durableTables, HPC, HFile, hnodes, HTodo, HPlan, clientVars>>
  PROVE  UNCHANGED MP!manifestVars
BY DEF durableTables, HPC, HFile, HTodo, HPlan, clientVars, MP!manifestVars, MP!storeVars,
       MP!fileTables, MP!handlerVars, MP!clientVars

\* A handler that returns, however it does, is to Manifest a handler that
\* failed or has nothing to lose.
LEMMA ReturnRefines ==
  ASSUME TxTypeOK, LocalInv, NEW h \in Handler, Return(h), broken' = broken \ {h},
         UNCHANGED <<durableTables, clientVars>>
  PROVE  [MP!ManifestNext]_(MP!manifestVars)
<1>1. OnlyHandler(h)
  BY DEF TxTypeOK, OnlyHandler, Return
<1>2. /\ h \notin broken' /\ hpc'[h] = "idle" /\ hfile'[h] = NoFile
      /\ htodo'[h] = {} /\ hplan'[h] = {}
  BY DEF TxTypeOK, Return
<1>3. ManifestPC(h)' = "idle"
  BY <1>2 DEF ManifestPC, HandlerPC
<1>4. /\ HPC' = [HPC EXCEPT ![h] = "idle"] /\ HFile' = [HFile EXCEPT ![h] = NoFile]
      /\ HTodo' = [HTodo EXCEPT ![h] = {}] /\ HPlan' = [HPlan EXCEPT ![h] = {}]
      /\ hnodes' = [hnodes EXCEPT ![h] = {}]
  BY <1>1, <1>2, <1>3, OnlyHandlerMapped DEF Return
<1>5. CASE HPC[h] = "idle"
  <2>1. hpc[h] \in CommitPC \cup {"answer", "idle"} \/ h \in broken
    BY <1>5, HandlerSeen DEF TxTypeOK, HandlerPC, PreparePC, CommitPC
  <2>2. hnodes[h] = {} /\ HFile[h] = NoFile /\ HTodo[h] = {} /\ HPlan[h] = {}
    BY <2>1, HandlerSeen DEF LocalInv, HandlerLocal, PreparePC, CommitPC
  <2>3. UNCHANGED <<HPC, HFile, hnodes, HTodo, HPlan>>
    <3>1. HPC' = HPC
      BY <1>4, <1>5 DEF HPC
    <3>2. HFile' = HFile /\ HTodo' = HTodo /\ HPlan' = HPlan
      BY <1>4, <2>2 DEF HFile, HTodo, HPlan, Unbroken
    <3>3. hnodes' = hnodes
      BY <1>4, <2>2 DEF TxTypeOK
    <3> QED
      BY <3>1, <3>2, <3>3
  <2> QED
    BY <2>3, AsStutter
<1>6. CASE HPC[h] # "idle"
  <2>1. MP!HandlerError(h)
    BY <1>4, <1>6 DEF MP!HandlerError, MP!Return, MP!storeVars, MP!fileTables, MP!clientVars,
                      HPC, HFile, HTodo, HPlan, durableTables, clientVars
  <2> QED
    BY <2>1 DEF MP!ManifestNext
<1> QED
  BY <1>5, <1>6

-----------------------------------------------------------------------------
(* Single statements are steps of Manifest *)

\* What a statement outside a transaction means for the two views.
LEMMA SingleDurable ==
  ASSUME conn = Free, UNCHANGED txVars
  PROVE  /\ Durable.files = fileStatus /\ Durable'.files = fileStatus'
         /\ Durable.chunks = chunkFile /\ Durable'.chunks = chunkFile'
         /\ Durable.locations = chunkLocations /\ Durable'.locations = chunkLocations'
         /\ Durable.nodes = nodeStatus /\ Durable'.nodes = nodeStatus'
         /\ Durable.sessions = sessionStatus /\ Durable'.sessions = sessionStatus'
         /\ Durable.owners = sessionFile /\ Durable'.owners = sessionFile'
BY FreeDurable, FreeDurableNext DEF txVars

\* The first statement of a request: nobody's list has broken off yet.
LEMMA FirstReadRefines ==
  ASSUME TxTypeOK, LocalInv, NEW h \in Handler, conn = Free, UNCHANGED txVars,
         PrepareUploadRead(h) \/ \E f \in FileID : DeleteFileRead(h, f) \/ GetFileRead(h, f)
  PROVE  MP!ManifestNext
<1>1. /\ hpc[h] = "idle" /\ h \notin broken /\ broken' = broken
      /\ UNCHANGED <<storeVars, clientVars, htodo, hplan>>
  BY DEF PrepareUploadRead, DeleteFileRead, GetFileRead, LocalInv, HandlerLocal, txVars
<1>2. UNCHANGED durableTables
  BY <1>1, DurableKept DEF txVars
<1>3. OnlyHandler(h)
  BY <1>1 DEF PrepareUploadRead, DeleteFileRead, GetFileRead, TxTypeOK, OnlyHandler
<1>4. HPC[h] = "idle"
  BY <1>1, HandlerSeen DEF HandlerPC
<1>5. HTodo' = HTodo /\ HPlan' = HPlan
  BY <1>1 DEF HTodo, HPlan, Unbroken
<1>6. hpc'[h] \in HandlerPC => HPC' = [HPC EXCEPT ![h] = hpc'[h]]
  BY <1>1, <1>3, OnlyHandlerMapped DEF ManifestPC
<1>7. HFile' = [HFile EXCEPT ![h] = hfile'[h]]
  BY <1>1, <1>3, OnlyHandlerMapped
<1>8. CASE PrepareUploadRead(h)
  <2>1. HPC' = [HPC EXCEPT ![h] = "prepare"]
    BY <1>6, <1>8 DEF PrepareUploadRead, HandlerPC, TxTypeOK
  <2>2. HFile' = HFile
    BY <1>1, <1>8 DEF PrepareUploadRead, HFile, Unbroken
  <2>3. hnodes' = [hnodes EXCEPT ![h] = {n \in NodeID : Durable.nodes[n] = "healthy"}]
    BY <1>8, FreeDurable DEF PrepareUploadRead, ListHealthyNodes
  <2>4. MP!PrepareUploadRead(h)
    BY <1>1, <1>2, <1>4, <1>5, <2>1, <2>2, <2>3
       DEF MP!PrepareUploadRead, MP!ListHealthyNodes, MP!storeVars, MP!fileTables, MP!clientVars,
           HPC, HFile, HTodo, HPlan, durableTables, clientVars
  <2> QED
    BY <2>4 DEF MP!ManifestNext, MP!PrepareUpload
<1>9. ASSUME NEW f \in FileID, DeleteFileRead(h, f)
      PROVE  MP!ManifestNext
  <2>1. HPC' = [HPC EXCEPT ![h] = "delete"] /\ HFile' = [HFile EXCEPT ![h] = f]
    BY <1>6, <1>7, <1>9 DEF DeleteFileRead, HandlerPC, TxTypeOK
  <2>2. Durable.files[f] # "none" /\ hnodes' = hnodes
    BY <1>9, FreeDurable DEF DeleteFileRead, GetFile
  <2>3. MP!DeleteFileRead(h, f)
    BY <1>1, <1>2, <1>4, <1>5, <2>1, <2>2
       DEF MP!DeleteFileRead, MP!GetFile, MP!storeVars, MP!fileTables, MP!clientVars,
           HPC, HFile, HTodo, HPlan, durableTables, clientVars
  <2> QED
    BY <2>3 DEF MP!ManifestNext, MP!DeleteFile
<1>10. ASSUME NEW f \in FileID, GetFileRead(h, f)
       PROVE  MP!ManifestNext
  <2>1. HPC' = [HPC EXCEPT ![h] = "chunks"] /\ HFile' = [HFile EXCEPT ![h] = f]
    BY <1>6, <1>7, <1>10 DEF GetFileRead, HandlerPC, TxTypeOK
  <2>2. Durable.files[f] = "committed" /\ hnodes' = hnodes
    BY <1>10, FreeDurable DEF GetFileRead, GetFile
  <2>3. MP!GetFileRead(h, f)
    BY <1>1, <1>2, <1>4, <1>5, <2>1, <2>2
       DEF MP!GetFileRead, MP!GetFile, MP!storeVars, MP!fileTables, MP!clientVars,
           HPC, HFile, HTodo, HPlan, durableTables, clientVars
  <2> QED
    BY <2>3 DEF MP!ManifestNext, MP!GetFileRequest
<1> QED
  BY <1>8, <1>9, <1>10

\* The UPDATE of DeleteFile.
LEMMA DeleteWriteRefines ==
  ASSUME TxTypeOK, LocalInv, NEW h \in Handler, conn = Free, UNCHANGED txVars, DeleteFileWrite(h)
  PROVE  MP!ManifestNext
<1>1. hpc[h] = "delete" /\ h \notin broken /\ broken' = broken
  BY DEF DeleteFileWrite, LocalInv, HandlerLocal, txVars
<1>2. OnlyHandler(h) /\ hpc'[h] = "idle" /\ hfile'[h] = NoFile /\ htodo'[h] = {} /\ hplan'[h] = {}
  BY <1>1 DEF DeleteFileWrite, Return, TxTypeOK, OnlyHandler
<1>3. ManifestPC(h)' = "idle"
  BY <1>1, <1>2 DEF ManifestPC, HandlerPC
<1>4. /\ HPC' = [HPC EXCEPT ![h] = "idle"] /\ HFile' = [HFile EXCEPT ![h] = NoFile]
      /\ HTodo' = [HTodo EXCEPT ![h] = {}] /\ HPlan' = [HPlan EXCEPT ![h] = {}]
      /\ hnodes' = [hnodes EXCEPT ![h] = {}]
  BY <1>1, <1>2, <1>3, OnlyHandlerMapped DEF DeleteFileWrite, Return
<1>5. HPC[h] = "delete" /\ HFile[h] = hfile[h]
  BY <1>1, HandlerSeen DEF HandlerPC
<1>6. /\ Durable'.files = [Durable.files EXCEPT ![HFile[h]] = IF @ = "none" THEN @ ELSE "deleted"]
      /\ ackedDeletes' = ackedDeletes \cup {HFile[h]} /\ offered' = offered
      /\ Durable'.sessions = Durable.sessions /\ Durable'.owners = Durable.owners
      /\ Durable'.chunks = Durable.chunks /\ Durable'.locations = Durable.locations
      /\ Durable'.nodes = Durable.nodes
  BY <1>5, SingleDurable DEF DeleteFileWrite, UpdateFileStatus
<1>7. MP!DeleteFileWrite(h)
  BY <1>4, <1>5, <1>6 DEF MP!DeleteFileWrite, MP!UpdateFileStatus, MP!Return, HPC, HFile, HTodo, HPlan
<1> QED
  BY <1>7 DEF MP!ManifestNext, MP!DeleteFile

\* The later statements of GetFile, of which Manifest sees nothing once the
\* list has broken off.
LEMMA GetFileRefines ==
  ASSUME TxTypeOK, LocalInv, NEW h \in Handler, conn = Free, UNCHANGED txVars,
         GetFileChunks(h) \/ \E c \in ChunkID : GetFileLocations(h, c)
  PROVE  [MP!ManifestNext]_(MP!manifestVars)
<1>1. /\ hpc[h] \in {"chunks", "locations"} /\ hpc'[h] \in {"locations", "reply"}
      /\ broken' = broken
      /\ UNCHANGED <<storeVars, clientVars, hfile, hnodes>>
  BY DEF GetFileChunks, GetFileLocations, TxTypeOK, txVars
<1>2. UNCHANGED durableTables
  BY <1>1, DurableKept DEF txVars
<1>3. OnlyHandler(h)
  BY <1>1 DEF GetFileChunks, GetFileLocations, TxTypeOK, OnlyHandler
<1>4. HFile' = HFile
  BY <1>1 DEF HFile, Unbroken
<1>5. CASE h \in broken
  <2>1. ManifestPC(h)' = "idle" /\ HPC[h] = "idle" /\ HTodo[h] = {} /\ HPlan[h] = {}
    BY <1>1, <1>5, HandlerSeen DEF ManifestPC
  <2>2. HPC' = HPC
    BY <1>3, <2>1, OnlyHandlerMapped DEF HPC
  <2>3. HTodo' = HTodo
    BY <1>1, <1>3, <1>5, <2>1, OnlyHandlerMapped DEF HTodo, Unbroken
  <2>4. HPlan' = HPlan
    BY <1>1, <1>3, <1>5, <2>1, OnlyHandlerMapped DEF HPlan, Unbroken
  <2> QED
    BY <1>1, <1>2, <1>4, <2>2, <2>3, <2>4, AsStutter
<1>6. CASE h \notin broken
  <2>1. HPC[h] = hpc[h] /\ HFile[h] = hfile[h] /\ HTodo[h] = htodo[h] /\ HPlan[h] = hplan[h]
    BY <1>1, <1>6, HandlerSeen DEF HandlerPC
  <2>2. ManifestPC(h)' = hpc'[h]
    BY <1>1, <1>6 DEF ManifestPC, HandlerPC
  <2>3. /\ HPC' = [HPC EXCEPT ![h] = hpc'[h]] /\ HTodo' = [HTodo EXCEPT ![h] = htodo'[h]]
        /\ HPlan' = [HPlan EXCEPT ![h] = hplan'[h]]
    BY <1>1, <1>3, <1>6, <2>2, OnlyHandlerMapped
  <2>4. CASE GetFileChunks(h)
    <3>1. HPlan' = HPlan
      BY <1>1, <2>4 DEF GetFileChunks, HPlan, Unbroken
    <3>2. /\ HTodo' = [HTodo EXCEPT ![h] = {c \in ChunkID : Durable.chunks[c] = HFile[h]}]
          /\ {c \in ChunkID : Durable.chunks[c] = HFile[h]} # {}
      BY <2>1, <2>3, <2>4, FreeDurable DEF GetFileChunks, GetChunksByFileID, TxTypeOK
    <3>3. HPC[h] = "chunks" /\ HPC' = [HPC EXCEPT ![h] = "locations"]
      BY <2>1, <2>3, <2>4 DEF GetFileChunks, TxTypeOK
    <3>4. MP!GetFileChunks(h)
      BY <1>1, <1>2, <1>4, <3>1, <3>2, <3>3
         DEF MP!GetFileChunks, MP!GetChunksByFileID, MP!storeVars, MP!fileTables, MP!clientVars,
             HPC, HFile, HTodo, HPlan, durableTables, clientVars
    <3> QED
      BY <3>4 DEF MP!ManifestNext, MP!GetFileRequest
  <2>5. ASSUME NEW c \in ChunkID, GetFileLocations(h, c)
        PROVE  MP!ManifestNext
    <3>1. c \in HTodo[h] /\ HTodo' = [HTodo EXCEPT ![h] = @ \ {c}]
      BY <2>1, <2>3, <2>5 DEF GetFileLocations, TxTypeOK, HTodo, Unbroken
    <3>2. HPlan' = [HPlan EXCEPT ![h] = @ \cup ({c} \X {n \in NodeID : <<c, n>> \in Durable.locations})]
      <4>1. GetChunkLocations(c) = {n \in NodeID : <<c, n>> \in Durable.locations}
        BY FreeDurable DEF GetChunkLocations
      <4>2. hplan'[h] = HPlan[h] \cup ({c} \X GetChunkLocations(c))
        BY <2>1, <2>5 DEF GetFileLocations, TxTypeOK
      <4> HIDE DEF HPlan
      <4> QED
        BY <2>3, <4>1, <4>2
    <3>3. /\ HPC[h] = "locations"
          /\ HPC' = [HPC EXCEPT ![h] = IF HTodo[h] = {c} THEN "reply" ELSE @]
      BY <2>1, <2>3, <2>5 DEF GetFileLocations, TxTypeOK, HPC
    <3>4. MP!GetFileLocations(h, c)
      BY <1>1, <1>2, <1>4, <3>1, <3>2, <3>3
         DEF MP!GetFileLocations, MP!GetChunkLocations, MP!storeVars, MP!fileTables, MP!clientVars,
             HPC, HFile, HTodo, HPlan, durableTables, clientVars
    <3> QED
      BY <3>4 DEF MP!ManifestNext, MP!GetFileRequest
  <2> QED
    BY <2>4, <2>5
<1> QED
  BY <1>5, <1>6

\* Heartbeats, the monitor and the repair scanner.
LEMMA OthersRefine ==
  ASSUME TxTypeOK, conn = Free, UNCHANGED txVars,
         \/ \E n \in NodeID : NodeHeartbeat(n) \/ NodeTimeout(n)
         \/ \E c \in ChunkID, n \in NodeID : RepairAdds(c, n)
  PROVE  MP!ManifestNext
<1>1. UNCHANGED <<HPC, HFile, hnodes, HTodo, HPlan, clientVars>>
  BY DEF NodeHeartbeat, NodeTimeout, RepairAdds, handlerVars, txVars, HPC, HFile, HTodo, HPlan,
         Unbroken, ManifestPC
<1>2. ASSUME NEW n \in NodeID, NodeHeartbeat(n)
      PROVE  MP!ManifestNext
  <2>1. MP!NodeHeartbeat(n)
    BY <1>1, <1>2, SingleDurable
       DEF NodeHeartbeat, HeartbeatMarks, fileTables, MP!NodeHeartbeat, MP!HeartbeatMarks,
           MP!fileTables, MP!handlerVars,
           MP!clientVars, HPC, HFile, HTodo, HPlan, clientVars
  <2> QED
    BY <2>1 DEF MP!ManifestNext
<1>3. ASSUME NEW n \in NodeID, NodeTimeout(n)
      PROVE  MP!ManifestNext
  <2>1. MP!NodeTimeout(n)
    BY <1>1, <1>3, SingleDurable
       DEF NodeTimeout, MonitorMarks, ListHealthyNodes, UpdateNodeStatus, fileTables,
           MP!NodeTimeout, MP!MonitorMarks,
           MP!ListHealthyNodes, MP!UpdateNodeStatus, MP!fileTables, MP!handlerVars,
           MP!clientVars, HPC, HFile, HTodo, HPlan, clientVars
  <2> QED
    BY <2>1 DEF MP!ManifestNext
<1>4. ASSUME NEW c \in ChunkID, NEW n \in NodeID, RepairAdds(c, n)
      PROVE  MP!ManifestNext
  <2>1. MP!RepairAdds(c, n)
    BY <1>1, <1>4, SingleDurable
       DEF RepairAdds, RepairRecords, GetChunkLocations, AddChunkLocation, fileTables,
           MP!RepairAdds, MP!RepairRecords,
           MP!GetChunkLocations, MP!AddChunkLocation, MP!fileTables, MP!handlerVars,
           MP!clientVars, HPC, HFile, HTodo, HPlan, clientVars
  <2> QED
    BY <2>1 DEF MP!ManifestNext
<1> QED
  BY <1>2, <1>3, <1>4

-----------------------------------------------------------------------------
(* Transactions are single steps of Manifest *)

\* Manifest does not see a transaction begin or go on to the next statement.
LEMMA StatementRefines ==
  ASSUME TxTypeOK, LocalInv, NEW h \in Handler, NEW pc, NEW next,
         hpc[h] = pc, hpc' = [hpc EXCEPT ![h] = next],
         \/ pc \in PreparePC \cup {"prepare"} /\ next \in PreparePC
         \/ pc \in CommitPC \cup {"idle"} /\ next \in CommitPC,
         \/ conn = h /\ UNCHANGED <<conn, saved>>
         \/ conn = Free /\ conn' = h /\ saved' = Tables,
         UNCHANGED <<hfile, hnodes, htodo, hplan, clientVars, broken>>
  PROVE  UNCHANGED MP!manifestVars
<1>1. UNCHANGED durableTables
  BY DurableKept
<1>2. h \notin broken
  BY DEF LocalInv, HandlerLocal, PreparePC, CommitPC
<1>3. OnlyHandler(h) /\ hpc'[h] = next
  BY DEF TxTypeOK, OnlyHandler
<1>4. ManifestPC(h)' = ManifestPC(h)
  BY <1>2, <1>3 DEF ManifestPC, HandlerPC, PreparePC, CommitPC
<1>5. HPC' = HPC
  BY <1>3, <1>4, OnlyHandlerMapped DEF HPC
<1>6. HFile' = HFile /\ HTodo' = HTodo /\ HPlan' = HPlan
  BY DEF HFile, HTodo, HPlan, Unbroken
<1> QED
  BY <1>1, <1>5, <1>6, AsStutter

\* COMMIT of PrepareUpload's transaction: all its rows appear at once.
LEMMA PrepareCommitRefines ==
  ASSUME TxTypeOK, LocalInv, NEW h \in Handler, PrepareTxOK(h), PrepareCommit(h)
  PROVE  MP!ManifestNext
<1> DEFINE f == htx[h].f
           s == htx[h].s
           rm == htx[h].rm
           cs == DOMAIN htx[h].rm
<1>1. hpc[h] = "commitPrepare" /\ h \notin broken /\ broken' = broken
  BY DEF PrepareCommit, LocalInv, HandlerLocal
<1>2. OnlyHandler(h) /\ hpc'[h] = "idle" /\ hfile'[h] = NoFile /\ htodo'[h] = {} /\ hplan'[h] = {}
  BY <1>1 DEF PrepareCommit, EndTx, Return, TxTypeOK, OnlyHandler
<1>3. ManifestPC(h)' = "idle"
  BY <1>1, <1>2 DEF ManifestPC, HandlerPC
<1>4. /\ HPC' = [HPC EXCEPT ![h] = "idle"] /\ HFile' = [HFile EXCEPT ![h] = NoFile]
      /\ HTodo' = [HTodo EXCEPT ![h] = {}] /\ HPlan' = [HPlan EXCEPT ![h] = {}]
      /\ hnodes' = [hnodes EXCEPT ![h] = {}]
  BY <1>1, <1>2, <1>3, OnlyHandlerMapped DEF PrepareCommit, EndTx, Return
<1>5. HPC[h] = "prepare"
  BY <1>1, HandlerSeen DEF PreparePC
<1>6. /\ Durable'.files = fileStatus /\ Durable'.chunks = chunkFile
      /\ Durable'.locations = chunkLocations /\ Durable'.nodes = nodeStatus
      /\ Durable'.sessions = sessionStatus /\ Durable'.owners = sessionFile
  BY FreeDurableNext DEF PrepareCommit, EndTx, storeVars, fileTables
<1>7. /\ f \in FileID /\ s \in SessionID /\ cs \subseteq ChunkID
      /\ Durable.files[f] = "none" /\ Durable.sessions[s] = "none"
      /\ \A c \in cs : Durable.chunks[c] = NoFile
      /\ Durable'.files = [Durable.files EXCEPT ![f] = "pending"]
      /\ Durable'.sessions = [Durable.sessions EXCEPT ![s] = "preparing"]
      /\ Durable'.owners = [Durable.owners EXCEPT ![s] = f]
      /\ Durable'.chunks = [c \in ChunkID |-> IF c \in cs THEN f ELSE Durable.chunks[c]]
      /\ Durable'.locations = Durable.locations /\ Durable'.nodes = Durable.nodes
  BY <1>1, <1>6 DEF PrepareTxOK
<1>8. PICK size \in FileSizes : Cardinality(cs) = ChunkCount(size)
  BY DEF PrepareTxOK
<1>9. MP!Cardinality(cs) = MP!ChunkCount(size)
  BY <1>8, SameSets DEF ChunkCount, MP!ChunkCount
<1>10. rm \in MP!SelectReplicas(cs, hnodes[h])
  <2>1. rm \in SelectReplicas(cs, hnodes[h])
    BY DEF PrepareTxOK
  <2>2. MP!Cardinality(hnodes[h]) = Cardinality(hnodes[h])
    BY SameSets
  <2> QED
    BY <2>1, <2>2 DEF SelectReplicas, Injective, MP!SelectReplicas, MP!Injective
<1>11. offered' = [offered EXCEPT ![s] = rm] /\ ackedDeletes' = ackedDeletes
  BY DEF PrepareCommit
<1> HIDE DEF f, s, rm, cs
<1>12. MP!PrepareUploadTx(h, f, s, cs, size)
  <2>1. MP!CreateFile(f) /\ MP!CreateUploadSession(s, f) /\ MP!InsertChunks(cs, f)
    BY <1>7 DEF MP!CreateFile, MP!CreateUploadSession, MP!InsertChunks
  <2>2. MP!Return(h)
    BY <1>4 DEF MP!Return, HPC, HFile, HTodo, HPlan
  <2>3. HPC[h] = "prepare" /\ MP!Cardinality(cs) = MP!ChunkCount(size)
    BY <1>5, <1>9
  <2>4. /\ \E r \in MP!SelectReplicas(cs, hnodes[h]) : offered' = [offered EXCEPT ![s] = r]
        /\ Durable'.locations = Durable.locations /\ Durable'.nodes = Durable.nodes
        /\ ackedDeletes' = ackedDeletes
    BY <1>7, <1>10, <1>11
  <2> QED
    BY <2>1, <2>2, <2>3, <2>4 DEF MP!PrepareUploadTx, HPC
<1> QED
  BY <1>7, <1>8, <1>12 DEF MP!ManifestNext, MP!PrepareUpload

\* The rows the finished list of INSERTs has written are the map's rows.
LEMMA AllRowsWritten ==
  ASSUME NEW h \in Handler, htx[h].rows = {}
  PROVE  {<<r[1], RowNode(h, r)>> : r \in Written(h)} = MP!RowsOf(htx[h].rm)
<1> DEFINE rm == htx[h].rm
<1>1. Written(h) = LocationRows(rm)
  BY DEF Written
<1>2. ASSUME NEW c \in DOMAIN rm, NEW i \in DOMAIN rm[c]
      PROVE  /\ <<c, i>> \in LocationRows(rm)
             /\ RowNode(h, <<c, i>>) = rm[c][i]
  BY DEF LocationRows, RowNode
<1>3. ASSUME NEW r \in LocationRows(rm)
      PROVE  /\ r[1] \in DOMAIN rm /\ r[2] \in DOMAIN rm[r[1]]
             /\ RowNode(h, r) = rm[r[1]][r[2]]
  BY <1>3 DEF LocationRows, RowNode
<1>4. ASSUME NEW x
      PROVE  x \in MP!RowsOf(rm) <=> \E c \in DOMAIN rm : \E i \in DOMAIN rm[c] : x = <<c, rm[c][i]>>
  BY DEF MP!RowsOf
<1> HIDE DEF rm
<1>5. ASSUME NEW x
      PROVE  x \in {<<r[1], RowNode(h, r)>> : r \in LocationRows(rm)}
               <=> \E c \in DOMAIN rm : \E i \in DOMAIN rm[c] : x = <<c, rm[c][i]>>
  <2>1. ASSUME NEW c \in DOMAIN rm, NEW i \in DOMAIN rm[c], x = <<c, rm[c][i]>>
        PROVE  x \in {<<r[1], RowNode(h, r)>> : r \in LocationRows(rm)}
    BY <1>2, <2>1
  <2>2. ASSUME NEW r \in LocationRows(rm), x = <<r[1], RowNode(h, r)>>
        PROVE  \E c \in DOMAIN rm : \E i \in DOMAIN rm[c] : x = <<c, rm[c][i]>>
    BY <1>3, <2>2
  <2> QED
    BY <2>1, <2>2
<1>6. {<<r[1], RowNode(h, r)>> : r \in LocationRows(rm)} = MP!RowsOf(rm)
  BY <1>4, <1>5
<1> QED
  BY <1>1, <1>6 DEF rm

\* COMMIT of CommitUpload's transaction: nothing for a session that was
\* committed before, all rows at once for the others.
LEMMA CommitUploadRefines ==
  ASSUME TxTypeOK, LocalInv, MP!ManifestInv, NEW h \in Handler, CommitTxOK(h),
         CommitUploadCommit(h)
  PROVE  [MP!ManifestNext]_(MP!manifestVars)
<1> DEFINE s == htx[h].s
           rm == htx[h].rm
<1>1. /\ hpc[h] = "commitUpload" /\ h \notin broken /\ broken' = broken /\ conn' = Free
      /\ UNCHANGED <<hfile, hnodes, htodo, hplan, clientVars, storeVars>>
  BY DEF CommitUploadCommit, LocalInv, HandlerLocal
<1>2. OnlyHandler(h) /\ hpc'[h] = "answer"
  BY <1>1 DEF CommitUploadCommit, TxTypeOK, OnlyHandler
<1>3. ManifestPC(h)' = ManifestPC(h)
  BY <1>1, <1>2 DEF ManifestPC, HandlerPC
<1>4. UNCHANGED <<HPC, HFile, hnodes, HTodo, HPlan>>
  <2>1. HPC' = HPC
    BY <1>2, <1>3, OnlyHandlerMapped DEF HPC
  <2>2. HFile' = HFile /\ HTodo' = HTodo /\ HPlan' = HPlan
    BY <1>1 DEF HFile, HTodo, HPlan, Unbroken
  <2> QED
    BY <1>1, <2>1, <2>2
<1>5. /\ Durable'.files = fileStatus /\ Durable'.chunks = chunkFile
      /\ Durable'.locations = chunkLocations /\ Durable'.nodes = nodeStatus
      /\ Durable'.sessions = sessionStatus /\ Durable'.owners = sessionFile
  BY <1>1, FreeDurableNext DEF storeVars, fileTables
<1>6. /\ Durable'.owners = Durable.owners /\ Durable'.chunks = Durable.chunks
      /\ Durable'.nodes = Durable.nodes
  BY <1>5 DEF CommitTxOK
<1>7. CASE htx[h].f = NoFile
  <2>1. UNCHANGED durableTables
    BY <1>5, <1>6, <1>7 DEF CommitTxOK, CommitReads, durableTables
  <2> QED
    BY <1>1, <1>4, <2>1, AsStutter
<1>8. CASE htx[h].f # NoFile
  <2>1. CommitWrites(h)
    BY <1>8 DEF CommitTxOK
  <2>2. /\ s \in SessionID /\ DOMAIN rm \in (SUBSET ChunkID) \ {{}}
        /\ rm \in [DOMAIN rm -> ReplicaLists]
    BY DEF CommitTxOK
  <2>3. /\ MP!CommitValid(s, rm) /\ htx[h].f = Durable.owners[s] /\ htx[h].rows = {}
        /\ Durable'.files = [Durable.files EXCEPT ![Durable.owners[s]] = "committed"]
        /\ Durable'.sessions = [Durable.sessions EXCEPT ![s] = "committed"]
    BY <1>1, <1>5, <2>1 DEF CommitWrites
  <2>4. Durable.files[Durable.owners[s]] = "pending" /\ Durable.sessions[s] = "preparing"
    BY <2>3 DEF MP!CommitValid, MP!GetFile, MP!GetUploadSession
  <2>5. MP!UpdateFileStatus(Durable.owners[s], "committed")
    BY <2>3, <2>4 DEF MP!UpdateFileStatus
  <2>6. MP!UpdateUploadSessionStatus(s, "committed")
    BY <2>3, <2>4 DEF MP!UpdateUploadSessionStatus
  <2>7. Durable'.locations = Durable.locations \cup MP!RowsOf(rm)
    BY <1>5, <2>1, <2>3, AllRowsWritten DEF CommitWrites
  <2>8. MP!RowsOf(rm) \cap Durable.locations = {}
    <3>1. \A x \in {<<r[1], RowNode(h, r)>> : r \in Written(h)} : x \notin Durable.locations
      BY <2>1 DEF CommitWrites
    <3> QED
      BY <2>3, <3>1, AllRowsWritten
  <2>9. \A c \in DOMAIN rm : MP!Injective(rm[c])
    <3> SUFFICES ASSUME NEW c \in DOMAIN rm, NEW i \in DOMAIN rm[c], NEW j \in DOMAIN rm[c],
                        rm[c][i] = rm[c][j]
                 PROVE  i = j
      BY DEF MP!Injective
    <3>1. <<c, i>> \in Written(h) /\ <<c, j>> \in Written(h)
      BY <2>3 DEF Written, LocationRows
    <3>2. RowNode(h, <<c, i>>) = RowNode(h, <<c, j>>)
      BY DEF RowNode
    <3>3. <<c, i>> = <<c, j>>
      BY <2>1, <3>1, <3>2 DEF CommitWrites
    <3> QED
      BY <3>3
  <2>10. MP!InsertChunkLocations(rm)
    BY <2>7, <2>8, <2>9 DEF MP!InsertChunkLocations
  <2>11. MP!CommitUpload(s, rm)
    BY <1>1, <1>4, <1>6, <2>3, <2>5, <2>6, <2>10
       DEF MP!CommitUpload, MP!handlerVars, MP!clientVars, clientVars, HPC, HFile, HTodo, HPlan
  <2> HIDE DEF s, rm
  <2>12. MP!CommitUploadRequest
    BY <2>2, <2>4, <2>11 DEF MP!CommitUploadRequest, MP!GetUploadSession
  <2> QED
    BY <2>12 DEF MP!ManifestNext
<1> QED
  BY <1>7, <1>8

-----------------------------------------------------------------------------
(* What keeps the parts of the invariant *)

\* Committed sessions stay committed, so what was answered stays durable.
LEMMA AnswersStable ==
  ASSUME TxTypeOK, AnswersDurable,
         \A s \in SessionID : Durable.sessions[s] = "committed" => Durable'.sessions[s] = "committed",
         ackedCommits' = ackedCommits,
         \A g \in Handler : hpc'[g] = "answer" => hpc[g] = "answer" /\ htx'[g] = htx[g]
  PROVE  AnswersDurable'
BY DEF TxTypeOK, AnswersDurable

\* Nobody else moves the holder of the connection.
LEMMA TxStable ==
  ASSUME NEW h \in Handler, TxOK(h),
         UNCHANGED <<durableTables, storeVars>>,
         htx'[h] = htx[h], hpc'[h] = hpc[h], hnodes'[h] = hnodes[h]
  PROVE  TxOK(h)'
<1>1. UNCHANGED <<fileStatus, chunkFile, chunkLocations, nodeStatus, sessionStatus, sessionFile>>
  BY DEF storeVars, fileTables
<1>2. /\ Durable'.files = Durable.files /\ Durable'.chunks = Durable.chunks
      /\ Durable'.locations = Durable.locations /\ Durable'.nodes = Durable.nodes
      /\ Durable'.sessions = Durable.sessions /\ Durable'.owners = Durable.owners
  BY DEF durableTables
<1>3. CASE hpc[h] \in PreparePC
  <2>1. PrepareTxOK(h)'
    BY <1>1, <1>2, <1>3 DEF TxOK, PrepareTxOK
  <2> QED
    BY <1>3, <2>1 DEF TxOK, PreparePC, CommitPC
<1>4. CASE hpc[h] \in CommitPC
  <2>1. \A s, rm : MP!CommitValid(s, rm)' <=> MP!CommitValid(s, rm)
    BY <1>2 DEF MP!CommitValid, MP!GetChunksByFileID, MP!GetUploadSession, MP!GetFile
  <2>2. CommitReads(h) => CommitReads(h)'
    BY <1>1, <1>2 DEF CommitReads
  <2>3. Written(h)' = Written(h) /\ \A r : RowNode(h, r)' = RowNode(h, r)
    BY DEF Written, RowNode, LocationRows
  <2>4. CommitWrites(h) => CommitWrites(h)'
    BY <1>1, <1>2, <2>1, <2>3 DEF CommitWrites
  <2>5. CommitTxOK(h)'
    BY <1>1, <1>2, <1>4, <2>2, <2>4 DEF TxOK, CommitTxOK
  <2> QED
    BY <1>4, <2>5 DEF TxOK, PreparePC, CommitPC
<1>5. CASE hpc[h] \notin PreparePC \cup CommitPC
  BY <1>5 DEF TxOK
<1> QED
  BY <1>3, <1>4, <1>5

\* The arguments of one transaction are set.
LEMMA SetTx ==
  ASSUME TxTypeOK, NEW h \in Handler, NEW tx, IsTx(tx), htx' = [htx EXCEPT ![h] = tx]
  PROVE  /\ htx' = [g \in Handler |-> htx'[g]]
         /\ \A g \in Handler : IsTx(htx'[g])
         /\ htx'[h] = tx
         /\ \A g \in Handler \ {h} : htx'[g] = htx[g]
<1>1. htx = [g \in Handler |-> htx[g]]
  BY DEF TxTypeOK
<1>2. htx' = [g \in Handler |-> IF g = h THEN tx ELSE htx[g]]
  BY <1>1
<1>3. \A g \in Handler : htx'[g] = IF g = h THEN tx ELSE htx[g]
  BY <1>2
<1>4. htx' = [g \in Handler |-> htx'[g]]
  BY <1>2
<1>5. \A g \in Handler : IsTx(htx'[g])
  <2> TAKE g \in Handler
  <2>1. CASE g = h
    BY <1>3, <2>1
  <2>2. CASE g # h
    <3>1. htx'[g] = htx[g] /\ IsTx(htx[g])
      BY <1>3, <2>2 DEF TxTypeOK
    <3> QED
      BY <3>1
  <2> QED
    BY <2>1, <2>2
<1> QED
  BY <1>3, <1>4, <1>5

\* NoTx has the shape of a transaction's arguments.
LEMMA NoTxIsTx == IsTx(NoTx)
BY DEF IsTx, NoTx

\* A handler returns, from a transaction or from outside one.
LEMMA ReturnLocal ==
  ASSUME TxTypeOK, LocalInv, NEW h \in Handler, Return(h), broken' = broken \ {h},
         conn' = (IF conn = h THEN Free ELSE conn),
         htx' = htx \/ htx' = [htx EXCEPT ![h] = NoTx],
         ackedCommits' \subseteq SessionID
  PROVE  TxTypeOK' /\ LocalInv'
<1>1. TxTypeOK'
  <2>1. /\ hpc' \in [Handler -> HandlerPC \cup PreparePC \cup CommitPC \cup {"answer"}]
        /\ hfile' \in [Handler -> FileID \cup {NoFile}]
        /\ hnodes' \in [Handler -> SUBSET NodeID]
        /\ htodo' \in [Handler -> SUBSET ChunkID]
        /\ hplan' \in [Handler -> SUBSET (ChunkID \X NodeID)]
    BY DEF TxTypeOK, Return, HandlerPC
  <2>2. htx' = [g \in Handler |-> htx'[g]] /\ \A g \in Handler : IsTx(htx'[g])
    <3>1. CASE htx' = htx
      BY <3>1 DEF TxTypeOK
    <3>2. CASE htx' = [htx EXCEPT ![h] = NoTx]
      BY <3>2, SetTx, NoTxIsTx
    <3> QED
      BY <3>1, <3>2
  <2> QED
    BY <2>1, <2>2 DEF TxTypeOK, IsTx
<1>2. LocalInv'
  <2> SUFFICES ASSUME NEW g \in Handler
               PROVE  HandlerLocal(g)'
    BY DEF LocalInv
  <2>1. CASE g = h
    BY <2>1, SqliteTxAssumption DEF TxTypeOK, Return, HandlerLocal, PreparePC, CommitPC
  <2>2. CASE g # h
    BY <2>2, SqliteTxAssumption DEF TxTypeOK, Return, LocalInv, HandlerLocal
  <2> QED
    BY <2>1, <2>2
<1> QED
  BY <1>1, <1>2

-----------------------------------------------------------------------------
(* Every step keeps the invariant and is a step of Manifest *)

\* A step that is right for Manifest and for the parts keeps the whole.
LEMMA Assemble ==
  ASSUME SqliteInv, [MP!ManifestNext]_(MP!manifestVars), TxTypeOK', LocalInv',
         \A h \in Handler : conn' = h => TxOK(h)',
         ackedCommits' = ackedCommits,
         \A g \in Handler : hpc'[g] = "answer" => hpc[g] = "answer" /\ htx'[g] = htx[g]
  PROVE  SqliteInv'
BY DurableNext, AnswersStable DEF SqliteInv

\* The reads outside a transaction.
LEMMA ReadStep ==
  ASSUME SqliteInv, NEW h \in Handler, conn = Free, UNCHANGED txVars,
         \/ PrepareUploadRead(h)
         \/ \E f \in FileID : DeleteFileRead(h, f) \/ GetFileRead(h, f)
         \/ GetFileChunks(h)
         \/ \E c \in ChunkID : GetFileLocations(h, c)
  PROVE  [MP!ManifestNext]_(MP!manifestVars) /\ SqliteInv'
<1>1. [MP!ManifestNext]_(MP!manifestVars)
  BY FirstReadRefines, GetFileRefines DEF SqliteInv
<1>2. UNCHANGED <<conn, htx, ackedCommits, broken>>
  BY DEF txVars
<1>3. TxTypeOK'
  <2>1. CASE PrepareUploadRead(h)
    BY <1>2, <2>1 DEF SqliteInv, TxTypeOK, HandlerPC, PrepareUploadRead, ListHealthyNodes, IsTx
  <2>2. ASSUME NEW f \in FileID, DeleteFileRead(h, f) \/ GetFileRead(h, f)
        PROVE  TxTypeOK'
    BY <1>2, <2>2 DEF SqliteInv, TxTypeOK, HandlerPC, DeleteFileRead, GetFileRead, IsTx
  <2>3. CASE GetFileChunks(h)
    BY <1>2, <2>3 DEF SqliteInv, TxTypeOK, HandlerPC, GetFileChunks, GetChunksByFileID, IsTx
  <2>4. ASSUME NEW c \in ChunkID, GetFileLocations(h, c)
        PROVE  TxTypeOK'
    <3>1. hplan[h] \cup ({c} \X GetChunkLocations(c)) \in SUBSET (ChunkID \X NodeID)
      BY DEF SqliteInv, TxTypeOK, GetChunkLocations
    <3>2. hplan' \in [Handler -> SUBSET (ChunkID \X NodeID)]
      BY <2>4, <3>1 DEF GetFileLocations, SqliteInv, TxTypeOK
    <3>3. htodo' \in [Handler -> SUBSET ChunkID]
      BY <2>4 DEF GetFileLocations, SqliteInv, TxTypeOK
    <3>4. hpc' \in [Handler -> HandlerPC \cup PreparePC \cup CommitPC \cup {"answer"}]
      BY <2>4 DEF GetFileLocations, SqliteInv, TxTypeOK, HandlerPC
    <3>5. UNCHANGED <<hfile, hnodes>>
      BY <2>4 DEF GetFileLocations
    <3> QED
      BY <1>2, <3>2, <3>3, <3>4, <3>5 DEF SqliteInv, TxTypeOK, IsTx
  <2> QED
    BY <2>1, <2>2, <2>3, <2>4
<1>4. LocalInv'
  <2> SUFFICES ASSUME NEW g \in Handler
               PROVE  HandlerLocal(g)'
    BY DEF LocalInv
  <2>1. HandlerLocal(g) /\ conn' # g
    BY <1>2, SqliteTxAssumption DEF SqliteInv, LocalInv
  <2>2. CASE g = h
    <3>1. CASE PrepareUploadRead(h)
      BY <1>2, <2>1, <2>2, <3>1 DEF SqliteInv, TxTypeOK, HandlerLocal, PreparePC, CommitPC, PrepareUploadRead
    <3>2. ASSUME NEW f \in FileID, DeleteFileRead(h, f) \/ GetFileRead(h, f)
          PROVE  HandlerLocal(g)'
      BY <1>2, <2>1, <2>2, <3>2 DEF SqliteInv, TxTypeOK, HandlerLocal, PreparePC, CommitPC, DeleteFileRead, GetFileRead
    <3>3. CASE GetFileChunks(h)
      BY <1>2, <2>1, <2>2, <3>3 DEF SqliteInv, TxTypeOK, HandlerLocal, PreparePC, CommitPC, GetFileChunks
    <3>4. ASSUME NEW c \in ChunkID, GetFileLocations(h, c)
          PROVE  HandlerLocal(g)'
      <4>1. hpc'[h] \in {"locations", "reply"} /\ UNCHANGED <<hfile, hnodes>> /\ hpc[h] = "locations"
        BY <3>4 DEF SqliteInv, TxTypeOK, GetFileLocations
      <4> QED
        BY <1>2, <2>1, <2>2, <4>1 DEF HandlerLocal, PreparePC, CommitPC
    <3> QED
      BY <3>1, <3>2, <3>3, <3>4
  <2>3. CASE g # h
    <3>1. /\ hpc'[g] = hpc[g] /\ hfile'[g] = hfile[g] /\ hnodes'[g] = hnodes[g]
          /\ htodo'[g] = htodo[g] /\ hplan'[g] = hplan[g]
      BY <2>3 DEF SqliteInv, TxTypeOK, PrepareUploadRead, DeleteFileRead, GetFileRead, GetFileChunks,
                  GetFileLocations
    <3> QED
      BY <1>2, <2>1, <3>1 DEF HandlerLocal
  <2> QED
    BY <2>2, <2>3
<1>5. \A g \in Handler : hpc'[g] = "answer" => hpc[g] = "answer" /\ htx'[g] = htx[g]
  <2>1. hpc'[h] # "answer"
    BY DEF SqliteInv, TxTypeOK, PrepareUploadRead, DeleteFileRead, GetFileRead, GetFileChunks,
           GetFileLocations
  <2>2. \A g \in Handler \ {h} : hpc'[g] = hpc[g]
    BY DEF SqliteInv, TxTypeOK, PrepareUploadRead, DeleteFileRead, GetFileRead, GetFileChunks,
           GetFileLocations
  <2> QED
    BY <1>2, <2>1, <2>2
<1>6. \A g \in Handler : conn' = g => TxOK(g)'
  BY <1>2, SqliteTxAssumption
<1> QED
  BY <1>1, <1>2, <1>3, <1>4, <1>5, <1>6, Assemble

\* A list of rows breaks off: to Manifest the request has failed.
LEMMA BrokenStep ==
  ASSUME SqliteInv, NEW h \in Handler, GetFileChunksBroken(h)
  PROVE  [MP!ManifestNext]_(MP!manifestVars) /\ SqliteInv'
<1>1. /\ conn = Free /\ hpc[h] = "chunks" /\ h \notin broken /\ broken' = broken \cup {h}
      /\ hpc' = [hpc EXCEPT ![h] = "locations"]
      /\ UNCHANGED <<storeVars, hfile, hnodes, hplan, clientVars, conn, saved, htx, ackedCommits>>
  BY DEF GetFileChunksBroken, SqliteInv, LocalInv, HandlerLocal
<1>2. PICK part \in SUBSET ChunkID : htodo' = [htodo EXCEPT ![h] = part]
  BY DEF GetFileChunksBroken, GetChunksByFileID
<1>3. TxTypeOK /\ LocalInv
  BY DEF SqliteInv
<1>4. OnlyHandler(h) /\ hpc'[h] = "locations"
  BY <1>1, <1>2, <1>3 DEF TxTypeOK, OnlyHandler
<1>5. /\ HPC' = [HPC EXCEPT ![h] = "idle"] /\ HFile' = [HFile EXCEPT ![h] = NoFile]
      /\ HTodo' = [HTodo EXCEPT ![h] = {}] /\ HPlan' = [HPlan EXCEPT ![h] = {}]
  <2>1. h \in broken'
    BY <1>1
  <2>2. ManifestPC(h)' = "idle"
    BY <2>1 DEF ManifestPC
  <2> QED
    BY <1>4, <2>1, <2>2, OnlyHandlerMapped
<1>6. hnodes' = [hnodes EXCEPT ![h] = {}]
  <2>1. hnodes[h] = {}
    BY <1>1, <1>3 DEF LocalInv, HandlerLocal, PreparePC
  <2> QED
    BY <1>1, <1>3, <2>1 DEF TxTypeOK
<1>7. HPC[h] # "idle"
  BY <1>1, HandlerSeen DEF HandlerPC
<1>8. UNCHANGED durableTables
  BY <1>1, <1>3, DurableKept
<1>9. MP!HandlerError(h)
  BY <1>1, <1>5, <1>6, <1>7, <1>8
     DEF MP!HandlerError, MP!Return, MP!storeVars, MP!fileTables, MP!clientVars,
         HPC, HFile, HTodo, HPlan, durableTables, clientVars
<1>10. [MP!ManifestNext]_(MP!manifestVars)
  BY <1>9 DEF MP!ManifestNext
<1>11. TxTypeOK'
  BY <1>1, <1>2, <1>3 DEF TxTypeOK, HandlerPC, IsTx
<1>12. LocalInv'
  <2> SUFFICES ASSUME NEW g \in Handler
               PROVE  HandlerLocal(g)'
    BY DEF LocalInv
  <2>1. HandlerLocal(g)
    BY <1>3 DEF LocalInv
  <2> QED
    BY <1>1, <1>2, <1>3, <2>1, SqliteTxAssumption DEF TxTypeOK, HandlerLocal, PreparePC, CommitPC
<1>13. \A g \in Handler : hpc'[g] = "answer" => hpc[g] = "answer" /\ htx'[g] = htx[g]
  BY <1>1, <1>3 DEF TxTypeOK
<1>14. \A g \in Handler : conn' = g => TxOK(g)'
  BY <1>1, SqliteTxAssumption
<1> QED
  BY <1>1, <1>10, <1>11, <1>12, <1>13, <1>14, Assemble

\* A list of locations that broke off.
LEMMA BrokenLocationsStep ==
  ASSUME SqliteInv, NEW h \in Handler, NEW c \in ChunkID, GetFileLocationsBroken(h, c)
  PROVE  [MP!ManifestNext]_(MP!manifestVars) /\ SqliteInv'
<1>1. /\ conn = Free /\ hpc[h] = "locations" /\ h \notin broken /\ broken' = broken \cup {h}
      /\ htodo' = [htodo EXCEPT ![h] = @ \ {c}]
      /\ hpc' = [hpc EXCEPT ![h] = IF htodo[h] = {c} THEN "reply" ELSE "locations"]
      /\ UNCHANGED <<storeVars, hfile, hnodes, clientVars, conn, saved, htx, ackedCommits>>
  BY DEF GetFileLocationsBroken
<1>2. PICK part \in SUBSET NodeID : hplan' = [hplan EXCEPT ![h] = @ \cup ({c} \X part)]
  <2>1. GetChunkLocations(c) \subseteq NodeID
    BY DEF GetChunkLocations
  <2>2. \E part \in (SUBSET GetChunkLocations(c)) \ {GetChunkLocations(c)} :
          hplan' = [hplan EXCEPT ![h] = @ \cup ({c} \X part)]
    BY DEF GetFileLocationsBroken
  <2> QED
    BY <2>1, <2>2
<1>3. TxTypeOK /\ LocalInv
  BY DEF SqliteInv
<1>4. OnlyHandler(h) /\ hpc'[h] \in {"locations", "reply"}
  BY <1>1, <1>2, <1>3 DEF TxTypeOK, OnlyHandler
<1>5. /\ HPC' = [HPC EXCEPT ![h] = "idle"] /\ HFile' = [HFile EXCEPT ![h] = NoFile]
      /\ HTodo' = [HTodo EXCEPT ![h] = {}] /\ HPlan' = [HPlan EXCEPT ![h] = {}]
  <2>1. h \in broken'
    BY <1>1
  <2>2. ManifestPC(h)' = "idle"
    BY <2>1 DEF ManifestPC
  <2> QED
    BY <1>4, <2>1, <2>2, OnlyHandlerMapped
<1>6. hnodes' = [hnodes EXCEPT ![h] = {}]
  <2>1. hnodes[h] = {}
    BY <1>1, <1>3 DEF LocalInv, HandlerLocal, PreparePC
  <2> QED
    BY <1>1, <1>3, <2>1 DEF TxTypeOK
<1>7. HPC[h] # "idle"
  BY <1>1, HandlerSeen DEF HandlerPC
<1>8. UNCHANGED durableTables
  BY <1>1, <1>3, DurableKept
<1>9. MP!HandlerError(h)
  BY <1>1, <1>5, <1>6, <1>7, <1>8
     DEF MP!HandlerError, MP!Return, MP!storeVars, MP!fileTables, MP!clientVars,
         HPC, HFile, HTodo, HPlan, durableTables, clientVars
<1>10. [MP!ManifestNext]_(MP!manifestVars)
  BY <1>9 DEF MP!ManifestNext
<1>11. TxTypeOK'
  <2>1. hpc' \in [Handler -> HandlerPC \cup PreparePC \cup CommitPC \cup {"answer"}]
    BY <1>1, <1>3 DEF TxTypeOK, HandlerPC
  <2>2. htodo' \in [Handler -> SUBSET ChunkID]
    BY <1>1, <1>3 DEF TxTypeOK
  <2>3. hplan[h] \cup ({c} \X part) \in SUBSET (ChunkID \X NodeID)
    BY <1>2, <1>3 DEF TxTypeOK
  <2>4. hplan' \in [Handler -> SUBSET (ChunkID \X NodeID)]
    BY <1>2, <1>3, <2>3 DEF TxTypeOK
  <2> QED
    BY <1>1, <1>3, <2>1, <2>2, <2>4 DEF TxTypeOK, IsTx
<1>12. LocalInv'
  <2> SUFFICES ASSUME NEW g \in Handler
               PROVE  HandlerLocal(g)'
    BY DEF LocalInv
  <2>1. HandlerLocal(g)
    BY <1>3 DEF LocalInv
  <2> QED
    BY <1>1, <1>2, <1>3, <2>1, SqliteTxAssumption DEF TxTypeOK, HandlerLocal, PreparePC, CommitPC
<1>13. \A g \in Handler : hpc'[g] = "answer" => hpc[g] = "answer" /\ htx'[g] = htx[g]
  BY <1>1, <1>3 DEF TxTypeOK
<1>14. \A g \in Handler : conn' = g => TxOK(g)'
  BY <1>1, SqliteTxAssumption
<1> QED
  BY <1>1, <1>10, <1>11, <1>12, <1>13, <1>14, Assemble

\* The UPDATE of DeleteFile, heartbeats, the monitor and the scanner.
LEMMA WriteStep ==
  ASSUME SqliteInv, conn = Free, UNCHANGED txVars,
         \/ \E h \in Handler : DeleteFileWrite(h)
         \/ \E n \in NodeID : NodeHeartbeat(n) \/ NodeTimeout(n)
         \/ \E c \in ChunkID, n \in NodeID : RepairAdds(c, n)
  PROVE  [MP!ManifestNext]_(MP!manifestVars) /\ SqliteInv'
<1>1. [MP!ManifestNext]_(MP!manifestVars)
  BY DeleteWriteRefines, OthersRefine DEF SqliteInv
<1>2. UNCHANGED <<conn, htx, ackedCommits, broken>>
  BY DEF txVars
<1>3. \A g \in Handler : conn' = g => TxOK(g)'
  BY <1>2, SqliteTxAssumption
<1>4. ASSUME NEW h \in Handler, DeleteFileWrite(h)
      PROVE  SqliteInv'
  <2>1. Return(h) /\ hpc[h] = "delete"
    BY <1>4 DEF DeleteFileWrite
  <2>2. broken' = broken \ {h} /\ conn' = (IF conn = h THEN Free ELSE conn)
    BY <1>2, <2>1, SqliteTxAssumption DEF SqliteInv, LocalInv, HandlerLocal
  <2>3. ackedCommits' \subseteq SessionID
    BY <1>2 DEF SqliteInv, TxTypeOK
  <2>4. TxTypeOK' /\ LocalInv'
    BY <1>2, <2>1, <2>2, <2>3, ReturnLocal DEF SqliteInv
  <2>5. \A g \in Handler : hpc'[g] = "answer" => hpc[g] = "answer" /\ htx'[g] = htx[g]
    BY <1>2, <2>1 DEF Return, SqliteInv, TxTypeOK
  <2> QED
    BY <1>1, <1>2, <1>3, <2>4, <2>5, Assemble
<1>5. ASSUME UNCHANGED handlerVars
      PROVE  SqliteInv'
  <2>1. TxTypeOK' /\ LocalInv'
    BY <1>2, <1>5 DEF handlerVars, SqliteInv, TxTypeOK, LocalInv, HandlerLocal, IsTx
  <2>2. \A g \in Handler : hpc'[g] = "answer" => hpc[g] = "answer" /\ htx'[g] = htx[g]
    BY <1>2, <1>5 DEF handlerVars
  <2> QED
    BY <1>1, <1>2, <1>3, <2>1, <2>2, Assemble
<1> QED
  BY <1>1, <1>4, <1>5 DEF NodeHeartbeat, NodeTimeout, RepairAdds

\* A handler that does not hold the connection returns: the answer of
\* CommitUpload or GetFile, a placement that gives up, an error.
LEMMA FinishStep ==
  ASSUME SqliteInv, NEW h \in Handler, Finish(h) \/ HandlerFault(h)
  PROVE  [MP!ManifestNext]_(MP!manifestVars) /\ SqliteInv'
<1>1. TxTypeOK /\ LocalInv
  BY DEF SqliteInv
<1>2. /\ Return(h) /\ UNCHANGED <<storeVars, clientVars, conn, saved>>
      /\ broken' = broken \ {h} /\ hpc[h] \notin PreparePC \cup CommitPC
      /\ htx' = htx \/ htx' = [htx EXCEPT ![h] = NoTx]
  <2>1. CASE CommitAnswer(h)
    BY <1>1, <2>1 DEF CommitAnswer, LocalInv, HandlerLocal, PreparePC, CommitPC
  <2>2. CASE GetFileAnswer(h)
    BY <1>1, <2>2 DEF GetFileAnswer, GetFileReply, PreparePC, CommitPC
  <2>3. CASE PrepareGivesUp(h)
    BY <1>1, <2>3 DEF PrepareGivesUp, HandlerError, LocalInv, HandlerLocal, PreparePC, CommitPC, txVars
  <2>4. CASE HandlerFault(h)
    BY <1>1, <2>4 DEF HandlerFault, LocalInv, HandlerLocal
  <2> QED
    BY <2>1, <2>2, <2>3, <2>4 DEF Finish
<1>3. conn # h /\ conn' = (IF conn = h THEN Free ELSE conn)
  BY <1>1, <1>2 DEF LocalInv, HandlerLocal
<1>4. UNCHANGED durableTables
  BY <1>1, <1>2, DurableKept
<1>5. [MP!ManifestNext]_(MP!manifestVars)
  BY <1>1, <1>2, <1>4, ReturnRefines
<1>6. \A g \in Handler \ {h} : htx'[g] = htx[g] /\ hpc'[g] = hpc[g] /\ hnodes'[g] = hnodes[g]
  BY <1>1, <1>2, SetTx, NoTxIsTx DEF TxTypeOK, Return
<1>7. hpc'[h] = "idle"
  BY <1>1, <1>2 DEF TxTypeOK, Return
<1>8. \A g \in Handler : conn' = g => TxOK(g)'
  <2> SUFFICES ASSUME NEW g \in Handler, conn' = g
               PROVE  TxOK(g)'
    OBVIOUS
  <2>1. g # h /\ conn = g /\ TxOK(g)
    BY <1>2, <1>3 DEF SqliteInv
  <2> QED
    BY <1>2, <1>4, <1>6, <2>1, TxStable
<1>9. \A g \in Handler : hpc'[g] = "answer" => hpc[g] = "answer" /\ htx'[g] = htx[g]
  BY <1>6, <1>7
<1>10. CASE CommitAnswer(h)
  <2>1. /\ hpc[h] = "answer" /\ ackedCommits' = ackedCommits \cup {htx[h].s}
        /\ htx[h].s \in SessionID /\ Durable.sessions[htx[h].s] = "committed"
    BY <1>10 DEF CommitAnswer, SqliteInv, AnswersDurable
  <2>2. ackedCommits' \subseteq SessionID
    BY <1>1, <2>1 DEF TxTypeOK
  <2>3. TxTypeOK' /\ LocalInv'
    BY <1>1, <1>2, <1>3, <2>2, ReturnLocal
  <2>4. MP!ManifestInv'
    BY <1>5, DurableNext DEF SqliteInv
  <2>5. Durable'.sessions = Durable.sessions
    BY <1>4 DEF durableTables
  <2>6. AnswersDurable'
    BY <1>9, <2>1, <2>5 DEF SqliteInv, AnswersDurable
  <2> QED
    BY <1>5, <1>8, <2>3, <2>4, <2>6 DEF SqliteInv
<1>11. CASE ~CommitAnswer(h)
  <2>1. ackedCommits' = ackedCommits
    BY <1>11 DEF Finish, GetFileAnswer, PrepareGivesUp, HandlerFault, txVars
  <2>2. ackedCommits' \subseteq SessionID
    BY <1>1, <2>1 DEF TxTypeOK
  <2>3. TxTypeOK' /\ LocalInv'
    BY <1>1, <1>2, <1>3, <2>2, ReturnLocal
  <2> QED
    BY <1>5, <1>8, <1>9, <2>1, <2>3, Assemble
<1> QED
  BY <1>10, <1>11

\* A transaction ends and its handler returns.
LEMMA EndTxStep ==
  ASSUME SqliteInv, NEW h \in Handler, conn = h, EndTx(h), UNCHANGED <<ackedCommits, broken>>,
         [MP!ManifestNext]_(MP!manifestVars)
  PROVE  SqliteInv'
<1>1. TxTypeOK /\ LocalInv
  BY DEF SqliteInv
<1>2. Return(h) /\ conn' = Free /\ htx' = [htx EXCEPT ![h] = NoTx]
  BY DEF EndTx
<1>3. broken' = broken \ {h}
  BY <1>1 DEF LocalInv, HandlerLocal, PreparePC, CommitPC
<1>4. ackedCommits' \subseteq SessionID
  BY <1>1 DEF TxTypeOK
<1>5. TxTypeOK' /\ LocalInv'
  BY <1>1, <1>2, <1>3, <1>4, ReturnLocal
<1>6. \A g \in Handler : conn' = g => TxOK(g)'
  BY <1>2, SqliteTxAssumption
<1>7. \A g \in Handler : hpc'[g] = "answer" => hpc[g] = "answer" /\ htx'[g] = htx[g]
  <2>1. hpc'[h] = "idle"
    BY <1>1, <1>2 DEF TxTypeOK, Return
  <2>2. \A g \in Handler \ {h} : htx'[g] = htx[g] /\ hpc'[g] = hpc[g]
    BY <1>1, <1>2, SetTx, NoTxIsTx DEF TxTypeOK, Return
  <2> QED
    BY <2>1, <2>2
<1> QED
  BY <1>5, <1>6, <1>7, Assemble

\* ROLLBACK: nothing has happened.
LEMMA RollbackStep ==
  ASSUME SqliteInv, NEW h \in Handler, Rollback(h)
  PROVE  [MP!ManifestNext]_(MP!manifestVars) /\ SqliteInv'
<1>1. TxTypeOK /\ LocalInv
  BY DEF SqliteInv
<1>2. conn = h /\ EndTx(h) /\ UNCHANGED <<clientVars, ackedCommits, broken>>
  BY DEF Rollback
<1>3. UNCHANGED durableTables
  BY <1>1, DurableKept
<1>4. broken' = broken \ {h}
  BY <1>1, <1>2 DEF LocalInv, HandlerLocal, PreparePC, CommitPC
<1>5. [MP!ManifestNext]_(MP!manifestVars)
  BY <1>1, <1>2, <1>3, <1>4, ReturnRefines DEF EndTx
<1> QED
  BY <1>2, <1>5, EndTxStep

\* COMMIT of PrepareUpload.
LEMMA PrepareCommitStep ==
  ASSUME SqliteInv, NEW h \in Handler, PrepareCommit(h)
  PROVE  [MP!ManifestNext]_(MP!manifestVars) /\ SqliteInv'
<1>1. TxTypeOK /\ LocalInv
  BY DEF SqliteInv
<1>2. conn = h /\ EndTx(h) /\ UNCHANGED <<ackedCommits, broken>>
  BY DEF PrepareCommit
<1>3. PrepareTxOK(h)
  BY <1>2 DEF SqliteInv, TxOK, PrepareCommit, PreparePC
<1>4. [MP!ManifestNext]_(MP!manifestVars)
  BY <1>1, <1>3, PrepareCommitRefines
<1> QED
  BY <1>2, <1>4, EndTxStep

\* COMMIT of CommitUpload: what will be answered is durable now.
LEMMA CommitUploadStep ==
  ASSUME SqliteInv, NEW h \in Handler, CommitUploadCommit(h)
  PROVE  [MP!ManifestNext]_(MP!manifestVars) /\ SqliteInv'
<1>1. TxTypeOK /\ LocalInv
  BY DEF SqliteInv
<1>2. /\ conn = h /\ hpc[h] = "commitUpload" /\ hpc' = [hpc EXCEPT ![h] = "answer"] /\ conn' = Free
      /\ UNCHANGED <<storeVars, htx, hfile, hnodes, htodo, hplan, ackedCommits, broken>>
  BY DEF CommitUploadCommit
<1>3. CommitTxOK(h)
  BY <1>2 DEF SqliteInv, TxOK, CommitPC
<1>4. [MP!ManifestNext]_(MP!manifestVars)
  BY <1>1, <1>3, CommitUploadRefines DEF SqliteInv
<1>5. TxTypeOK'
  BY <1>1, <1>2, SqliteTxAssumption DEF TxTypeOK, IsTx
<1>6. LocalInv'
  <2> SUFFICES ASSUME NEW g \in Handler
               PROVE  HandlerLocal(g)'
    BY DEF LocalInv
  <2>1. HandlerLocal(g)
    BY <1>1 DEF LocalInv
  <2> QED
    BY <1>1, <1>2, <2>1, SqliteTxAssumption DEF TxTypeOK, HandlerLocal, PreparePC, CommitPC
<1>7. htx[h].s \in SessionID /\ Durable'.sessions[htx[h].s] = "committed"
  <2>1. htx[h].s \in SessionID
    BY <1>3 DEF CommitTxOK
  <2>2. Durable'.sessions = sessionStatus
    BY <1>2, FreeDurableNext DEF storeVars, fileTables
  <2>3. CASE htx[h].f = NoFile
    BY <1>2, <1>3, <2>1, <2>2, <2>3 DEF CommitTxOK, CommitReads
  <2>4. CASE htx[h].f # NoFile
    <3>1. sessionStatus = [Durable.sessions EXCEPT ![htx[h].s] = "committed"]
      BY <1>2, <1>3, <2>4 DEF CommitTxOK, CommitWrites
    <3>2. Durable.sessions \in [SessionID -> MP!SessionStatus]
      BY DEF SqliteInv, MP!ManifestInv, MP!TypeOK, MP!StoreTypeOK
    <3> QED
      BY <2>1, <2>2, <3>1, <3>2
  <2> QED
    BY <2>1, <2>3, <2>4
<1>8. AnswersDurable'
  <2>1. \A s \in ackedCommits' : Durable'.sessions[s] = "committed"
    BY <1>1, <1>2, <1>4, DurableNext DEF SqliteInv, AnswersDurable, TxTypeOK
  <2>2. \A g \in Handler : hpc'[g] = "answer" =>
          htx'[g].s \in SessionID /\ Durable'.sessions[htx'[g].s] = "committed"
    <3> SUFFICES ASSUME NEW g \in Handler, hpc'[g] = "answer"
                 PROVE  htx[g].s \in SessionID /\ Durable'.sessions[htx[g].s] = "committed"
      BY <1>2
    <3>1. CASE g = h
      BY <1>7, <3>1
    <3>2. CASE g # h
      <4>1. hpc[g] = "answer"
        BY <1>1, <1>2, <3>2 DEF TxTypeOK
      <4>2. htx[g].s \in SessionID /\ Durable.sessions[htx[g].s] = "committed"
        BY <4>1 DEF SqliteInv, AnswersDurable
      <4> QED
        BY <1>4, <4>2, DurableNext DEF SqliteInv
    <3> QED
      BY <3>1, <3>2
  <2> QED
    BY <2>1, <2>2 DEF AnswersDurable
<1>9. \A g \in Handler : conn' = g => TxOK(g)'
  BY <1>2, SqliteTxAssumption
<1>10. MP!ManifestInv'
  BY <1>4, DurableNext DEF SqliteInv
<1> QED
  BY <1>4, <1>5, <1>6, <1>8, <1>9, <1>10 DEF SqliteInv

\* A transaction begins or goes on to its next statement.
LEMMA StatementStep ==
  ASSUME SqliteInv, NEW h \in Handler, NEW pc, NEW next, NEW tx, IsTx(tx),
         htx' = [htx EXCEPT ![h] = tx],
         hpc[h] = pc, hpc' = [hpc EXCEPT ![h] = next],
         \/ pc \in PreparePC \cup {"prepare"} /\ next \in PreparePC
         \/ pc \in CommitPC \cup {"idle"} /\ next \in CommitPC,
         \/ conn = h /\ UNCHANGED <<conn, saved>>
         \/ conn = Free /\ conn' = h /\ saved' = Tables,
         UNCHANGED <<hfile, hnodes, htodo, hplan, clientVars, broken, ackedCommits>>,
         TxOK(h)'
  PROVE  [MP!ManifestNext]_(MP!manifestVars) /\ SqliteInv'
<1>1. TxTypeOK /\ LocalInv
  BY DEF SqliteInv
<1>2. [MP!ManifestNext]_(MP!manifestVars)
  BY <1>1, StatementRefines
<1>3. conn' = h /\ conn \in {h, Free}
  OBVIOUS
<1>4. TxTypeOK'
  <2>1. htx' = [g \in Handler |-> htx'[g]] /\ \A g \in Handler : IsTx(htx'[g])
    BY <1>1, SetTx
  <2>2. hpc' \in [Handler -> HandlerPC \cup PreparePC \cup CommitPC \cup {"answer"}]
    BY <1>1 DEF TxTypeOK
  <2> QED
    BY <1>1, <1>3, <2>1, <2>2 DEF TxTypeOK, IsTx
<1>5. LocalInv'
  <2> SUFFICES ASSUME NEW g \in Handler
               PROVE  HandlerLocal(g)'
    BY DEF LocalInv
  <2>1. HandlerLocal(g)
    BY <1>1 DEF LocalInv
  <2> QED
    BY <1>1, <1>3, <2>1, SqliteTxAssumption DEF TxTypeOK, HandlerLocal, PreparePC, CommitPC
<1>6. \A g \in Handler : conn' = g => TxOK(g)'
  BY <1>3
<1>7. \A g \in Handler : hpc'[g] = "answer" => hpc[g] = "answer" /\ htx'[g] = htx[g]
  <2>1. hpc'[h] # "answer"
    BY <1>1 DEF TxTypeOK, PreparePC, CommitPC
  <2>2. \A g \in Handler \ {h} : htx'[g] = htx[g] /\ hpc'[g] = hpc[g]
    BY <1>1, SetTx DEF TxTypeOK
  <2> QED
    BY <2>1, <2>2
<1> QED
  BY <1>2, <1>4, <1>5, <1>6, <1>7, Assemble

\* A file of at least one byte has a chunk to insert.
LEMMA SomeChunk ==
  ASSUME NEW cs, NEW size \in FileSizes, Cardinality(cs) = ChunkCount(size)
  PROVE  cs # {}
<1>1. MP!ChunkCount(size) \in Nat \ {0}
  BY MP!ChunkCountPositive, SameSets, NodeAssumption, FileTablesAssumption, ManifestAssumption
<1>2. Cardinality({}) = 0
  BY FS_EmptySet
<1> QED
  BY <1>1, <1>2 DEF ChunkCount, MP!ChunkCount

\* BEGIN of PrepareUpload.
LEMMA PrepareBeginStep ==
  ASSUME SqliteInv, NEW h \in Handler, NEW f \in FileID, NEW s \in SessionID,
         NEW cs \in SUBSET ChunkID, NEW size \in FileSizes, PrepareBegin(h, f, s, cs, size)
  PROVE  [MP!ManifestNext]_(MP!manifestVars) /\ SqliteInv'
<1>1. TxTypeOK
  BY DEF SqliteInv
<1>2. PICK rm \in SelectReplicas(cs, hnodes[h]) :
        BeginTx(h, [f |-> f, s |-> s, rm |-> rm, rows |-> cs], "createFile")
  BY DEF PrepareBegin
<1> DEFINE tx == [f |-> f, s |-> s, rm |-> rm, rows |-> cs]
<1>3. /\ conn = Free /\ conn' = h /\ saved' = Tables /\ htx' = [htx EXCEPT ![h] = tx]
      /\ hpc[h] = "prepare" /\ hpc' = [hpc EXCEPT ![h] = "createFile"]
      /\ UNCHANGED <<storeVars, hfile, hnodes, htodo, hplan, clientVars, ackedCommits, broken>>
  BY <1>2 DEF BeginTx, PrepareBegin
<1>4. IsTx(tx)
  BY DEF IsTx
<1>5. DOMAIN rm = cs
  BY DEF SelectReplicas
<1>6. htx'[h] = tx /\ hpc'[h] = "createFile"
  BY <1>1, <1>3, <1>4, SetTx DEF TxTypeOK
<1>7. Durable' = Tables
  BY <1>3, SqliteTxAssumption DEF Durable
<1>8. /\ Durable'.files = fileStatus' /\ Durable'.chunks = chunkFile'
      /\ Durable'.locations = chunkLocations' /\ Durable'.nodes = nodeStatus'
      /\ Durable'.sessions = sessionStatus' /\ Durable'.owners = sessionFile'
  BY <1>3, <1>7 DEF Tables, storeVars, fileTables
<1>9. /\ fileStatus'[f] = "none" /\ sessionStatus'[s] = "none"
      /\ \A c \in cs : chunkFile'[c] = NoFile
      /\ Cardinality(cs) = ChunkCount(size)
  BY <1>3 DEF PrepareBegin, storeVars, fileTables
<1>10. chunkFile' = [c \in ChunkID |-> chunkFile'[c]]
  <2>1. chunkFile \in [ChunkID -> FileID \cup {NoFile}]
    BY <1>3, FreeDurable DEF SqliteInv, MP!ManifestInv, MP!TypeOK, MP!StoreTypeOK, MP!FileTablesTypeOK
  <2> QED
    BY <1>3, <2>1 DEF storeVars, fileTables
<1>11. PrepareTxOK(h)'
  <2>1. /\ htx'[h].f = f /\ htx'[h].s = s /\ htx'[h].rm = rm /\ htx'[h].rows = cs
        /\ DOMAIN htx'[h].rm = cs
    BY <1>5, <1>6
  <2>2. htx'[h].rm \in SelectReplicas(DOMAIN htx'[h].rm, hnodes'[h])
    BY <1>3, <2>1
  <2>3. \E z \in FileSizes : Cardinality(DOMAIN htx'[h].rm) = ChunkCount(z)
    BY <1>9, <2>1
  <2>4. chunkFile' = [c \in ChunkID |-> IF c \in cs \ cs THEN f ELSE Durable'.chunks[c]]
    BY <1>8, <1>10
  <2>5. cs # {}
    BY <1>9, SomeChunk
  <2> HIDE DEF tx
  <2> QED
    BY <1>6, <1>8, <1>9, <2>1, <2>2, <2>3, <2>4, <2>5 DEF PrepareTxOK
<1>12. TxOK(h)'
  BY <1>6, <1>11 DEF TxOK, CommitPC
<1> HIDE DEF tx
<1> QED
  BY <1>3, <1>4, <1>12, StatementStep DEF PreparePC

\* BEGIN of CommitUpload.
LEMMA CommitBeginStep ==
  ASSUME SqliteInv, NEW h \in Handler, NEW s \in SessionID, NEW D \in (SUBSET ChunkID) \ {{}},
         NEW rm \in [D -> ReplicaLists], CommitBegin(h, s, rm)
  PROVE  [MP!ManifestNext]_(MP!manifestVars) /\ SqliteInv'
<1>1. TxTypeOK
  BY DEF SqliteInv
<1> DEFINE tx == [f |-> NoFile, s |-> s, rm |-> rm, rows |-> {}]
<1>2. /\ conn = Free /\ conn' = h /\ saved' = Tables /\ htx' = [htx EXCEPT ![h] = tx]
      /\ hpc[h] = "idle" /\ hpc' = [hpc EXCEPT ![h] = "check"]
      /\ UNCHANGED <<storeVars, hfile, hnodes, htodo, hplan, clientVars, ackedCommits, broken>>
  BY DEF BeginTx, CommitBegin
<1>3. IsTx(tx)
  BY DEF IsTx
<1>4. htx'[h] = tx /\ hpc'[h] = "check"
  BY <1>1, <1>2, <1>3, SetTx DEF TxTypeOK
<1>5. Durable' = Tables
  BY <1>2, SqliteTxAssumption DEF Durable
<1>6. /\ Durable'.files = fileStatus' /\ Durable'.chunks = chunkFile'
      /\ Durable'.locations = chunkLocations' /\ Durable'.nodes = nodeStatus'
      /\ Durable'.sessions = sessionStatus' /\ Durable'.owners = sessionFile'
  BY <1>2, <1>5 DEF Tables, storeVars, fileTables
<1>7. CommitTxOK(h)'
  <2>1. htx'[h].f = NoFile /\ htx'[h].s = s /\ htx'[h].rm = rm /\ DOMAIN htx'[h].rm = D
    BY <1>4
  <2>2. CommitReads(h)'
    BY <1>4, <1>6 DEF CommitReads
  <2> HIDE DEF tx
  <2> QED
    BY <1>6, <2>1, <2>2 DEF CommitTxOK
<1>8. TxOK(h)'
  BY <1>4, <1>7 DEF TxOK, PreparePC
<1> HIDE DEF tx
<1> QED
  BY <1>2, <1>3, <1>8, StatementStep DEF CommitPC

\* What every statement inside a transaction leaves alone.
LEMMA InTxFacts ==
  ASSUME SqliteInv, NEW h \in Handler, NEW pc, NEW next, InTx(h, pc, next)
  PROVE  /\ conn = h /\ TxOK(h) /\ Durable' = Durable
         /\ hpc[h] = pc /\ hpc'[h] = next /\ hpc' = [hpc EXCEPT ![h] = next]
         /\ UNCHANGED <<hfile, hnodes, htodo, hplan, clientVars, conn, saved, ackedCommits, broken>>
         /\ IsTx(htx[h]) /\ htx = [htx EXCEPT ![h] = htx[h]]
<1>1. TxTypeOK /\ conn = h /\ TxOK(h)
  BY DEF SqliteInv, InTx
<1>2. Durable' = Durable
  BY <1>1, SqliteTxAssumption DEF InTx, Durable
<1>3. IsTx(htx[h]) /\ htx = [htx EXCEPT ![h] = htx[h]]
  <2>1. htx = [g \in Handler |-> htx[g]]
    BY <1>1 DEF TxTypeOK
  <2> QED
    BY <1>1, <2>1 DEF TxTypeOK
<1> QED
  BY <1>1, <1>2, <1>3 DEF InTx, TxTypeOK

\* The INSERTs of PrepareUpload's transaction.
LEMMA PrepareStatementStep ==
  ASSUME SqliteInv, NEW h \in Handler,
         PrepareCreateFile(h) \/ PrepareCreateSession(h) \/ \E c \in ChunkID : PrepareInsertChunk(h, c)
  PROVE  [MP!ManifestNext]_(MP!manifestVars) /\ SqliteInv'
<1>1. CASE PrepareCreateFile(h)
  <2>1. InTx(h, "createFile", "createSession")
    BY <1>1 DEF PrepareCreateFile
  <2>2. /\ htx' = htx /\ hnodes' = hnodes /\ Durable' = Durable /\ PrepareTxOK(h)
        /\ hpc[h] = "createFile" /\ hpc'[h] = "createSession"
    BY <1>1, <2>1, InTxFacts DEF PrepareCreateFile, TxOK, PreparePC
  <2>3. /\ fileStatus' = [fileStatus EXCEPT ![htx[h].f] = "pending"]
        /\ UNCHANGED <<sessionStatus, sessionFile, chunkFile, chunkLocations, nodeStatus>>
    BY <1>1 DEF PrepareCreateFile, CreateFile
  <2>4. PrepareTxOK(h)'
    BY <2>2, <2>3 DEF PrepareTxOK
  <2>5. TxOK(h)'
    BY <2>2, <2>4 DEF TxOK, CommitPC
  <2> QED
    BY <2>1, <2>2, <2>5, InTxFacts, StatementStep DEF PreparePC
<1>2. CASE PrepareCreateSession(h)
  <2>1. InTx(h, "createSession", "insertChunks")
    BY <1>2 DEF PrepareCreateSession
  <2>2. /\ htx' = htx /\ hnodes' = hnodes /\ Durable' = Durable /\ PrepareTxOK(h)
        /\ hpc[h] = "createSession" /\ hpc'[h] = "insertChunks"
    BY <1>2, <2>1, InTxFacts DEF PrepareCreateSession, TxOK, PreparePC
  <2>3. /\ sessionStatus' = [sessionStatus EXCEPT ![htx[h].s] = "preparing"]
        /\ sessionFile' = [sessionFile EXCEPT ![htx[h].s] = htx[h].f]
        /\ UNCHANGED <<fileStatus, chunkFile, chunkLocations, nodeStatus>>
    BY <1>2 DEF PrepareCreateSession, CreateUploadSession
  <2>4. PrepareTxOK(h)'
    BY <2>2, <2>3 DEF PrepareTxOK
  <2>5. TxOK(h)'
    BY <2>2, <2>4 DEF TxOK, CommitPC
  <2> QED
    BY <2>1, <2>2, <2>5, InTxFacts, StatementStep DEF PreparePC
<1>3. ASSUME NEW c \in ChunkID, PrepareInsertChunk(h, c)
      PROVE  [MP!ManifestNext]_(MP!manifestVars) /\ SqliteInv'
  <2> DEFINE next == IF htx[h].rows = {c} THEN "commitPrepare" ELSE "insertChunks"
             tx == [htx[h] EXCEPT !.rows = @ \ {c}]
  <2>1. InTx(h, "insertChunks", next)
    BY <1>3 DEF PrepareInsertChunk
  <2>2. /\ hnodes' = hnodes /\ Durable' = Durable /\ PrepareTxOK(h) /\ IsTx(htx[h])
        /\ hpc[h] = "insertChunks" /\ hpc'[h] = next
    BY <2>1, InTxFacts DEF TxOK, PreparePC
  <2>3. tx = [f |-> htx[h].f, s |-> htx[h].s, rm |-> htx[h].rm, rows |-> htx[h].rows \ {c}]
    BY <2>2 DEF IsTx
  <2>4. IsTx(tx)
    BY <2>3 DEF IsTx
  <2>5. htx' = [htx EXCEPT ![h] = tx]
    BY <1>3 DEF PrepareInsertChunk
  <2>6. htx'[h] = tx
    BY <2>4, <2>5, SetTx DEF SqliteInv
  <2>7. /\ htx'[h].f = htx[h].f /\ htx'[h].s = htx[h].s /\ htx'[h].rm = htx[h].rm
        /\ htx'[h].rows = htx[h].rows \ {c}
    BY <2>3, <2>6
  <2>8. /\ c \in htx[h].rows
        /\ chunkFile' = [d \in ChunkID |-> IF d = c THEN htx[h].f ELSE chunkFile[d]]
        /\ UNCHANGED <<fileStatus, sessionStatus, sessionFile, chunkLocations, nodeStatus>>
    BY <1>3 DEF PrepareInsertChunk, InsertChunks
  <2>9. chunkFile' = [d \in ChunkID |-> IF d \in DOMAIN htx'[h].rm \ htx'[h].rows
                                        THEN htx'[h].f ELSE Durable'.chunks[d]]
    <3>1. /\ chunkFile = [d \in ChunkID |-> IF d \in DOMAIN htx[h].rm \ htx[h].rows
                                            THEN htx[h].f ELSE Durable.chunks[d]]
          /\ htx[h].rows \subseteq DOMAIN htx[h].rm
      BY <2>2 DEF PrepareTxOK
    <3> QED
      BY <2>2, <2>7, <2>8, <3>1
  <2>10. next \in PreparePC /\ next \in {"insertChunks", "commitPrepare"}
    BY DEF PreparePC
  <2>11. PrepareTxOK(h)'
    <3> HIDE DEF tx
    <3>1. next = "commitPrepare" <=> htx'[h].rows = {}
      BY <2>7, <2>8
    <3> HIDE DEF next
    <3> QED
      BY <2>2, <2>7, <2>8, <2>9, <2>10, <3>1 DEF PrepareTxOK
  <2>12. TxOK(h)'
    BY <2>2, <2>10, <2>11 DEF TxOK, CommitPC
  <2> HIDE DEF tx, next
  <2> QED
    BY <2>1, <2>2, <2>4, <2>5, <2>10, <2>12, InTxFacts, StatementStep DEF PreparePC
<1> QED
  BY <1>1, <1>2, <1>3

\* The checks of CommitUpload's transaction.
LEMMA CommitCheckStep ==
  ASSUME SqliteInv, NEW h \in Handler, CommitCheckDone(h) \/ CommitCheckPassed(h)
  PROVE  [MP!ManifestNext]_(MP!manifestVars) /\ SqliteInv'
<1> DEFINE s == htx[h].s
           rm == htx[h].rm
<1>1. PICK next : InTx(h, "check", next) /\ next \in CommitPC /\ UNCHANGED storeVars
  BY DEF CommitCheckDone, CommitCheckPassed, CommitPC
<1>2. /\ hnodes' = hnodes /\ Durable' = Durable /\ IsTx(htx[h]) /\ CommitTxOK(h)
      /\ hpc[h] = "check" /\ hpc'[h] = next
  BY <1>1, InTxFacts DEF TxOK, CommitPC
<1>3. UNCHANGED <<fileStatus, chunkFile, chunkLocations, nodeStatus, sessionStatus, sessionFile>>
  BY <1>1 DEF storeVars, fileTables
<1>4. /\ s \in SessionID /\ DOMAIN rm \subseteq ChunkID /\ DOMAIN rm # {}
      /\ rm \in [DOMAIN rm -> ReplicaLists] /\ htx[h].f = NoFile
      /\ fileStatus = Durable.files /\ sessionStatus = Durable.sessions
      /\ chunkLocations = Durable.locations /\ sessionFile = Durable.owners
      /\ chunkFile = Durable.chunks /\ nodeStatus = Durable.nodes
  BY <1>2 DEF CommitTxOK, CommitReads, CommitWrites
<1>5. CASE CommitCheckDone(h)
  <2>1. htx' = htx /\ next = "commitUpload"
    <3>1. htx' = htx /\ InTx(h, "check", "commitUpload")
      BY <1>5 DEF CommitCheckDone
    <3>2. hpc'[h] = "commitUpload"
      BY <3>1, InTxFacts
    <3> QED
      BY <1>2, <3>1, <3>2
  <2>2. Durable.sessions[s] = "committed"
    <3>1. \/ Durable.sessions[s] = "committed"
          \/ Durable.sessions[s] = "preparing" /\ Durable.files[Durable.owners[s]] = "committed"
      BY <1>4, <1>5 DEF CommitCheckDone, AlreadyCommitted, GetUploadSession, GetFile
    <3> QED
      BY <1>4, <3>1 DEF SqliteInv, MP!ManifestInv, MP!SessionFileAgreement
  <2>3. CommitReads(h)'
    BY <1>2, <1>3, <1>4, <2>1, <2>2 DEF CommitReads
  <2>4. CommitTxOK(h)'
    BY <1>2, <1>3, <1>4, <2>1, <2>3 DEF CommitTxOK
  <2>5. TxOK(h)'
    BY <1>2, <2>1, <2>4 DEF TxOK, PreparePC
  <2> QED
    BY <1>1, <2>1, <2>5, InTxFacts, StatementStep DEF CommitPC
<1>6. CASE CommitCheckPassed(h)
  <2> DEFINE f == sessionFile[s]
             tx == [f |-> f, s |-> s, rm |-> rm, rows |-> LocationRows(rm)]
  <2>1. /\ CommitValid(s, rm)
        /\ htx' = [htx EXCEPT ![h].f = f, ![h].rows = LocationRows(rm)]
        /\ InTx(h, "check", IF LocationRows(rm) = {} THEN "updateFile" ELSE "insertLocations")
    BY <1>6 DEF CommitCheckPassed
  <2>2. next = IF LocationRows(rm) = {} THEN "updateFile" ELSE "insertLocations"
    BY <1>2, <2>1, InTxFacts
  <2>3. IsTx(tx)
    BY DEF IsTx
  <2>4. htx' = [htx EXCEPT ![h] = tx]
    <3>1. htx[h] = [f |-> htx[h].f, s |-> s, rm |-> rm, rows |-> htx[h].rows]
      BY <1>2 DEF IsTx
    <3>2. htx = [g \in Handler |-> htx[g]]
      BY DEF SqliteInv, TxTypeOK
    <3>3. tx = [[htx[h] EXCEPT !.f = f] EXCEPT !.rows = LocationRows(rm)]
      <4>1. ASSUME NEW t, NEW x, NEW y, t = [f |-> t.f, s |-> t.s, rm |-> t.rm, rows |-> t.rows]
            PROVE  [[t EXCEPT !.f = x] EXCEPT !.rows = y]
                     = [f |-> x, s |-> t.s, rm |-> t.rm, rows |-> y]
        <5>1. [t EXCEPT !.f = x] = [f |-> x, s |-> t.s, rm |-> t.rm, rows |-> t.rows]
          BY <4>1
        <5>2. ASSUME NEW u, u = [f |-> x, s |-> t.s, rm |-> t.rm, rows |-> t.rows]
              PROVE  [u EXCEPT !.rows = y] = [f |-> x, s |-> t.s, rm |-> t.rm, rows |-> y]
          BY <5>2
        <5> QED
          BY <5>1, <5>2
      <4> QED
        BY <3>1, <4>1
    <3> QED
      BY <2>1, <3>2, <3>3
  <2>5. htx'[h] = tx
    BY <2>3, <2>4, SetTx DEF SqliteInv
  <2>6. /\ htx'[h].f = f /\ htx'[h].s = s /\ htx'[h].rm = rm /\ htx'[h].rows = LocationRows(rm)
    BY <2>5
  <2>7. MP!CommitValid(s, rm)
    <3>1. MP!GetChunksByFileID(Durable.owners[s]) = GetChunksByFileID(f)
      BY <1>4 DEF MP!GetChunksByFileID, GetChunksByFileID
    <3>2. /\ Durable.sessions[s] = "preparing" /\ Durable.files[Durable.owners[s]] = "pending"
          /\ GetChunksByFileID(f) # {}
          /\ Cardinality(DOMAIN rm) = Cardinality(GetChunksByFileID(f))
          /\ DOMAIN rm \subseteq GetChunksByFileID(f)
          /\ \A c \in DOMAIN rm :
               /\ Len(rm[c]) >= ReplicationFactor
               /\ \A i \in DOMAIN rm[c] : rm[c][i] # EmptyID
      BY <1>4, <2>1 DEF CommitValid, GetUploadSession, GetFile
    <3>3. MP!Cardinality(DOMAIN rm) = MP!Cardinality(GetChunksByFileID(f))
      BY <3>2, SameSets
    <3> HIDE DEF rm, s, f
    <3> QED
      BY <3>1, <3>2, <3>3 DEF MP!CommitValid, MP!GetUploadSession, MP!GetFile
  <2>8. f # NoFile
    <3>1. Durable.sessions[s] # "none"
      BY <2>7 DEF MP!CommitValid, MP!GetUploadSession
    <3> QED
      BY <1>4, <3>1 DEF SqliteInv, MP!ManifestInv, MP!ForeignKeys
  <2>9. Written(h)' = {}
    BY <2>6 DEF Written
  <2>10. \A a, m : MP!CommitValid(a, m)' <=> MP!CommitValid(a, m)
    BY <1>2 DEF MP!CommitValid, MP!GetUploadSession, MP!GetFile, MP!GetChunksByFileID
  <2> HIDE DEF tx
  <2>11. CommitWrites(h)'
    <3>1. /\ hpc'[h] \in {"insertLocations", "updateFile"}
          /\ hpc'[h] = "insertLocations" <=> htx'[h].rows # {}
      BY <1>2, <2>2, <2>6
    <3>2. /\ \A r \in Written(h)' : <<r[1], RowNode(h, r)'>> \notin Durable'.locations
          /\ \A q, r \in Written(h)' : q[1] = r[1] /\ RowNode(h, q)' = RowNode(h, r)' => q = r
      BY <2>9
    <3>3. chunkLocations' = Durable'.locations \cup {<<r[1], RowNode(h, r)'>> : r \in Written(h)'}
      BY <1>2, <1>3, <1>4, <2>9
    <3>4. MP!CommitValid(htx[h].s, htx[h].rm)'
      BY <2>6, <2>7, <2>10
    <3>5. htx'[h].f = Durable'.owners[htx'[h].s] /\ htx'[h].rows \subseteq LocationRows(htx'[h].rm)
      BY <1>2, <1>4, <2>6
    <3>6. fileStatus' = Durable'.files /\ sessionStatus' = Durable'.sessions
      BY <1>2, <1>3, <1>4
    <3> QED
      BY <3>1, <3>2, <3>3, <3>4, <3>5, <3>6 DEF CommitWrites
  <2>12. CommitTxOK(h)'
    BY <1>2, <1>3, <1>4, <2>6, <2>8, <2>11 DEF CommitTxOK
  <2>13. TxOK(h)'
    BY <1>1, <1>2, <2>12 DEF TxOK, PreparePC, CommitPC
  <2> QED
    BY <1>1, <2>3, <2>4, <2>13, InTxFacts, StatementStep DEF CommitPC
<1> QED
  BY <1>5, <1>6

\* The UPDATEs of CommitUpload's transaction.
LEMMA CommitUpdateStep ==
  ASSUME SqliteInv, NEW h \in Handler, CommitUpdateFile(h) \/ CommitUpdateSession(h)
  PROVE  [MP!ManifestNext]_(MP!manifestVars) /\ SqliteInv'
<1> DEFINE s == htx[h].s
           rm == htx[h].rm
<1>1. PICK pc, next : /\ InTx(h, pc, next)
                      /\ \/ pc = "updateFile" /\ next = "updateSession" /\ CommitUpdateFile(h)
                         \/ pc = "updateSession" /\ next = "commitUpload" /\ CommitUpdateSession(h)
  BY DEF CommitUpdateFile, CommitUpdateSession
<1>2. /\ hnodes' = hnodes /\ Durable' = Durable /\ CommitTxOK(h)
      /\ hpc[h] = pc /\ hpc'[h] = next
  BY <1>1, InTxFacts DEF TxOK, CommitPC
<1>3. htx' = htx /\ UNCHANGED <<chunkFile, chunkLocations, nodeStatus, sessionFile>>
  BY DEF CommitUpdateFile, CommitUpdateSession
<1>4. CommitWrites(h) /\ htx[h].f # NoFile
  BY <1>1, <1>2 DEF CommitTxOK, CommitReads
<1>5. Durable.sessions[s] = "preparing" /\ Durable.files[htx[h].f] = "pending"
  BY <1>4 DEF CommitWrites, MP!CommitValid, MP!GetUploadSession, MP!GetFile
<1>6. fileStatus' = [Durable.files EXCEPT ![htx[h].f] = "committed"]
  BY <1>1, <1>2, <1>4, <1>5 DEF CommitWrites, CommitUpdateFile, CommitUpdateSession, UpdateFileStatus
<1>7. sessionStatus' = IF next = "commitUpload" THEN [Durable.sessions EXCEPT ![s] = "committed"]
                                                ELSE Durable.sessions
  BY <1>1, <1>2, <1>4, <1>5
     DEF CommitWrites, CommitUpdateFile, CommitUpdateSession, UpdateUploadSessionStatus
<1>8. Written(h)' = Written(h) /\ \A r : RowNode(h, r)' = RowNode(h, r)
  BY <1>3 DEF Written, RowNode, LocationRows
<1>9. MP!CommitValid(s, rm)' <=> MP!CommitValid(s, rm)
  BY <1>2, <1>3 DEF MP!CommitValid, MP!GetUploadSession, MP!GetFile, MP!GetChunksByFileID
<1>10. CommitWrites(h)'
  BY <1>1, <1>2, <1>3, <1>4, <1>6, <1>7, <1>8, <1>9 DEF CommitWrites
<1>11. CommitTxOK(h)'
  BY <1>2, <1>3, <1>4, <1>10 DEF CommitTxOK
<1>12. TxOK(h)'
  BY <1>1, <1>2, <1>11 DEF TxOK, PreparePC
<1> QED
  BY <1>1, <1>3, <1>12, InTxFacts, StatementStep DEF CommitPC

\* One INSERT of CommitUpload's transaction: the row it adds is neither in
\* the database a crash would leave nor one the list has written before.
LEMMA CommitInsertStep ==
  ASSUME SqliteInv, NEW h \in Handler, NEW r \in htx[h].rows, CommitInsertLocation(h, r)
  PROVE  [MP!ManifestNext]_(MP!manifestVars) /\ SqliteInv'
<1> DEFINE next == IF htx[h].rows = {r} THEN "updateFile" ELSE "insertLocations"
           tx == [htx[h] EXCEPT !.rows = @ \ {r}]
<1>1. InTx(h, "insertLocations", next)
  BY DEF CommitInsertLocation
<1>2. /\ hnodes' = hnodes /\ Durable' = Durable /\ IsTx(htx[h]) /\ CommitTxOK(h)
      /\ hpc[h] = "insertLocations" /\ hpc'[h] = next
  BY <1>1, InTxFacts DEF TxOK, CommitPC
<1>3. CommitWrites(h) /\ htx[h].f # NoFile
  BY <1>2 DEF CommitTxOK, CommitReads
<1>4. tx = [f |-> htx[h].f, s |-> htx[h].s, rm |-> htx[h].rm, rows |-> htx[h].rows \ {r}]
  BY <1>2 DEF IsTx
<1>5. IsTx(tx) /\ htx' = [htx EXCEPT ![h] = tx]
  <2>1. IsTx(tx)
    BY <1>4 DEF IsTx
  <2>2. htx' = [htx EXCEPT ![h] = tx]
    BY DEF CommitInsertLocation
  <2> QED
    BY <2>1, <2>2
<1>6. htx'[h] = tx
  BY <1>5, SetTx DEF SqliteInv
<1>7. /\ htx'[h].f = htx[h].f /\ htx'[h].s = htx[h].s /\ htx'[h].rm = htx[h].rm
      /\ htx'[h].rows = htx[h].rows \ {r}
  BY <1>4, <1>6
<1>8. next \in {"insertLocations", "updateFile"} /\ (next = "updateFile" <=> htx'[h].rows = {})
  BY <1>7
<1> HIDE DEF tx, next
<1>9. /\ <<r[1], RowNode(h, r)>> \notin chunkLocations
      /\ chunkLocations' = chunkLocations \cup {<<r[1], RowNode(h, r)>>}
      /\ UNCHANGED <<fileStatus, sessionStatus, sessionFile, chunkFile, nodeStatus>>
  BY DEF CommitInsertLocation, AddChunkLocation, fileTables
<1>10. Written(h)' = Written(h) \cup {r} /\ \A q : RowNode(h, q)' = RowNode(h, q)
  <2>1. htx[h].rows \subseteq LocationRows(htx[h].rm)
    BY <1>3 DEF CommitWrites
  <2> QED
    BY <1>7, <2>1 DEF Written, RowNode
<1>11. /\ \A q \in Written(h) : <<q[1], RowNode(h, q)>> \in chunkLocations
       /\ Durable.locations \subseteq chunkLocations
  BY <1>3 DEF CommitWrites
<1>12. chunkLocations' = Durable'.locations \cup {<<q[1], RowNode(h, q)'>> : q \in Written(h)'}
  <2>1. chunkLocations = Durable.locations \cup {<<q[1], RowNode(h, q)>> : q \in Written(h)}
    BY <1>3 DEF CommitWrites
  <2> QED
    BY <1>2, <1>9, <1>10, <2>1
<1>13. \A q \in Written(h)' : <<q[1], RowNode(h, q)'>> \notin Durable'.locations
  <2>1. \A q \in Written(h) : <<q[1], RowNode(h, q)>> \notin Durable.locations
    BY <1>3 DEF CommitWrites
  <2> QED
    BY <1>2, <1>9, <1>10, <1>11, <2>1
<1>14. \A p, q \in Written(h)' : p[1] = q[1] /\ RowNode(h, p)' = RowNode(h, q)' => p = q
  <2>1. \A p, q \in Written(h) : p[1] = q[1] /\ RowNode(h, p) = RowNode(h, q) => p = q
    BY <1>3 DEF CommitWrites
  <2>2. \A q \in Written(h) : ~(q[1] = r[1] /\ RowNode(h, q) = RowNode(h, r))
    BY <1>9, <1>11
  <2> QED
    BY <1>10, <2>1, <2>2
<1>15. MP!CommitValid(htx[h].s, htx[h].rm)'
  <2>1. \A a, m : MP!CommitValid(a, m)' <=> MP!CommitValid(a, m)
    BY <1>2 DEF MP!CommitValid, MP!GetUploadSession, MP!GetFile, MP!GetChunksByFileID
  <2> QED
    BY <1>3, <1>7, <2>1 DEF CommitWrites
<1>16. CommitWrites(h)'
  <2>1. /\ htx'[h].f = Durable'.owners[htx'[h].s] /\ htx'[h].rows \subseteq LocationRows(htx'[h].rm)
        /\ fileStatus' = Durable'.files /\ sessionStatus' = Durable'.sessions
    BY <1>2, <1>3, <1>7, <1>9 DEF CommitWrites
  <2> QED
    BY <1>2, <1>8, <1>12, <1>13, <1>14, <1>15, <2>1 DEF CommitWrites
<1>17. CommitTxOK(h)'
  BY <1>2, <1>3, <1>7, <1>9, <1>16 DEF CommitTxOK
<1>18. TxOK(h)'
  BY <1>2, <1>8, <1>17 DEF TxOK, PreparePC
<1> QED
  BY <1>1, <1>5, <1>8, <1>18, InTxFacts, StatementStep DEF CommitPC

\* Every step keeps the invariant and is a step of Manifest, or none.
LEMMA SqliteStep ==
  SqliteInv /\ [SqliteNext]_sqliteVars => [MP!ManifestNext]_(MP!manifestVars) /\ SqliteInv'
<1> SUFFICES ASSUME SqliteInv, [SqliteNext]_sqliteVars
             PROVE  [MP!ManifestNext]_(MP!manifestVars) /\ SqliteInv'
  OBVIOUS
<1>1. ASSUME NEW h \in Handler, NewRequest(h)
      PROVE  [MP!ManifestNext]_(MP!manifestVars) /\ SqliteInv'
  <2>1. CASE Single(PrepareUploadRead(h))
    BY <2>1, ReadStep DEF Single
  <2>2. ASSUME NEW f \in FileID, Single(DeleteFileRead(h, f)) \/ Single(GetFileRead(h, f))
        PROVE  [MP!ManifestNext]_(MP!manifestVars) /\ SqliteInv'
    BY <2>2, ReadStep DEF Single
  <2> QED
    BY <1>1, <2>1, <2>2, CommitBeginStep DEF NewRequest
<1>2. ASSUME NEW h \in Handler, NextStatement(h)
      PROVE  [MP!ManifestNext]_(MP!manifestVars) /\ SqliteInv'
  <2>1. CASE Single(DeleteFileWrite(h))
    BY <2>1, WriteStep DEF Single
  <2>2. CASE Single(GetFileChunks(h))
    BY <2>2, ReadStep DEF Single
  <2>3. ASSUME NEW c \in ChunkID, Single(GetFileLocations(h, c))
        PROVE  [MP!ManifestNext]_(MP!manifestVars) /\ SqliteInv'
    BY <2>3, ReadStep DEF Single
  <2> QED
    BY <1>2, <2>1, <2>2, <2>3, PrepareBeginStep, BrokenStep, BrokenLocationsStep DEF NextStatement
<1>3. ASSUME NEW h \in Handler, TxStep(h)
      PROVE  [MP!ManifestNext]_(MP!manifestVars) /\ SqliteInv'
  BY <1>3, PrepareStatementStep, PrepareCommitStep, CommitCheckStep, CommitInsertStep,
     CommitUpdateStep, CommitUploadStep, RollbackStep DEF TxStep, TxRefused
<1>4. ASSUME NEW h \in Handler, Finish(h) \/ TxFault(h) \/ HandlerFault(h)
      PROVE  [MP!ManifestNext]_(MP!manifestVars) /\ SqliteInv'
  BY <1>4, FinishStep, RollbackStep DEF TxFault
<1>5. ASSUME NEW n \in NodeID, Single(NodeHeartbeat(n)) \/ Single(NodeTimeout(n))
      PROVE  [MP!ManifestNext]_(MP!manifestVars) /\ SqliteInv'
  BY <1>5, WriteStep DEF Single
<1>6. ASSUME NEW c \in ChunkID, NEW n \in NodeID, Single(RepairAdds(c, n))
      PROVE  [MP!ManifestNext]_(MP!manifestVars) /\ SqliteInv'
  BY <1>6, WriteStep DEF Single
<1>7. CASE UNCHANGED sqliteVars
  <2>1. UNCHANGED <<storeVars, hpc, hfile, hnodes, htodo, hplan, clientVars, conn, saved, htx,
                    ackedCommits, broken>>
    BY <1>7 DEF sqliteVars, manifestVars, handlerVars, txVars
  <2>2. TxTypeOK' /\ LocalInv'
    BY <2>1 DEF SqliteInv, TxTypeOK, LocalInv, HandlerLocal, IsTx
  <2>3. UNCHANGED durableTables
    BY <2>1, DurableKept DEF SqliteInv
  <2>4. [MP!ManifestNext]_(MP!manifestVars)
    <3>1. UNCHANGED <<HPC, HFile, hnodes, HTodo, HPlan, clientVars>>
      BY <2>1 DEF HPC, HFile, HTodo, HPlan, Unbroken, ManifestPC
    <3> QED
      BY <2>3, <3>1, AsStutter
  <2>5. \A h \in Handler : conn' = h => TxOK(h)'
    BY <2>1, <2>3, TxStable DEF SqliteInv
  <2>6. \A g \in Handler : hpc'[g] = "answer" => hpc[g] = "answer" /\ htx'[g] = htx[g]
    BY <2>1
  <2> QED
    BY <2>1, <2>2, <2>4, <2>5, <2>6, Assemble
<1> QED
  BY <1>1, <1>2, <1>3, <1>4, <1>5, <1>6, <1>7 DEF SqliteNext

\* The empty database is Manifest's.
LEMMA SqliteInitRefines ==
  SqliteInit => MP!ManifestInit
<1> SUFFICES ASSUME SqliteInit
             PROVE  MP!ManifestInit
  OBVIOUS
<1>1. conn = Free /\ broken = {} /\ ManifestInit
  BY DEF SqliteInit
<1>2. HPC = [h \in Handler |-> "idle"]
  BY <1>1 DEF HPC, ManifestPC, HandlerPC, ManifestInit
<1>3. /\ HFile = [h \in Handler |-> NoFile] /\ HTodo = [h \in Handler |-> {}]
      /\ HPlan = [h \in Handler |-> {}]
  BY <1>1 DEF HFile, HTodo, HPlan, Unbroken, ManifestInit
<1> QED
  BY <1>1, <1>2, <1>3, FreeDurable
     DEF ManifestInit, StoreInit, NodeInit, MP!ManifestInit, MP!StoreInit, MP!NodeInit,
         HPC, HFile, HTodo, HPlan

\* The inductive invariant holds at the start.
LEMMA SqliteInitInv ==
  SqliteInit => SqliteInv
<1> SUFFICES ASSUME SqliteInit
             PROVE  SqliteInv
  OBVIOUS
<1>1. MP!ManifestInv
  BY SqliteInitRefines, MP!InitInv, SameSets, NodeAssumption, FileTablesAssumption, ManifestAssumption
<1>2. TxTypeOK /\ LocalInv
  <2>1. \A h \in Handler : htx[h] = NoTx
    BY DEF SqliteInit
  <2> QED
    BY <2>1, NoTxIsTx, SqliteTxAssumption
       DEF SqliteInit, ManifestInit, TxTypeOK, LocalInv, HandlerLocal, HandlerPC, PreparePC, CommitPC
<1>3. AnswersDurable
  BY DEF SqliteInit, ManifestInit, AnswersDurable
<1>4. \A h \in Handler : conn = h => TxOK(h)
  BY SqliteTxAssumption DEF SqliteInit
<1> QED
  BY <1>1, <1>2, <1>3, <1>4 DEF SqliteInv

-----------------------------------------------------------------------------
(* The two instances of Manifest are one specification *)

\* The steps of MP are the steps of M: only the counting of sets is written
\* down twice.
LEMMA SameNext ==
  MP!ManifestNext => M!ManifestNext
<1>1. ASSUME NEW h \in Handler, MP!PrepareUpload(h)
      PROVE  M!PrepareUpload(h)
  <2>1. CASE MP!PrepareUploadRead(h)
    <3>1. M!PrepareUploadRead(h)
      BY <2>1 DEF MP!PrepareUploadRead, MP!ListHealthyNodes, MP!storeVars, MP!fileTables, MP!clientVars,
                  M!PrepareUploadRead, M!ListHealthyNodes, M!storeVars, M!fileTables, M!clientVars
    <3> QED
      BY <3>1 DEF M!PrepareUpload
  <2>2. ASSUME NEW f \in FileID, NEW s \in SessionID, NEW cs \in SUBSET ChunkID, NEW size \in FileSizes,
               MP!PrepareUploadTx(h, f, s, cs, size)
        PROVE  M!PrepareUpload(h)
    <3>1. M!Cardinality(cs) = M!ChunkCount(size)
      BY <2>2, SameSets DEF MP!PrepareUploadTx, MP!ChunkCount, M!ChunkCount
    <3>2. M!SelectReplicas(cs, hnodes[h]) = MP!SelectReplicas(cs, hnodes[h])
      <4>1. MP!Cardinality(hnodes[h]) = M!Cardinality(hnodes[h])
        BY SameSets
      <4> QED
        BY <4>1 DEF MP!SelectReplicas, MP!Injective, M!SelectReplicas, M!Injective
    <3>3. M!CreateFile(f) /\ M!CreateUploadSession(s, f) /\ M!InsertChunks(cs, f)
      BY <2>2 DEF MP!PrepareUploadTx, MP!CreateFile, MP!CreateUploadSession, MP!InsertChunks,
                  M!CreateFile, M!CreateUploadSession, M!InsertChunks
    <3>4. M!Return(h)
      BY <2>2 DEF MP!PrepareUploadTx, MP!Return, M!Return
    <3>5. M!PrepareUploadTx(h, f, s, cs, size)
      BY <2>2, <3>1, <3>2, <3>3, <3>4 DEF MP!PrepareUploadTx, M!PrepareUploadTx
    <3> QED
      BY <3>5 DEF M!PrepareUpload
  <2> QED
    BY <1>1, <2>1, <2>2 DEF MP!PrepareUpload
<1>2. ASSUME NEW h \in Handler, MP!DeleteFile(h)
      PROVE  M!DeleteFile(h)
  <2>1. ASSUME NEW f \in FileID, MP!DeleteFileRead(h, f)
        PROVE  M!DeleteFileRead(h, f)
    BY <2>1 DEF MP!DeleteFileRead, MP!GetFile, MP!storeVars, MP!fileTables, MP!clientVars,
                M!DeleteFileRead, M!GetFile, M!storeVars, M!fileTables, M!clientVars
  <2>2. ASSUME MP!DeleteFileWrite(h)
        PROVE  M!DeleteFileWrite(h)
    BY <2>2 DEF MP!DeleteFileWrite, MP!UpdateFileStatus, MP!Return,
                M!DeleteFileWrite, M!UpdateFileStatus, M!Return
  <2> QED
    BY <1>2, <2>1, <2>2 DEF MP!DeleteFile, M!DeleteFile
<1>3. ASSUME NEW h \in Handler, MP!GetFileRequest(h)
      PROVE  M!GetFileRequest(h)
  <2>1. ASSUME NEW f \in FileID, MP!GetFileRead(h, f)
        PROVE  M!GetFileRead(h, f)
    BY <2>1 DEF MP!GetFileRead, MP!GetFile, MP!storeVars, MP!fileTables, MP!clientVars,
                M!GetFileRead, M!GetFile, M!storeVars, M!fileTables, M!clientVars
  <2>2. ASSUME MP!GetFileChunks(h)
        PROVE  M!GetFileChunks(h)
    BY <2>2 DEF MP!GetFileChunks, MP!GetChunksByFileID, MP!storeVars, MP!fileTables, MP!clientVars,
                M!GetFileChunks, M!GetChunksByFileID, M!storeVars, M!fileTables, M!clientVars
  <2>3. ASSUME NEW c \in ChunkID, MP!GetFileLocations(h, c)
        PROVE  M!GetFileLocations(h, c)
    BY <2>3 DEF MP!GetFileLocations, MP!GetChunkLocations, MP!storeVars, MP!fileTables, MP!clientVars,
                M!GetFileLocations, M!GetChunkLocations, M!storeVars, M!fileTables, M!clientVars
  <2>4. ASSUME MP!GetFileReply(h)
        PROVE  M!GetFileReply(h)
    BY <2>4 DEF MP!GetFileReply, MP!Return, MP!storeVars, MP!fileTables, MP!clientVars,
                M!GetFileReply, M!Return, M!storeVars, M!fileTables, M!clientVars
  <2> QED
    BY <1>3, <2>1, <2>2, <2>3, <2>4 DEF MP!GetFileRequest, M!GetFileRequest
<1>4. ASSUME NEW h \in Handler, MP!HandlerError(h)
      PROVE  M!HandlerError(h)
  BY <1>4 DEF MP!HandlerError, MP!Return, MP!storeVars, MP!fileTables, MP!clientVars,
              M!HandlerError, M!Return, M!storeVars, M!fileTables, M!clientVars
<1>5. ASSUME MP!CommitUploadRequest
      PROVE  M!CommitUploadRequest
  <2>1. ASSUME NEW s \in SessionID, NEW D \in (SUBSET ChunkID) \ {{}}, NEW rm \in [D -> ReplicaLists],
               MP!CommitUpload(s, rm)
        PROVE  M!CommitUpload(s, rm)
    <3>1. M!CommitValid(s, rm)
      <4>1. MP!CommitValid(s, rm)
        BY <2>1 DEF MP!CommitUpload
      <4>2. M!GetChunksByFileID(Durable.owners[s]) = MP!GetChunksByFileID(Durable.owners[s])
        BY DEF M!GetChunksByFileID, MP!GetChunksByFileID
      <4>3. M!Cardinality(DOMAIN rm) = M!Cardinality(M!GetChunksByFileID(Durable.owners[s]))
        BY <4>1, <4>2, SameSets DEF MP!CommitValid
      <4> QED
        BY <4>1, <4>2, <4>3
           DEF MP!CommitValid, MP!GetUploadSession, MP!GetFile, M!CommitValid, M!GetUploadSession, M!GetFile
    <3>2. M!InsertChunkLocations(rm)
      BY <2>1 DEF MP!CommitUpload, MP!InsertChunkLocations, MP!RowsOf, MP!Injective,
                  M!InsertChunkLocations, M!RowsOf, M!Injective
    <3>3. /\ M!UpdateFileStatus(Durable.owners[s], "committed")
          /\ M!UpdateUploadSessionStatus(s, "committed")
      BY <2>1 DEF MP!CommitUpload, MP!UpdateFileStatus, MP!UpdateUploadSessionStatus,
                  M!UpdateFileStatus, M!UpdateUploadSessionStatus
    <3> QED
      BY <2>1, <3>1, <3>2, <3>3 DEF MP!CommitUpload, MP!handlerVars, MP!clientVars,
                                    M!CommitUpload, M!handlerVars, M!clientVars
  <2> QED
    BY <1>5, <2>1 DEF MP!CommitUploadRequest, MP!GetUploadSession, M!CommitUploadRequest, M!GetUploadSession
<1>6. ASSUME NEW n \in NodeID, MP!NodeHeartbeat(n) \/ MP!NodeTimeout(n)
      PROVE  M!NodeHeartbeat(n) \/ M!NodeTimeout(n)
  BY <1>6 DEF MP!NodeHeartbeat, MP!HeartbeatMarks, MP!NodeTimeout, MP!MonitorMarks,
              MP!ListHealthyNodes, MP!UpdateNodeStatus,
              MP!fileTables, MP!handlerVars, MP!clientVars,
              M!NodeHeartbeat, M!HeartbeatMarks, M!NodeTimeout, M!MonitorMarks,
              M!ListHealthyNodes, M!UpdateNodeStatus,
              M!fileTables, M!handlerVars, M!clientVars
<1>7. ASSUME NEW c \in ChunkID, NEW n \in NodeID, MP!RepairAdds(c, n)
      PROVE  M!RepairAdds(c, n)
  BY <1>7 DEF MP!RepairAdds, MP!RepairRecords, MP!GetChunkLocations, MP!AddChunkLocation,
              MP!fileTables,
              MP!handlerVars, MP!clientVars,
              M!RepairAdds, M!RepairRecords, M!GetChunkLocations, M!AddChunkLocation,
              M!fileTables,
              M!handlerVars, M!clientVars
<1> QED
  BY <1>1, <1>2, <1>3, <1>4, <1>5, <1>6, <1>7 DEF MP!ManifestNext, M!ManifestNext

\* Their variables, initial states and references are the same.
LEMMA SameManifest ==
  /\ MP!ManifestInit => M!ManifestInit
  /\ UNCHANGED MP!manifestVars => UNCHANGED M!manifestVars
  /\ MP!ForeignKeys => M!ForeignKeys
<1>1. MP!ManifestInit => M!ManifestInit
  BY DEF MP!ManifestInit, MP!StoreInit, MP!NodeInit, M!ManifestInit, M!StoreInit, M!NodeInit
<1>2. UNCHANGED MP!manifestVars => UNCHANGED M!manifestVars
  BY DEF MP!manifestVars, MP!storeVars, MP!fileTables, MP!handlerVars, MP!clientVars,
         M!manifestVars, M!storeVars, M!fileTables, M!handlerVars, M!clientVars
<1>3. MP!ForeignKeys => M!ForeignKeys
  BY DEF MP!ForeignKeys, M!ForeignKeys
<1> QED
  BY <1>1, <1>2, <1>3

-----------------------------------------------------------------------------
(* Theorems *)

\* The inductive invariant holds: at every statement the tables the holder of
\* the connection sees are the database at BEGIN and the rows written since.
THEOREM SqliteInvariant == SqliteSpec => []SqliteInv
<1>1. SqliteInit => SqliteInv
  BY SqliteInitInv
<1>2. SqliteInv /\ [SqliteNext]_sqliteVars => SqliteInv'
  BY SqliteStep
<1> QED
  BY <1>1, <1>2, PTL DEF SqliteSpec

\* CommitUpload answers with success only what is committed: whatever fails
\* or crashes afterwards, the session and its file are committed in the
\* database that is left (the file may have been deleted since).
THEOREM CommitsAreDurable == SqliteSpec => []AckedCommitIsDurable
<1>1. SqliteInv => AckedCommitIsDurable
  <2> SUFFICES ASSUME SqliteInv, NEW s \in ackedCommits
               PROVE  /\ Durable.sessions[s] = "committed"
                      /\ Durable.files[Durable.owners[s]] \in {"committed", "deleted"}
    BY DEF AckedCommitIsDurable
  <2>1. s \in SessionID /\ Durable.sessions[s] = "committed"
    BY DEF SqliteInv, TxTypeOK, AnswersDurable
  <2> QED
    BY <2>1 DEF SqliteInv, MP!ManifestInv, MP!SessionFileAgreement
<1> QED
  BY <1>1, SqliteInvariant, PTL

\* The references of the schema hold in the database at every moment a crash
\* can come, with or without the foreign_keys pragma.
THEOREM ReferencesHold == SqliteSpec => []DurableForeignKeys
<1>1. SqliteInv => DurableForeignKeys
  BY SameManifest DEF SqliteInv, MP!ManifestInv, DurableForeignKeys
<1> QED
  BY <1>1, SqliteInvariant, PTL

\* WithTx makes transactions of its functions: the store, statement by
\* statement, with rollbacks, failures and crashes between any two statements
\* and broken-off lists of rows, implements Manifest.
THEOREM TransactionsAtomic == SqliteSpec => ImplementsManifest
<1>1. SqliteInit => M!ManifestInit
  BY SqliteInitRefines, SameManifest
<1>2. SqliteInv /\ [SqliteNext]_sqliteVars => [M!ManifestNext]_(M!manifestVars)
  BY SqliteStep, SameNext, SameManifest
<1> QED
  BY <1>1, <1>2, SqliteInvariant, PTL DEF SqliteSpec, ImplementsManifest, M!ManifestSpec

-----------------------------------------------------------------------------
(* What clients are promised, down to the statements *)

\* The results of ManifestProofs about the database a crash would leave.
LEMMA DurableSteps ==
  /\ SqliteInit => MP!FS!ServiceInit
  /\ SqliteInv /\ SqliteInv' /\ [SqliteNext]_sqliteVars
       => /\ [MP!FS!ServiceNext]_(MP!FS!serviceVars)
          /\ [MP!ForwardOnly]_(MP!manifestVars)
<1>1. SqliteInit => MP!FS!ServiceInit
  BY SqliteInitRefines, MP!InitRefines, SameSets, NodeAssumption, FileTablesAssumption,
     ManifestAssumption
<1>2. SqliteInv /\ [SqliteNext]_sqliteVars
        => MP!ManifestInv /\ [MP!ManifestNext]_(MP!manifestVars)
  BY SqliteStep DEF SqliteInv
<1>3. SqliteInv' => MP!ManifestInv'
  BY DEF SqliteInv
<1>4. MP!ManifestInv /\ MP!ManifestInv' /\ [MP!ManifestNext]_(MP!manifestVars)
        => [MP!FS!ServiceNext]_(MP!FS!serviceVars)
  BY MP!NextRefines, SameSets, NodeAssumption, FileTablesAssumption, ManifestAssumption
<1>5. MP!ManifestInv /\ [MP!ManifestNext]_(MP!manifestVars) => [MP!ForwardOnly]_(MP!manifestVars)
  BY MP!StepForward, SameSets, NodeAssumption, FileTablesAssumption, ManifestAssumption
<1> QED
  BY <1>1, <1>2, <1>3, <1>4, <1>5

\* The promises of FileService hold of the database at every moment a crash can
\* come: each statement, failure, rollback and broken-off list of rows is a step
\* of the service on the durable tables or invisible to its clients.
THEOREM DurableRefinement == SqliteSpec => MP!ImplementsFileService
<1>1. /\ SqliteInit => MP!FS!ServiceInit
      /\ SqliteInv /\ SqliteInv' /\ [SqliteNext]_sqliteVars
           => [MP!FS!ServiceNext]_(MP!FS!serviceVars)
  BY DurableSteps
<1> QED
  BY <1>1, SqliteInvariant, PTL DEF SqliteSpec, MP!ImplementsFileService, MP!FS!ServiceSpec

\* No rollback, failed statement or crash takes back what was committed: in the
\* database that is left a file moves only forward and keeps its chunks and
\* their locations.
THEOREM DurableLifecycle == SqliteSpec => MP!LifecycleForward
<1>1. SqliteInv /\ SqliteInv' /\ [SqliteNext]_sqliteVars => [MP!ForwardOnly]_(MP!manifestVars)
  BY DurableSteps
<1> QED
  BY <1>1, SqliteInvariant, PTL DEF SqliteSpec, MP!LifecycleForward

-----------------------------------------------------------------------------
(* The holder of the connection can go on *)

\* The condition under which the statement the transaction has come to runs or
\* is refused, the guard of a disjunct of TxStep.
StatementReady(h) ==
  \/ hpc[h] = "createFile" /\ fileStatus[htx[h].f] = "none"
  \/ hpc[h] = "createSession" /\ sessionStatus[htx[h].s] = "none"
  \/ hpc[h] = "insertChunks" /\ \E c \in ChunkID : c \in htx[h].rows /\ chunkFile[c] = NoFile
  \/ hpc[h] = "check" /\ (AlreadyCommitted(htx[h].s) \/ CommitValid(htx[h].s, htx[h].rm))
  \/ hpc[h] = "insertLocations" /\ \E r \in htx[h].rows :
       NextRow(h, r) /\ <<r[1], RowNode(h, r)>> \notin chunkLocations
  \/ CommitRefused(h)
  \/ hpc[h] \in {"commitPrepare", "updateFile", "updateSession", "commitUpload"}

\* Whoever holds the only connection has a statement to run.
HolderReady == conn # Free => StatementReady(conn)

\* A list of INSERTs that is not finished has a next row.
LEMMA SomeNextRow ==
  ASSUME NEW h \in Handler, htx[h].rows # {}, htx[h].rows \subseteq LocationRows(htx[h].rm),
         htx[h].rm \in [DOMAIN htx[h].rm -> ReplicaLists]
  PROVE  \E r \in htx[h].rows : NextRow(h, r)
<1> DEFINE rows == htx[h].rows
           rm == htx[h].rm
<1>1. PICK p \in rows : TRUE
  OBVIOUS
<1>2. \A r \in rows : r[2] \in Nat
  <2> TAKE r \in rows
  <2>1. PICK c \in DOMAIN rm : r \in {c} \X DOMAIN rm[c]
    BY DEF LocationRows
  <2>2. rm[c] \in Seq(NodeID \cup {EmptyID})
    BY ManifestAssumption
  <2>3. DOMAIN rm[c] = 1..Len(rm[c]) /\ Len(rm[c]) \in Nat
    BY <2>2
  <2>4. r[2] \in DOMAIN rm[c]
    BY <2>1
  <2> QED
    BY <2>3, <2>4
<1> DEFINE places == {q[2] : q \in {r \in rows : r[1] = p[1]}}
<1>3. places \subseteq Nat /\ places # {}
  BY <1>1, <1>2
<1>4. PICK x \in places : \A y \in places : ~ (<<y, x>> \in OpToRel(<, Nat))
  BY <1>3, WFMin, NatLessThanWellFounded
<1> HIDE DEF places
<1>5. \A y \in places : x <= y
  <2>1. \A y \in places : ~(y < x)
    BY <1>3, <1>4 DEF OpToRel
  <2> QED
    BY <1>3, <2>1
<1>6. PICK r \in rows : r[1] = p[1] /\ r[2] = x
  BY <1>4 DEF places
<1>7. \A q \in rows : q[1] = r[1] => r[2] <= q[2]
  BY <1>5, <1>6 DEF places
<1> QED
  BY <1>7 DEF NextRow

\* The inductive invariant has the guards.
LEMMA InvReady ==
  SqliteInv => HolderReady
<1> SUFFICES ASSUME SqliteInv, NEW h \in Handler, conn = h
             PROVE  StatementReady(h)
  BY DEF SqliteInv, TxTypeOK, HolderReady
<1>1. TxOK(h) /\ hpc[h] \in PreparePC \cup CommitPC
  BY DEF SqliteInv, LocalInv, HandlerLocal
<1>2. CASE hpc[h] \in PreparePC
  <2>1. PrepareTxOK(h)
    BY <1>1, <1>2 DEF TxOK
  <2>2. CASE hpc[h] \in {"createFile", "createSession"}
    BY <2>1, <2>2 DEF PrepareTxOK, StatementReady
  <2>3. CASE hpc[h] = "insertChunks"
    <3>1. PICK c \in htx[h].rows : TRUE
      BY <2>1, <2>3 DEF PrepareTxOK
    <3>2. c \in ChunkID /\ chunkFile[c] = NoFile
      BY <2>1 DEF PrepareTxOK
    <3> QED
      BY <2>3, <3>2 DEF StatementReady
  <2> QED
    BY <1>2, <2>2, <2>3 DEF PreparePC, StatementReady
<1>3. CASE hpc[h] \in CommitPC
  <2>1. CommitTxOK(h)
    BY <1>1, <1>3 DEF TxOK
  <2>2. CASE hpc[h] = "check"
    BY <2>2 DEF StatementReady, CommitRefused
  <2>3. CASE hpc[h] = "insertLocations"
    <3>1. /\ htx[h].rows # {} /\ htx[h].rows \subseteq LocationRows(htx[h].rm)
          /\ htx[h].rm \in [DOMAIN htx[h].rm -> ReplicaLists]
      BY <2>1, <2>3 DEF CommitTxOK, CommitWrites, CommitReads
    <3>2. PICK r \in htx[h].rows : NextRow(h, r)
      BY <3>1, SomeNextRow
    <3> QED
      BY <2>3, <3>2 DEF StatementReady, CommitRefused
  <2> QED
    BY <1>3, <2>2, <2>3 DEF CommitPC, StatementReady
<1> QED
  BY <1>1, <1>2, <1>3

\* Whatever statement the holder of the only connection has come to, the rows
\* it needs are as the statement wants them, or it is refused and rolled back;
\* none asks for a second connection.  No INSERT of PrepareUpload meets a row
\* that exists, and no list of INSERTs is entered, or gone on with, empty.
\* It is what HolderNeverWaits says without ENABLED.
THEOREM HolderGoesOn == SqliteSpec => []HolderReady
BY SqliteInvariant, InvReady, PTL

=============================================================================
