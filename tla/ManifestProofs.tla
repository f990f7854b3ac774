--------------------------- MODULE ManifestProofs ---------------------------
(***************************************************************************)
(* Proofs about module Manifest, for every set of files, sessions, chunks, *)
(* nodes and handlers, every replication factor and every replica map a    *)
(* client may send.  ManifestInv is the inductive invariant: it has one    *)
(* part about the database and the clients (StoreInv) and one about what   *)
(* each handler carries between its statements (HandlerInv).               *)
(*                                                                         *)
(* The last part shows that Manifest implements FileService.  A plan that  *)
(* is ready to be sent is whole (part of ManifestInv), so the refinement   *)
(* mapping depends only on the status of the files and on what the         *)
(* handlers do: every action of Manifest is a step of FileService or       *)
(* leaves its three variables alone.                                       *)
(***************************************************************************)
EXTENDS ManifestRefinement, FiniteSetTheorems, TLAPS

\* The part of ManifestInv about the tables and the clients.
StoreInv ==
  /\ StoreTypeOK
  /\ DOMAIN offered = SessionID
  /\ ackedDeletes \subseteq FileID
  /\ ForeignKeys
  /\ OneSessionPerFile
  /\ CommittedFullyReplicated
  /\ UncommittedHasNoLocations
  /\ SessionFileAgreement
  /\ AckedDeleteIsFinal
  /\ OfferedPlacementCommits

\* The part of TypeOK about the handlers.
HandlerTypeOK ==
  /\ hpc \in [Handler -> HandlerPC]
  /\ hfile \in [Handler -> FileID \cup {NoFile}]
  /\ hnodes \in [Handler -> SUBSET NodeID]
  /\ htodo \in [Handler -> SUBSET ChunkID]
  /\ hplan \in [Handler -> SUBSET (ChunkID \X NodeID)]

\* What every step on the tables keeps: nothing recorded is forgotten, a file
\* that was ever committed stays committed or deleted, and the chunks of an
\* existing file are fixed when it is created.
StoreForward ==
  /\ chunkLocations \subseteq chunkLocations'
  /\ \A f \in FileID :
       /\ fileStatus[f] # "none" => fileStatus'[f] # "none"
       /\ fileStatus[f] \in {"committed", "deleted"} =>
            fileStatus'[f] \in {"committed", "deleted"}
       /\ fileStatus[f] # "none" =>
            GetChunksByFileID(f)' = GetChunksByFileID(f)

-----------------------------------------------------------------------------
(* Finite sets of nodes *)

\* The nodes recorded for a chunk are finitely many, so they can be counted.
LEMMA LocationsFinite ==
  ASSUME NEW c, NEW S
  PROVE  /\ IsFiniteSet({n \in NodeID : <<c, n>> \in S})
         /\ Cardinality({n \in NodeID : <<c, n>> \in S}) \in Nat
<1>1. IsFiniteSet(NodeID)
  BY NodeAssumption
<1>2. {n \in NodeID : <<c, n>> \in S} \subseteq NodeID
  OBVIOUS
<1>3. IsFiniteSet({n \in NodeID : <<c, n>> \in S})
  BY <1>1, <1>2, FS_Subset
<1> QED
  BY <1>3, FS_CardinalityType

\* More rows never mean fewer nodes for a chunk.
LEMMA LocationsGrow ==
  ASSUME NEW c, NEW S, NEW T, S \subseteq T
  PROVE  Cardinality({n \in NodeID : <<c, n>> \in S})
           <= Cardinality({n \in NodeID : <<c, n>> \in T})
<1> DEFINE A == {n \in NodeID : <<c, n>> \in S}
           B == {n \in NodeID : <<c, n>> \in T}
<1>1. A \subseteq B
  OBVIOUS
<1>2. IsFiniteSet(B)
  BY LocationsFinite
<1> QED
  BY <1>1, <1>2, FS_Subset

\* A list without repetitions names as many nodes as it has entries.
LEMMA InjectiveListCard ==
  ASSUME NEW list \in Seq(NodeID), Injective(list),
         NEW T, T \subseteq NodeID, \A i \in DOMAIN list : list[i] \in T
  PROVE  Cardinality(T) >= Len(list)
<1> DEFINE D == 1 .. Len(list)
<1>1. D = DOMAIN list /\ Len(list) \in Nat
  OBVIOUS
<1>2. IsFiniteSet(D) /\ Cardinality(D) = Len(list)
  <2>1. 1 \in Int /\ Len(list) \in Int
    BY <1>1
  <2> QED
    BY <1>1, <2>1, FS_Interval
<1>3. IsFiniteSet(T) /\ Cardinality(T) \in Nat
  BY NodeAssumption, FS_Subset, FS_CardinalityType
<1>4. list \in [D -> T]
  BY <1>1
<1>5. list \in Injection(D, T)
  BY <1>1, <1>4 DEF Injective, Injection, IsInjective
<1> QED
  BY <1>2, <1>3, <1>5, FS_Injection

-----------------------------------------------------------------------------
(* Composing the two parts of the invariant *)

\* ManifestInv is exactly its two parts.
LEMMA InvParts ==
  ManifestInv <=> StoreInv /\ HandlerTypeOK /\ HandlerInv
BY DEF ManifestInv, StoreInv, HandlerTypeOK, TypeOK

\* The same of the state after a step.
LEMMA InvPartsNext ==
  StoreInv' /\ HandlerTypeOK' /\ HandlerInv' => ManifestInv'
BY DEF ManifestInv, StoreInv, HandlerTypeOK, TypeOK

\* A step that writes neither table nor client state keeps StoreInv.
LEMMA StoreUnchanged ==
  ASSUME StoreInv, UNCHANGED <<storeVars, clientVars>>
  PROVE  StoreInv' /\ StoreForward
<1>1. /\ fileStatus' = fileStatus /\ chunkFile' = chunkFile
      /\ chunkLocations' = chunkLocations /\ nodeStatus' = nodeStatus
      /\ sessionStatus' = sessionStatus /\ sessionFile' = sessionFile
      /\ offered' = offered /\ ackedDeletes' = ackedDeletes
  BY DEF storeVars, fileTables, clientVars
<1>2. StoreForward
  BY <1>1 DEF StoreForward, GetChunksByFileID
<1>3. (StoreTypeOK /\ ForeignKeys /\ OneSessionPerFile)'
  BY <1>1 DEF StoreInv, StoreTypeOK, FileTablesTypeOK, NodeTypeOK, ForeignKeys, OneSessionPerFile
<1>4. (CommittedFullyReplicated /\ UncommittedHasNoLocations)'
  BY <1>1 DEF StoreInv, CommittedFullyReplicated, UncommittedHasNoLocations, ListFiles,
              GetFile, GetChunksByFileID, GetChunkLocations
<1>5. (SessionFileAgreement /\ AckedDeleteIsFinal)'
  BY <1>1 DEF StoreInv, SessionFileAgreement, AckedDeleteIsFinal
<1>6. OfferedPlacementCommits'
  <2>1. \A s \in SessionID : CommitValid(s, offered[s])' <=> CommitValid(s, offered[s])
    BY <1>1 DEF CommitValid, GetUploadSession, GetFile, GetChunksByFileID
  <2> QED
    BY <1>1, <2>1 DEF StoreInv, OfferedPlacementCommits
<1> QED
  BY <1>1, <1>2, <1>3, <1>4, <1>5, <1>6 DEF StoreInv

\* A file that was ever committed keeps its locations.
LEMMA EverCommittedStable ==
  ASSUME StoreForward, NEW f \in FileID, EverCommitted(f)
  PROVE  EverCommitted(f)'
<1>1. fileStatus'[f] \in {"committed", "deleted"}
  BY DEF StoreForward, EverCommitted
<1>2. GetChunksByFileID(f)' = GetChunksByFileID(f)
  BY DEF StoreForward, EverCommitted
<1>3. ASSUME NEW c \in GetChunksByFileID(f)
      PROVE  Cardinality(GetChunkLocations(c)') >= ReplicationFactor
  <2>1. Cardinality(GetChunkLocations(c)) <= Cardinality(GetChunkLocations(c)')
    <3>1. chunkLocations \subseteq chunkLocations'
      BY DEF StoreForward
    <3> QED
      BY <3>1, LocationsGrow DEF GetChunkLocations
  <2>2. /\ Cardinality(GetChunkLocations(c)) \in Nat
        /\ Cardinality(GetChunkLocations(c)') \in Nat
    BY LocationsFinite DEF GetChunkLocations
  <2>3. Cardinality(GetChunkLocations(c)) >= ReplicationFactor
    BY <1>3 DEF EverCommitted
  <2> QED
    BY <2>1, <2>2, <2>3, ManifestAssumption
<1> QED
  BY <1>1, <1>2, <1>3 DEF EverCommitted

\* Steps of others never invalidate what a handler carries.
LEMMA HandlerStable ==
  ASSUME StoreForward, NEW h \in Handler, HandlerOK(h), HandlerTypeOK, StoreTypeOK,
         hpc'[h] = hpc[h], hfile'[h] = hfile[h], htodo'[h] = htodo[h], hplan'[h] = hplan[h]
  PROVE  HandlerOK(h)'
<1>1. hpc[h] = "delete" => hfile[h] \in FileID /\ fileStatus'[hfile[h]] # "none"
  BY DEF HandlerOK, StoreForward
<1>2. hpc[h] \in {"chunks", "locations", "reply"} =>
        hfile[h] \in FileID /\ EverCommitted(hfile[h])'
  BY EverCommittedStable DEF HandlerOK
<1>3. hpc[h] \in {"chunks", "locations", "reply"} =>
        GetChunksByFileID(hfile[h])' = GetChunksByFileID(hfile[h])
  BY DEF HandlerOK, EverCommitted, StoreForward
<1>4. ASSUME hpc[h] \in {"locations", "reply"}, NEW l \in hplan[h]
      PROVE  chunkFile'[l[1]] = hfile[h]
  <2>1. l[1] \in ChunkID
    BY <1>4 DEF HandlerTypeOK
  <2>2. l[1] \in GetChunksByFileID(hfile[h])
    BY <1>4, <2>1 DEF HandlerOK, GetChunksByFileID
  <2> QED
    BY <1>3, <1>4, <2>2 DEF GetChunksByFileID
<1>5. \A c : PlanNodes(h, c)' = PlanNodes(h, c)
  BY DEF PlanNodes
<1>a. (hpc[h] = "delete" => hfile[h] \in FileID /\ fileStatus[hfile[h]] # "none")'
  BY <1>1
<1>b. (hpc[h] \in {"chunks", "locations", "reply"} =>
         hfile[h] \in FileID /\ EverCommitted(hfile[h]))'
  BY <1>2
<1>c. (hpc[h] \notin {"locations", "reply"} => htodo[h] = {} /\ hplan[h] = {})'
  BY DEF HandlerOK
<1>d. (hpc[h] = "locations" => htodo[h] \subseteq GetChunksByFileID(hfile[h]))'
  BY <1>3 DEF HandlerOK
<1>e. (hpc[h] = "reply" => htodo[h] = {})'
  BY DEF HandlerOK
<1>f. (hpc[h] \in {"locations", "reply"} =>
       /\ \A l \in hplan[h] : chunkFile[l[1]] = hfile[h]
       /\ \A c \in GetChunksByFileID(hfile[h]) \ htodo[h] :
            Cardinality(PlanNodes(h, c)) >= ReplicationFactor)'
  BY <1>3, <1>4, <1>5 DEF HandlerOK
<1> QED
  BY <1>a, <1>b, <1>c, <1>d, <1>e, <1>f DEF HandlerOK

\* A handler that returns, whatever its last statement wrote.
LEMMA ReturnOK ==
  ASSUME StoreForward, StoreTypeOK, HandlerTypeOK, HandlerInv, NEW h \in Handler, Return(h)
  PROVE  HandlerTypeOK' /\ HandlerInv'
<1>1. HandlerTypeOK'
  BY DEF HandlerTypeOK, Return, HandlerPC
<1>2. ASSUME NEW g \in Handler, g # h
      PROVE  HandlerOK(g)'
  <2>1. HandlerOK(g)
    BY DEF HandlerInv
  <2>2. /\ hpc'[g] = hpc[g] /\ hfile'[g] = hfile[g]
        /\ htodo'[g] = htodo[g] /\ hplan'[g] = hplan[g]
    BY <1>2 DEF Return, HandlerTypeOK
  <2> QED
    BY <2>1, <2>2, HandlerStable
<1>3. HandlerOK(h)'
  <2>1. hpc'[h] = "idle" /\ htodo'[h] = {} /\ hplan'[h] = {}
    BY DEF Return, HandlerTypeOK
  <2> QED
    BY <2>1 DEF HandlerOK
<1> QED
  BY <1>1, <1>2, <1>3 DEF HandlerInv

\* A step of no handler.
LEMMA HandlersUnchanged ==
  ASSUME StoreForward, StoreTypeOK, HandlerTypeOK, HandlerInv, UNCHANGED handlerVars
  PROVE  HandlerTypeOK' /\ HandlerInv'
<1>1. hpc' = hpc /\ hfile' = hfile /\ hnodes' = hnodes /\ htodo' = htodo /\ hplan' = hplan
  BY DEF handlerVars
<1>2. HandlerTypeOK'
  BY <1>1 DEF HandlerTypeOK
<1>3. ASSUME NEW g \in Handler
      PROVE  HandlerOK(g)'
  <2>1. HandlerOK(g)
    BY DEF HandlerInv
  <2> QED
    BY <1>1, <2>1, HandlerStable
<1> QED
  BY <1>2, <1>3 DEF HandlerInv

-----------------------------------------------------------------------------
(* The initial states *)

\* An empty database with idle handlers satisfies the invariant.
LEMMA InitInv == ManifestInit => ManifestInv
<1> SUFFICES ASSUME ManifestInit
             PROVE  ManifestInv
  OBVIOUS
<1> USE DEF ManifestInit, StoreInit, NodeInit
<1>1. StoreTypeOK
  BY DEF StoreTypeOK, FileTablesTypeOK, NodeTypeOK, FileStatus, NodeStatus, SessionStatus
<1>2. HandlerTypeOK
  BY DEF HandlerTypeOK, HandlerPC
<1>3. HandlerInv
  BY DEF HandlerInv, HandlerOK
<1>4. ForeignKeys /\ OneSessionPerFile
  BY DEF ForeignKeys, OneSessionPerFile
<1>5. CommittedFullyReplicated /\ UncommittedHasNoLocations
  BY DEF CommittedFullyReplicated, UncommittedHasNoLocations, ListFiles, GetFile
<1>6. SessionFileAgreement /\ AckedDeleteIsFinal /\ OfferedPlacementCommits
  BY DEF SessionFileAgreement, AckedDeleteIsFinal, OfferedPlacementCommits
<1>7. StoreInv
  BY <1>1, <1>4, <1>5, <1>6 DEF StoreInv
<1> QED
  BY <1>2, <1>3, <1>7, InvParts

-----------------------------------------------------------------------------
(* Steps that write no table *)

\* PrepareUpload reads the healthy nodes.
LEMMA PrepareUploadReadInv ==
  ASSUME ManifestInv, NEW h \in Handler, PrepareUploadRead(h)
  PROVE  ManifestInv' /\ StoreForward
<1> USE DEF PrepareUploadRead
<1>1. StoreInv /\ HandlerTypeOK /\ HandlerInv /\ StoreTypeOK
  BY InvParts DEF StoreInv
<1>2. StoreInv' /\ StoreForward
  BY <1>1, StoreUnchanged
<1>3. HandlerTypeOK'
  BY <1>1 DEF HandlerTypeOK, HandlerPC, ListHealthyNodes
<1>4. ASSUME NEW g \in Handler PROVE HandlerOK(g)'
  <2>1. HandlerOK(g)
    BY <1>1 DEF HandlerInv
  <2>2. CASE g # h
    BY <1>1, <1>2, <2>1, <2>2, HandlerStable DEF HandlerTypeOK
  <2>3. CASE g = h
    BY <1>1, <2>1, <2>3 DEF HandlerTypeOK, HandlerOK
  <2> QED
    BY <2>2, <2>3
<1> QED
  BY <1>2, <1>3, <1>4, InvPartsNext DEF HandlerInv

\* DeleteFile reads a file that exists.
LEMMA DeleteFileReadInv ==
  ASSUME ManifestInv, NEW h \in Handler, NEW f \in FileID, DeleteFileRead(h, f)
  PROVE  ManifestInv' /\ StoreForward
<1> USE DEF DeleteFileRead
<1>1. StoreInv /\ HandlerTypeOK /\ HandlerInv /\ StoreTypeOK
  BY InvParts DEF StoreInv
<1>2. StoreInv' /\ StoreForward
  BY <1>1, StoreUnchanged
<1>3. HandlerTypeOK'
  BY <1>1 DEF HandlerTypeOK, HandlerPC
<1>4. ASSUME NEW g \in Handler PROVE HandlerOK(g)'
  <2>1. HandlerOK(g)
    BY <1>1 DEF HandlerInv
  <2>2. CASE g # h
    BY <1>1, <1>2, <2>1, <2>2, HandlerStable DEF HandlerTypeOK
  <2>3. CASE g = h
    <3>1. hpc'[g] = "delete" /\ hfile'[g] = f /\ htodo'[g] = {} /\ hplan'[g] = {}
      BY <1>1, <2>1, <2>3 DEF HandlerTypeOK, HandlerOK
    <3>2. fileStatus'[f] # "none"
      BY <1>2 DEF StoreForward, GetFile
    <3> QED
      BY <3>1, <3>2 DEF HandlerOK
  <2> QED
    BY <2>2, <2>3
<1> QED
  BY <1>2, <1>3, <1>4, InvPartsNext DEF HandlerInv

\* GetFile reads a file that is committed, hence fully replicated.
LEMMA GetFileReadInv ==
  ASSUME ManifestInv, NEW h \in Handler, NEW f \in FileID, GetFileRead(h, f)
  PROVE  ManifestInv' /\ StoreForward
<1> USE DEF GetFileRead
<1>1. StoreInv /\ HandlerTypeOK /\ HandlerInv /\ StoreTypeOK
  BY InvParts DEF StoreInv
<1>2. StoreInv' /\ StoreForward
  BY <1>1, StoreUnchanged
<1>3. HandlerTypeOK'
  BY <1>1 DEF HandlerTypeOK, HandlerPC
<1>4. ASSUME NEW g \in Handler PROVE HandlerOK(g)'
  <2>1. HandlerOK(g)
    BY <1>1 DEF HandlerInv
  <2>2. CASE g # h
    BY <1>1, <1>2, <2>1, <2>2, HandlerStable DEF HandlerTypeOK
  <2>3. CASE g = h
    <3>1. hpc'[g] = "chunks" /\ hfile'[g] = f /\ htodo'[g] = {} /\ hplan'[g] = {}
      BY <1>1, <2>1, <2>3 DEF HandlerTypeOK, HandlerOK
    <3>2. EverCommitted(f)
      BY <1>1 DEF StoreInv, CommittedFullyReplicated, ListFiles, GetFile, EverCommitted
    <3>3. EverCommitted(f)'
      BY <1>2, <3>2, EverCommittedStable
    <3> QED
      BY <3>1, <3>3 DEF HandlerOK
  <2> QED
    BY <2>2, <2>3
<1> QED
  BY <1>2, <1>3, <1>4, InvPartsNext DEF HandlerInv

\* GetFile reads the chunks of its file.
LEMMA GetFileChunksInv ==
  ASSUME ManifestInv, NEW h \in Handler, GetFileChunks(h)
  PROVE  ManifestInv' /\ StoreForward
<1> USE DEF GetFileChunks
<1>1. StoreInv /\ HandlerTypeOK /\ HandlerInv /\ StoreTypeOK
  BY InvParts DEF StoreInv
<1>2. StoreInv' /\ StoreForward
  BY <1>1, StoreUnchanged
<1>3. HandlerTypeOK'
  BY <1>1 DEF HandlerTypeOK, HandlerPC, GetChunksByFileID
<1>4. ASSUME NEW g \in Handler PROVE HandlerOK(g)'
  <2>1. HandlerOK(g)
    BY <1>1 DEF HandlerInv
  <2>2. CASE g # h
    BY <1>1, <1>2, <2>1, <2>2, HandlerStable DEF HandlerTypeOK
  <2>3. CASE g = h
    <3>1. /\ hpc'[g] = "locations" /\ hfile'[g] = hfile[g] /\ hplan'[g] = {}
          /\ htodo'[g] = GetChunksByFileID(hfile[g])
      BY <1>1, <2>1, <2>3 DEF HandlerTypeOK, HandlerOK
    <3>2. hfile[g] \in FileID /\ EverCommitted(hfile[g])
      BY <2>1, <2>3 DEF HandlerOK
    <3>3. PICK f \in FileID : f = hfile[g]
      BY <3>2
    <3>4. EverCommitted(f)' /\ GetChunksByFileID(f)' = GetChunksByFileID(f)
      BY <1>2, <3>2, <3>3, EverCommittedStable DEF StoreForward, EverCommitted
    <3> QED
      BY <3>1, <3>3, <3>4 DEF HandlerOK
  <2> QED
    BY <2>2, <2>3
<1> QED
  BY <1>2, <1>3, <1>4, InvPartsNext DEF HandlerInv

\* GetFile reads the locations of one more chunk, and finds enough of them.
LEMMA GetFileLocationsInv ==
  ASSUME ManifestInv, NEW h \in Handler, NEW c \in ChunkID, GetFileLocations(h, c)
  PROVE  ManifestInv' /\ StoreForward
<1> USE DEF GetFileLocations
<1>1. StoreInv /\ HandlerTypeOK /\ HandlerInv /\ StoreTypeOK
  BY InvParts DEF StoreInv
<1>2. StoreInv' /\ StoreForward
  BY <1>1, StoreUnchanged
<1>3. HandlerTypeOK'
  BY <1>1 DEF HandlerTypeOK, HandlerPC, GetChunkLocations
<1>4. ASSUME NEW g \in Handler PROVE HandlerOK(g)'
  <2>1. HandlerOK(g)
    BY <1>1 DEF HandlerInv
  <2>2. CASE g # h
    BY <1>1, <1>2, <2>1, <2>2, HandlerStable DEF HandlerTypeOK
  <2>3. CASE g = h
    <3>1. /\ hpc'[g] = IF htodo[g] = {c} THEN "reply" ELSE "locations"
          /\ hfile'[g] = hfile[g]
          /\ hplan'[g] = hplan[g] \cup ({c} \X GetChunkLocations(c))
          /\ htodo'[g] = htodo[g] \ {c}
          /\ c \in htodo[g]
          /\ hpc[g] = "locations"
      BY <1>1, <2>3 DEF HandlerTypeOK
    <3>2. /\ hfile[g] \in FileID /\ EverCommitted(hfile[g])
          /\ htodo[g] \subseteq GetChunksByFileID(hfile[g])
          /\ \A l \in hplan[g] : chunkFile[l[1]] = hfile[g]
          /\ \A d \in GetChunksByFileID(hfile[g]) \ htodo[g] :
               Cardinality(PlanNodes(g, d)) >= ReplicationFactor
      BY <2>1, <3>1 DEF HandlerOK
    <3>3. PICK f \in FileID : f = hfile[g]
      BY <3>2
    <3>4. EverCommitted(f)' /\ GetChunksByFileID(f)' = GetChunksByFileID(f)
      BY <1>2, <3>2, <3>3, EverCommittedStable DEF StoreForward, EverCommitted
    <3>5. c \in GetChunksByFileID(f) /\ Cardinality(GetChunkLocations(c)) >= ReplicationFactor
      BY <3>1, <3>2, <3>3 DEF EverCommitted
    <3>6. ASSUME NEW l \in hplan'[g]
          PROVE  chunkFile'[l[1]] = f
      <4>1. CASE l \in hplan[g]
        <5>1. l[1] \in ChunkID
          BY <1>1, <4>1 DEF HandlerTypeOK
        <5>2. l[1] \in GetChunksByFileID(f)
          BY <3>2, <3>3, <4>1, <5>1 DEF GetChunksByFileID
        <5> QED
          BY <3>4, <5>2 DEF GetChunksByFileID
      <4>2. CASE l \notin hplan[g]
        <5>1. l[1] = c
          BY <3>1, <4>2
        <5> QED
          BY <3>4, <3>5, <5>1 DEF GetChunksByFileID
      <4> QED
        BY <4>1, <4>2
    <3>7. ASSUME NEW d \in GetChunksByFileID(f) \ htodo'[g]
          PROVE  Cardinality(PlanNodes(g, d)') >= ReplicationFactor
      <4>1. /\ Cardinality(PlanNodes(g, d)) \in Nat
            /\ Cardinality(PlanNodes(g, d)') \in Nat
            /\ Cardinality(GetChunkLocations(d)) \in Nat
        BY LocationsFinite DEF PlanNodes, GetChunkLocations
      <4>2. CASE d # c
        <5>1. PlanNodes(g, d)' = PlanNodes(g, d)
          BY <3>1, <4>2 DEF PlanNodes
        <5>2. d \in GetChunksByFileID(hfile[g]) \ htodo[g]
          BY <3>1, <3>3, <3>7, <4>2
        <5> QED
          BY <3>2, <5>1, <5>2
      <4>3. CASE d = c
        <5>1. GetChunkLocations(c) \subseteq PlanNodes(g, d)'
          BY <3>1, <4>3 DEF PlanNodes, GetChunkLocations
        <5>2. IsFiniteSet(PlanNodes(g, d)')
          BY LocationsFinite DEF PlanNodes
        <5>3. Cardinality(GetChunkLocations(c)) <= Cardinality(PlanNodes(g, d)')
          BY <5>1, <5>2, FS_Subset
        <5> QED
          BY <3>5, <4>1, <4>3, <5>3, ManifestAssumption
      <4> QED
        BY <4>2, <4>3
    <3>a. (htodo[g] \subseteq GetChunksByFileID(hfile[g]))'
      BY <3>1, <3>2, <3>3, <3>4
    <3>b. hpc'[g] = "reply" => htodo'[g] = {}
      BY <3>1
    <3>c. hpc'[g] \in {"locations", "reply"}
      BY <3>1
    <3>d. hfile'[g] = f
      BY <3>1, <3>3
    <3> QED
      BY <3>4, <3>6, <3>7, <3>a, <3>b, <3>c, <3>d DEF HandlerOK
  <2> QED
    BY <2>2, <2>3
<1> QED
  BY <1>2, <1>3, <1>4, InvPartsNext DEF HandlerInv

\* A handler that returns without writing: a GetFile that answers, or any
\* handler that fails.
LEMMA ReturnInv ==
  ASSUME ManifestInv, NEW h \in Handler, GetFileReply(h) \/ HandlerError(h)
  PROVE  ManifestInv' /\ StoreForward
<1>1. StoreInv /\ HandlerTypeOK /\ HandlerInv /\ StoreTypeOK
  BY InvParts DEF StoreInv
<1>2. StoreInv' /\ StoreForward
  BY <1>1, StoreUnchanged DEF GetFileReply, HandlerError
<1>3. HandlerTypeOK' /\ HandlerInv'
  BY <1>1, <1>2, ReturnOK DEF GetFileReply, HandlerError
<1> QED
  BY <1>2, <1>3, InvPartsNext

-----------------------------------------------------------------------------
(* Steps that write a table *)

\* A row that a replica map asks for belongs to a chunk of its domain.
LEMMA RowsOfDomain ==
  ASSUME NEW rm, NEW r \in RowsOf(rm)
  PROVE  r[1] \in DOMAIN rm /\ \E i \in DOMAIN rm[r[1]] : r = <<r[1], rm[r[1]][i]>>
BY DEF RowsOf

\* Heartbeats and timeouts of nodes touch no file.
LEMMA NodeStepInv ==
  ASSUME ManifestInv, NEW n \in NodeID, NodeHeartbeat(n) \/ NodeTimeout(n)
  PROVE  ManifestInv' /\ StoreForward
<1>1. StoreInv /\ HandlerTypeOK /\ HandlerInv /\ StoreTypeOK
  BY InvParts DEF StoreInv
<1>2. /\ fileStatus' = fileStatus /\ chunkFile' = chunkFile
      /\ chunkLocations' = chunkLocations
      /\ sessionStatus' = sessionStatus /\ sessionFile' = sessionFile
      /\ offered' = offered /\ ackedDeletes' = ackedDeletes
      /\ UNCHANGED handlerVars
  BY DEF NodeHeartbeat, NodeTimeout, fileTables, clientVars
<1>3. NodeTypeOK'
  BY <1>1 DEF NodeHeartbeat, HeartbeatMarks, NodeTimeout, MonitorMarks, StoreTypeOK,
              NodeTypeOK, NodeStatus, UpdateNodeStatus
<1>4. StoreForward
  BY <1>2 DEF StoreForward, GetChunksByFileID
<1>5. (StoreTypeOK /\ ForeignKeys /\ OneSessionPerFile)'
  BY <1>1, <1>2, <1>3 DEF StoreInv, StoreTypeOK, FileTablesTypeOK, ForeignKeys,
                          OneSessionPerFile
<1>6. (CommittedFullyReplicated /\ UncommittedHasNoLocations)'
  BY <1>1, <1>2 DEF StoreInv, CommittedFullyReplicated, UncommittedHasNoLocations, ListFiles,
              GetFile, GetChunksByFileID, GetChunkLocations
<1>7. (SessionFileAgreement /\ AckedDeleteIsFinal)'
  BY <1>1, <1>2 DEF StoreInv, SessionFileAgreement, AckedDeleteIsFinal
<1>8. OfferedPlacementCommits'
  <2>1. \A s \in SessionID : CommitValid(s, offered[s])' <=> CommitValid(s, offered[s])
    BY <1>2 DEF CommitValid, GetUploadSession, GetFile, GetChunksByFileID
  <2> QED
    BY <1>1, <1>2, <2>1 DEF StoreInv, OfferedPlacementCommits
<1>9. StoreInv'
  BY <1>1, <1>2, <1>5, <1>6, <1>7, <1>8 DEF StoreInv
<1>10. HandlerTypeOK' /\ HandlerInv'
  BY <1>1, <1>2, <1>4, HandlersUnchanged
<1> QED
  BY <1>4, <1>9, <1>10, InvPartsNext

\* Repair adds a location to a chunk that has one already.
LEMMA RepairAddsInv ==
  ASSUME ManifestInv, NEW c \in ChunkID, NEW n \in NodeID, RepairAdds(c, n)
  PROVE  ManifestInv' /\ StoreForward
<1>1. StoreInv /\ HandlerTypeOK /\ HandlerInv /\ StoreTypeOK
  BY InvParts DEF StoreInv
<1>2. /\ fileStatus' = fileStatus /\ chunkFile' = chunkFile
      /\ chunkLocations' = chunkLocations \cup {<<c, n>>}
      /\ sessionStatus' = sessionStatus /\ sessionFile' = sessionFile
      /\ nodeStatus' = nodeStatus
      /\ offered' = offered /\ ackedDeletes' = ackedDeletes
      /\ UNCHANGED handlerVars
  BY DEF RepairAdds, RepairRecords, AddChunkLocation, fileTables, clientVars
<1>3. PICK m \in NodeID : <<c, m>> \in chunkLocations
  BY DEF RepairAdds, RepairRecords, GetChunkLocations
<1>4. chunkFile[c] # NoFile /\ chunkFile[c] \in FileID
  <2>1. chunkFile[c] # NoFile
    BY <1>1, <1>3 DEF StoreInv, ForeignKeys
  <2> QED
    BY <1>1, <2>1 DEF StoreTypeOK, FileTablesTypeOK
<1>5. fileStatus[chunkFile[c]] # "pending"
  BY <1>1, <1>3, <1>4 DEF StoreInv, UncommittedHasNoLocations, GetChunksByFileID,
                          GetChunkLocations
<1>6. StoreForward
  BY <1>2 DEF StoreForward, GetChunksByFileID
<1>7. (StoreTypeOK /\ ForeignKeys /\ OneSessionPerFile)'
  BY <1>1, <1>2, <1>4 DEF StoreInv, StoreTypeOK, FileTablesTypeOK, NodeTypeOK, ForeignKeys,
                          OneSessionPerFile
<1>8. CommittedFullyReplicated'
  <2> SUFFICES ASSUME NEW f \in FileID, fileStatus[f] = "committed"
               PROVE  GetChunksByFileID(f)' # {} /\ EverCommitted(f)'
    BY <1>2 DEF CommittedFullyReplicated, EverCommitted, ListFiles, GetFile, GetChunksByFileID
  <2>1. GetChunksByFileID(f) # {} /\ EverCommitted(f)
    BY <1>1 DEF StoreInv, CommittedFullyReplicated, EverCommitted, ListFiles, GetFile
  <2> QED
    BY <1>2, <1>6, <2>1, EverCommittedStable DEF GetChunksByFileID
<1>9. UncommittedHasNoLocations'
  BY <1>1, <1>2, <1>5 DEF StoreInv, UncommittedHasNoLocations, GetChunksByFileID,
                          GetChunkLocations
<1>10. (SessionFileAgreement /\ AckedDeleteIsFinal)'
  BY <1>1, <1>2 DEF StoreInv, SessionFileAgreement, AckedDeleteIsFinal
<1>11. OfferedPlacementCommits'
  <2> SUFFICES ASSUME NEW s \in SessionID, sessionStatus[s] = "preparing",
                      fileStatus[sessionFile[s]] = "pending"
               PROVE  /\ CommitValid(s, offered[s])'
                      /\ \A d \in DOMAIN offered[s] : Injective(offered[s][d])
                      /\ RowsOf(offered[s]) \cap (chunkLocations \cup {<<c, n>>}) = {}
    BY <1>2 DEF OfferedPlacementCommits
  <2>1. /\ CommitValid(s, offered[s])
        /\ \A d \in DOMAIN offered[s] : Injective(offered[s][d])
        /\ RowsOf(offered[s]) \cap chunkLocations = {}
    BY <1>1 DEF StoreInv, OfferedPlacementCommits
  <2>2. CommitValid(s, offered[s])'
    BY <1>2, <2>1 DEF CommitValid, GetUploadSession, GetFile, GetChunksByFileID
  <2>3. c \notin DOMAIN offered[s]
    BY <1>5, <2>1 DEF CommitValid, GetUploadSession, GetFile, GetChunksByFileID
  <2>4. <<c, n>> \notin RowsOf(offered[s])
    BY <2>3 DEF RowsOf
  <2> QED
    BY <2>1, <2>2, <2>4
<1>12. StoreInv'
  BY <1>1, <1>2, <1>7, <1>8, <1>9, <1>10, <1>11 DEF StoreInv
<1>13. HandlerTypeOK' /\ HandlerInv'
  BY <1>1, <1>2, <1>6, HandlersUnchanged
<1> QED
  BY <1>6, <1>12, <1>13, InvPartsNext

\* DeleteFile marks the file it read as deleted, whatever its status is now.
LEMMA DeleteFileWriteInv ==
  ASSUME ManifestInv, NEW h \in Handler, DeleteFileWrite(h)
  PROVE  ManifestInv' /\ StoreForward
<1>1. StoreInv /\ HandlerTypeOK /\ HandlerInv /\ StoreTypeOK
  BY InvParts DEF StoreInv
<1>2. hfile[h] \in FileID /\ fileStatus[hfile[h]] # "none"
  BY <1>1 DEF HandlerInv, HandlerOK, DeleteFileWrite
<1>3. PICK f \in FileID : f = hfile[h]
  BY <1>2
<1>4. /\ fileStatus' = [fileStatus EXCEPT ![f] = "deleted"]
      /\ chunkFile' = chunkFile /\ chunkLocations' = chunkLocations
      /\ sessionStatus' = sessionStatus /\ sessionFile' = sessionFile
      /\ nodeStatus' = nodeStatus
      /\ offered' = offered /\ ackedDeletes' = ackedDeletes \cup {f}
      /\ Return(h)
  BY <1>1, <1>2, <1>3 DEF DeleteFileWrite, UpdateFileStatus, StoreTypeOK, FileTablesTypeOK
<1>5. fileStatus \in [FileID -> FileStatus]
  BY <1>1 DEF StoreTypeOK, FileTablesTypeOK
<1>6. \A g \in FileID : fileStatus'[g] = IF g = f THEN "deleted" ELSE fileStatus[g]
  BY <1>4, <1>5
<1>7. StoreForward
  BY <1>2, <1>3, <1>4, <1>6 DEF StoreForward, GetChunksByFileID
<1>8. (StoreTypeOK /\ OneSessionPerFile)'
  BY <1>1, <1>4 DEF StoreInv, StoreTypeOK, FileTablesTypeOK, NodeTypeOK, OneSessionPerFile,
                    FileStatus
<1>9. ForeignKeys'
  BY <1>1, <1>4, <1>6 DEF StoreInv, StoreTypeOK, FileTablesTypeOK, ForeignKeys
<1>10. (CommittedFullyReplicated /\ UncommittedHasNoLocations)'
  BY <1>1, <1>4, <1>6 DEF StoreInv, CommittedFullyReplicated, UncommittedHasNoLocations,
                          ListFiles, GetFile, GetChunksByFileID, GetChunkLocations
<1>11. AckedDeleteIsFinal' /\ (ackedDeletes \subseteq FileID)'
  BY <1>1, <1>4, <1>6 DEF StoreInv, AckedDeleteIsFinal
<1>12. \A s \in SessionID : sessionStatus[s] # "none" => sessionFile[s] \in FileID
  BY <1>1 DEF StoreInv, ForeignKeys, StoreTypeOK
<1>13. SessionFileAgreement'
  BY <1>1, <1>4, <1>6, <1>12 DEF StoreInv, SessionFileAgreement
<1>14. OfferedPlacementCommits'
  <2> SUFFICES ASSUME NEW s \in SessionID, sessionStatus[s] = "preparing",
                      fileStatus'[sessionFile[s]] = "pending"
               PROVE  /\ CommitValid(s, offered[s])'
                      /\ \A d \in DOMAIN offered[s] : Injective(offered[s][d])
                      /\ RowsOf(offered[s]) \cap chunkLocations = {}
    BY <1>4 DEF OfferedPlacementCommits
  <2>1. fileStatus[sessionFile[s]] = "pending"
    BY <1>6, <1>12
  <2>2. /\ CommitValid(s, offered[s])
        /\ \A d \in DOMAIN offered[s] : Injective(offered[s][d])
        /\ RowsOf(offered[s]) \cap chunkLocations = {}
    BY <1>1, <2>1 DEF StoreInv, OfferedPlacementCommits
  <2>3. CommitValid(s, offered[s])'
    BY <1>4, <2>2 DEF CommitValid, GetUploadSession, GetFile, GetChunksByFileID
  <2> QED
    BY <2>2, <2>3
<1>15. StoreInv'
  BY <1>1, <1>4, <1>8, <1>9, <1>10, <1>11, <1>13, <1>14 DEF StoreInv
<1>16. HandlerTypeOK' /\ HandlerInv'
  BY <1>1, <1>4, <1>7, ReturnOK
<1> QED
  BY <1>7, <1>15, <1>16, InvPartsNext

\* CommitUpload: the file, its session and its locations change together,
\* whatever lists of node ids the client sends.
LEMMA CommitUploadInv ==
  ASSUME ManifestInv, NEW s \in SessionID, NEW D \in SUBSET ChunkID,
         NEW rm \in [D -> Seq(NodeID \cup {EmptyID})], CommitUpload(s, rm)
  PROVE  ManifestInv' /\ StoreForward
<1>1. StoreInv /\ HandlerTypeOK /\ HandlerInv /\ StoreTypeOK
  BY InvParts DEF StoreInv
<1> DEFINE chunks == GetChunksByFileID(sessionFile[s])
<1>2. /\ sessionStatus[s] = "preparing" /\ fileStatus[sessionFile[s]] = "pending"
      /\ chunks # {} /\ Cardinality(DOMAIN rm) = Cardinality(chunks)
      /\ DOMAIN rm \subseteq chunks
      /\ \A c \in DOMAIN rm : /\ Len(rm[c]) >= ReplicationFactor
                              /\ \A i \in DOMAIN rm[c] : rm[c][i] # EmptyID
  BY DEF CommitUpload, CommitValid, GetUploadSession, GetFile
<1>3. \A t \in SessionID : sessionStatus[t] # "none" => sessionFile[t] \in FileID
  BY <1>1 DEF StoreInv, ForeignKeys, StoreTypeOK
<1>4. PICK f \in FileID : f = sessionFile[s]
  BY <1>2, <1>3
<1>5. DOMAIN rm = chunks
  <2>1. IsFiniteSet(chunks)
    BY FileTablesAssumption, FS_Subset DEF GetChunksByFileID
  <2> QED
    BY <1>2, <2>1, FS_Subset
<1>6. /\ fileStatus' = [fileStatus EXCEPT ![f] = "committed"]
      /\ sessionStatus' = [sessionStatus EXCEPT ![s] = "committed"]
      /\ sessionFile' = sessionFile /\ chunkFile' = chunkFile /\ nodeStatus' = nodeStatus
      /\ chunkLocations' = chunkLocations \cup RowsOf(rm)
      /\ \A c \in DOMAIN rm : Injective(rm[c])
      /\ offered' = offered /\ ackedDeletes' = ackedDeletes /\ UNCHANGED handlerVars
  BY <1>1, <1>2, <1>4 DEF CommitUpload, UpdateFileStatus, UpdateUploadSessionStatus,
       InsertChunkLocations, StoreTypeOK, FileTablesTypeOK, clientVars
<1>7. \A g \in FileID : fileStatus'[g] = IF g = f THEN "committed" ELSE fileStatus[g]
  BY <1>1, <1>6 DEF StoreTypeOK, FileTablesTypeOK
<1>8. \A t \in SessionID : sessionStatus'[t] = IF t = s THEN "committed" ELSE sessionStatus[t]
  BY <1>1, <1>6 DEF StoreTypeOK
<1>9. ASSUME NEW c \in DOMAIN rm
      PROVE  rm[c] \in Seq(NodeID) /\ DOMAIN rm[c] = 1 .. Len(rm[c])
  <2>1. rm[c] \in Seq(NodeID \cup {EmptyID})
    OBVIOUS
  <2> QED
    BY <1>2, <2>1
<1>10. RowsOf(rm) \subseteq chunks \X NodeID
  BY <1>5, <1>9 DEF RowsOf
<1>11. \A g \in FileID : g # f =>
         \A c \in GetChunksByFileID(g) : c \notin chunks
  BY <1>4 DEF GetChunksByFileID
<1>12. StoreForward
  BY <1>2, <1>4, <1>6, <1>7 DEF StoreForward, GetChunksByFileID
<1>13. (StoreTypeOK /\ OneSessionPerFile)'
  <2>1. chunks \subseteq ChunkID
    BY DEF GetChunksByFileID
  <2>2. (chunkLocations \subseteq ChunkID \X NodeID)'
    BY <1>1, <1>6, <1>10, <2>1 DEF StoreTypeOK, FileTablesTypeOK
  <2>3. /\ fileStatus' \in [FileID -> FileStatus]
        /\ sessionStatus' \in [SessionID -> SessionStatus]
    BY <1>1, <1>6 DEF StoreTypeOK, FileTablesTypeOK, FileStatus, SessionStatus
  <2> QED
    BY <1>1, <1>6, <2>2, <2>3 DEF StoreInv, StoreTypeOK, FileTablesTypeOK, NodeTypeOK, OneSessionPerFile
<1>14. ForeignKeys'
  <2>1. \A l \in RowsOf(rm) : chunkFile[l[1]] = f
    BY <1>4, <1>10 DEF GetChunksByFileID
  <2>2. f # NoFile
    BY FileTablesAssumption
  <2>3. (\A l \in chunkLocations : chunkFile[l[1]] # NoFile)'
    BY <1>1, <1>6, <2>1, <2>2 DEF StoreInv, ForeignKeys
  <2>4. \A g \in FileID : fileStatus[g] # "none" => fileStatus'[g] # "none"
    BY <1>7
  <2>5. (\A c \in ChunkID : chunkFile[c] # NoFile => fileStatus[chunkFile[c]] # "none")'
    BY <1>1, <1>6, <2>4 DEF StoreInv, ForeignKeys, StoreTypeOK, FileTablesTypeOK
  <2>6. (\A t \in SessionID : sessionStatus[t] # "none" => sessionFile[t] # NoFile)'
    BY <1>1, <1>2, <1>6, <1>8 DEF StoreInv, ForeignKeys
  <2>7. (\A t \in SessionID : sessionFile[t] # NoFile =>
           sessionStatus[t] # "none" /\ fileStatus[sessionFile[t]] # "none")'
    BY <1>1, <1>2, <1>6, <1>8, <2>4 DEF StoreInv, ForeignKeys, StoreTypeOK
  <2> QED
    BY <2>3, <2>5, <2>6, <2>7 DEF ForeignKeys
<1>15. CommittedFullyReplicated'
  <2> SUFFICES ASSUME NEW g \in FileID, fileStatus'[g] = "committed"
               PROVE  GetChunksByFileID(g)' # {} /\ EverCommitted(g)'
    BY DEF CommittedFullyReplicated, EverCommitted, ListFiles, GetFile
  <2>1. CASE g # f
    <3>1. GetChunksByFileID(g) # {} /\ EverCommitted(g)
      BY <1>1, <1>7, <2>1 DEF StoreInv, CommittedFullyReplicated, EverCommitted, ListFiles, GetFile
    <3> QED
      BY <1>6, <1>12, <3>1, EverCommittedStable DEF GetChunksByFileID
  <2>2. CASE g = f
    <3>1. GetChunksByFileID(g)' = DOMAIN rm
      BY <1>4, <1>5, <1>6, <2>2 DEF GetChunksByFileID
    <3>2. ASSUME NEW c \in DOMAIN rm
          PROVE  Cardinality(GetChunkLocations(c)') >= ReplicationFactor
      <4> DEFINE T == GetChunkLocations(c)'
      <4>1. T \subseteq NodeID /\ Cardinality(T) \in Nat
        BY LocationsFinite DEF GetChunkLocations
      <4>2. \A i \in DOMAIN rm[c] : rm[c][i] \in T
        <5>1. \A i \in DOMAIN rm[c] : rm[c][i] \in NodeID
          BY <1>9
        <5>2. \A i \in DOMAIN rm[c] : <<c, rm[c][i]>> \in RowsOf(rm)
          BY DEF RowsOf
        <5> QED
          BY <1>6, <5>1, <5>2 DEF GetChunkLocations
      <4>3. Cardinality(T) >= Len(rm[c])
        <5> HIDE DEF T
        <5> QED
          BY <1>6, <1>9, <4>1, <4>2, InjectiveListCard
      <4>4. Len(rm[c]) >= ReplicationFactor /\ Len(rm[c]) \in Nat
        BY <1>2, <1>9
      <4> QED
        BY <4>1, <4>3, <4>4, ManifestAssumption
    <3> QED
      BY <1>2, <1>5, <1>7, <2>2, <3>1, <3>2 DEF EverCommitted
  <2> QED
    BY <2>1, <2>2
<1>16. UncommittedHasNoLocations'
  <2> SUFFICES ASSUME NEW g \in FileID, fileStatus'[g] = "pending",
                      NEW c \in GetChunksByFileID(g)'
               PROVE  GetChunkLocations(c)' = {}
    BY DEF UncommittedHasNoLocations
  <2>1. g # f /\ fileStatus[g] = "pending" /\ c \in GetChunksByFileID(g)
    BY <1>6, <1>7 DEF GetChunksByFileID
  <2>2. GetChunkLocations(c) = {} /\ c \notin chunks
    BY <1>1, <1>11, <2>1 DEF StoreInv, UncommittedHasNoLocations
  <2> QED
    BY <1>6, <1>10, <2>2 DEF GetChunkLocations
<1>17. \A t \in SessionID : t # s /\ sessionStatus[t] # "none" => sessionFile[t] # f
  BY <1>1, <1>3, <1>4, FileTablesAssumption DEF StoreInv, OneSessionPerFile
<1>18. SessionFileAgreement'
  BY <1>1, <1>3, <1>4, <1>6, <1>7, <1>8, <1>17 DEF StoreInv, SessionFileAgreement
<1>19. AckedDeleteIsFinal'
  <2>1. f \notin ackedDeletes
    BY <1>1, <1>2, <1>4 DEF StoreInv, AckedDeleteIsFinal
  <2> QED
    BY <1>1, <1>6, <1>7, <2>1 DEF StoreInv, AckedDeleteIsFinal
<1>20. OfferedPlacementCommits'
  <2> SUFFICES ASSUME NEW t \in SessionID, sessionStatus'[t] = "preparing",
                      fileStatus'[sessionFile[t]] = "pending"
               PROVE  /\ CommitValid(t, offered[t])'
                      /\ \A d \in DOMAIN offered[t] : Injective(offered[t][d])
                      /\ RowsOf(offered[t]) \cap (chunkLocations \cup RowsOf(rm)) = {}
    BY <1>6 DEF OfferedPlacementCommits
  <2>1. t # s /\ sessionStatus[t] = "preparing" /\ sessionFile[t] \in FileID
    BY <1>3, <1>8
  <2>2. sessionFile[t] # f /\ fileStatus[sessionFile[t]] = "pending"
    BY <1>7, <1>17, <2>1
  <2>3. /\ CommitValid(t, offered[t])
        /\ \A d \in DOMAIN offered[t] : Injective(offered[t][d])
        /\ RowsOf(offered[t]) \cap chunkLocations = {}
    BY <1>1, <2>1, <2>2 DEF StoreInv, OfferedPlacementCommits
  <2>4. CommitValid(t, offered[t])'
    BY <1>6, <2>3 DEF CommitValid, GetUploadSession, GetFile, GetChunksByFileID
  <2>5. DOMAIN offered[t] \subseteq GetChunksByFileID(sessionFile[t])
    BY <2>3 DEF CommitValid
  <2>6. \A r \in RowsOf(offered[t]) : r[1] \notin chunks
    BY <1>11, <2>1, <2>2, <2>5, RowsOfDomain
  <2>7. RowsOf(offered[t]) \cap RowsOf(rm) = {}
    BY <1>10, <2>6
  <2> QED
    BY <2>3, <2>4, <2>7
<1>21. StoreInv'
  BY <1>1, <1>6, <1>13, <1>14, <1>15, <1>16, <1>18, <1>19, <1>20 DEF StoreInv
<1>22. HandlerTypeOK' /\ HandlerInv'
  BY <1>1, <1>6, <1>12, HandlersUnchanged
<1> QED
  BY <1>12, <1>21, <1>22, InvPartsNext

\* A file of at least one byte has at least one chunk.
LEMMA ChunkCountPositive ==
  ASSUME NEW size \in FileSizes
  PROVE  ChunkCount(size) \in Nat \ {0}
<1>1. size \in Nat /\ size >= 1 /\ ChunkSize \in Nat /\ ChunkSize >= 1
  BY ManifestAssumption
<1>2. \A a, b \in Nat : b >= 1 /\ a >= b => a \div b >= 1 /\ a \div b \in Nat
  OBVIOUS
<1>3. size + ChunkSize - 1 \in Nat /\ size + ChunkSize - 1 >= ChunkSize
  BY <1>1
<1> QED
  BY <1>1, <1>2, <1>3 DEF ChunkCount

\* What SelectReplicas returns: for every chunk ReplicationFactor different
\* nodes out of those it was given.
LEMMA SelectReplicasSound ==
  ASSUME NEW cs, NEW nodes, NEW rm \in SelectReplicas(cs, nodes)
  PROVE  /\ DOMAIN rm = cs
         /\ \A c \in cs : /\ rm[c] \in Seq(nodes)
                          /\ Len(rm[c]) = ReplicationFactor
                          /\ Injective(rm[c])
<1>1. ReplicationFactor \in Nat
      /\ rm \in [cs -> {list \in [1..ReplicationFactor -> nodes] : Injective(list)}]
  BY ManifestAssumption DEF SelectReplicas
<1>2. ASSUME NEW c \in cs
      PROVE  rm[c] \in Seq(nodes) /\ Len(rm[c]) = ReplicationFactor /\ Injective(rm[c])
  <2>1. rm[c] \in [1..ReplicationFactor -> nodes] /\ Injective(rm[c])
    BY <1>1
  <2>2. rm[c] \in Seq(nodes)
    BY <1>1, <2>1
  <2>3. Len(rm[c]) = ReplicationFactor
    BY <1>1, <2>1, <2>2
  <2> QED
    BY <2>1, <2>2, <2>3
<1> QED
  BY <1>1, <1>2

\* PrepareUpload creates the file, its session and its chunks together.
LEMMA PrepareUploadTxInv ==
  ASSUME ManifestInv, NEW h \in Handler, NEW f \in FileID, NEW s \in SessionID,
         NEW cs \in SUBSET ChunkID, NEW size \in FileSizes,
         PrepareUploadTx(h, f, s, cs, size)
  PROVE  ManifestInv' /\ StoreForward
<1>1. StoreInv /\ HandlerTypeOK /\ HandlerInv /\ StoreTypeOK
  BY InvParts DEF StoreInv
<1>2. PICK rm \in SelectReplicas(cs, hnodes[h]) : offered' = [offered EXCEPT ![s] = rm]
  BY DEF PrepareUploadTx
<1>3. /\ fileStatus[f] = "none" /\ sessionStatus[s] = "none"
      /\ \A c \in cs : chunkFile[c] = NoFile
      /\ fileStatus' = [fileStatus EXCEPT ![f] = "pending"]
      /\ sessionStatus' = [sessionStatus EXCEPT ![s] = "preparing"]
      /\ sessionFile' = [sessionFile EXCEPT ![s] = f]
      /\ chunkFile' = [c \in ChunkID |-> IF c \in cs THEN f ELSE chunkFile[c]]
      /\ chunkLocations' = chunkLocations /\ nodeStatus' = nodeStatus
      /\ ackedDeletes' = ackedDeletes /\ Return(h)
  BY DEF PrepareUploadTx, CreateFile, CreateUploadSession, InsertChunks
<1>4. \A g \in FileID : fileStatus'[g] = IF g = f THEN "pending" ELSE fileStatus[g]
  BY <1>1, <1>3 DEF StoreTypeOK, FileTablesTypeOK
<1>5. \A t \in SessionID :
        /\ sessionStatus'[t] = IF t = s THEN "preparing" ELSE sessionStatus[t]
        /\ sessionFile'[t] = IF t = s THEN f ELSE sessionFile[t]
        /\ offered'[t] = IF t = s THEN rm ELSE offered[t]
  BY <1>1, <1>2, <1>3 DEF StoreInv, StoreTypeOK
<1>6. /\ \A c \in ChunkID : chunkFile[c] # f
      /\ \A t \in SessionID : sessionFile[t] # f
  BY <1>1, <1>3, FileTablesAssumption DEF StoreInv, ForeignKeys
<1>7. GetChunksByFileID(f)' = cs
  BY <1>3, <1>6 DEF GetChunksByFileID
<1>8. \A g \in FileID : g # f => GetChunksByFileID(g)' = GetChunksByFileID(g)
  BY <1>3, FileTablesAssumption DEF GetChunksByFileID
<1>9. \A l \in chunkLocations : l[1] \notin cs
  BY <1>1, <1>3 DEF StoreInv, ForeignKeys
<1>10. StoreForward
  BY <1>3, <1>4, <1>8 DEF StoreForward
<1>11. StoreTypeOK' /\ (DOMAIN offered = SessionID)'
  <2>1. /\ fileStatus' \in [FileID -> FileStatus]
        /\ sessionStatus' \in [SessionID -> SessionStatus]
        /\ sessionFile' \in [SessionID -> FileID \cup {NoFile}]
        /\ chunkFile' \in [ChunkID -> FileID \cup {NoFile}]
    BY <1>1, <1>3 DEF StoreTypeOK, FileTablesTypeOK, FileStatus, SessionStatus
  <2>2. DOMAIN offered' = SessionID
    BY <1>1, <1>2 DEF StoreInv
  <2> QED
    BY <1>1, <1>3, <2>1, <2>2 DEF StoreTypeOK, FileTablesTypeOK, NodeTypeOK
<1>12. ForeignKeys'
  <2>1. (\A t \in SessionID : sessionStatus[t] # "none" => sessionFile[t] # NoFile)'
    BY <1>1, <1>5, FileTablesAssumption DEF StoreInv, ForeignKeys
  <2>2. (\A t \in SessionID : sessionFile[t] # NoFile =>
           sessionStatus[t] # "none" /\ fileStatus[sessionFile[t]] # "none")'
    BY <1>1, <1>4, <1>5 DEF StoreInv, ForeignKeys, StoreTypeOK
  <2>3. (\A c \in ChunkID : chunkFile[c] # NoFile => fileStatus[chunkFile[c]] # "none")'
    BY <1>1, <1>3, <1>4 DEF StoreInv, ForeignKeys, StoreTypeOK, FileTablesTypeOK
  <2>4. (\A l \in chunkLocations : chunkFile[l[1]] # NoFile)'
    <3>1. \A l \in chunkLocations : l[1] \in ChunkID /\ chunkFile[l[1]] # NoFile
      BY <1>1 DEF StoreInv, ForeignKeys, StoreTypeOK, FileTablesTypeOK
    <3> QED
      BY <1>3, <1>9, <3>1
  <2> QED
    BY <2>1, <2>2, <2>3, <2>4 DEF ForeignKeys
<1>13. OneSessionPerFile'
  BY <1>1, <1>5, <1>6 DEF StoreInv, OneSessionPerFile
<1>14. CommittedFullyReplicated'
  <2> SUFFICES ASSUME NEW g \in FileID, fileStatus'[g] = "committed"
               PROVE  GetChunksByFileID(g)' # {} /\ EverCommitted(g)'
    BY DEF CommittedFullyReplicated, EverCommitted, ListFiles, GetFile
  <2>1. g # f /\ fileStatus[g] = "committed"
    BY <1>4
  <2>2. GetChunksByFileID(g) # {} /\ EverCommitted(g)
    BY <1>1, <2>1 DEF StoreInv, CommittedFullyReplicated, EverCommitted, ListFiles, GetFile
  <2> QED
    BY <1>8, <1>10, <2>1, <2>2, EverCommittedStable
<1>15. UncommittedHasNoLocations'
  <2> SUFFICES ASSUME NEW g \in FileID, fileStatus'[g] = "pending",
                      NEW c \in GetChunksByFileID(g)'
               PROVE  GetChunkLocations(c) = {}
    BY <1>3 DEF UncommittedHasNoLocations, GetChunkLocations
  <2>1. CASE g = f
    <3>1. c \in cs
      BY <1>7, <2>1
    <3> QED
      BY <1>9, <3>1 DEF GetChunkLocations
  <2>2. CASE g # f
    BY <1>1, <1>4, <1>8, <2>2 DEF StoreInv, UncommittedHasNoLocations
  <2> QED
    BY <2>1, <2>2
<1>16. \A t \in SessionID : sessionStatus[t] # "none" => sessionFile[t] \in FileID \ {f}
  BY <1>1, <1>6 DEF StoreInv, ForeignKeys, StoreTypeOK
<1>17. SessionFileAgreement'
  BY <1>1, <1>4, <1>5, <1>16 DEF StoreInv, SessionFileAgreement
<1>18. AckedDeleteIsFinal'
  BY <1>1, <1>3, <1>4 DEF StoreInv, AckedDeleteIsFinal
<1>19. OfferedPlacementCommits'
  <2> SUFFICES ASSUME NEW t \in SessionID, sessionStatus'[t] = "preparing",
                      fileStatus'[sessionFile'[t]] = "pending"
               PROVE  /\ CommitValid(t, offered[t])'
                      /\ \A d \in DOMAIN offered'[t] : Injective(offered'[t][d])
                      /\ RowsOf(offered'[t]) \cap chunkLocations = {}
    BY <1>3 DEF OfferedPlacementCommits
  <2>1. CASE t # s
    <3>1. /\ sessionStatus[t] = "preparing" /\ sessionFile[t] \in FileID \ {f}
          /\ fileStatus[sessionFile[t]] = "pending"
      BY <1>4, <1>5, <1>16, <2>1
    <3>2. /\ CommitValid(t, offered[t])
          /\ \A d \in DOMAIN offered[t] : Injective(offered[t][d])
          /\ RowsOf(offered[t]) \cap chunkLocations = {}
      BY <1>1, <3>1 DEF StoreInv, OfferedPlacementCommits
    <3>3. GetChunksByFileID(sessionFile[t])' = GetChunksByFileID(sessionFile[t])
      BY <1>3, <1>5, <1>6, <2>1, <3>1, FileTablesAssumption DEF GetChunksByFileID
    <3>4. CommitValid(t, offered[t])'
      BY <1>4, <1>5, <2>1, <3>1, <3>2, <3>3 DEF CommitValid, GetUploadSession, GetFile
    <3> QED
      BY <1>5, <2>1, <3>2, <3>4
  <2>2. CASE t = s
    <3>1. sessionFile'[s] = f /\ offered'[s] = rm /\ sessionStatus'[s] = "preparing"
      BY <1>5
    <3>2. hnodes[h] \subseteq NodeID
      BY <1>1 DEF HandlerTypeOK
    <3>3. /\ DOMAIN rm = cs
          /\ \A c \in cs : /\ rm[c] \in Seq(NodeID) /\ Len(rm[c]) = ReplicationFactor
                           /\ Injective(rm[c])
      BY <3>2, SelectReplicasSound
    <3>4. cs # {}
      <4>1. Cardinality(cs) \in Nat \ {0}
        BY ChunkCountPositive DEF PrepareUploadTx
      <4> QED
        BY <4>1, FS_EmptySet
    <3>5. GetChunksByFileID(sessionFile[s])' = cs
      BY <1>3, <1>6, <3>1 DEF GetChunksByFileID
    <3>6. ASSUME NEW c \in cs
          PROVE  /\ Len(rm[c]) >= ReplicationFactor
                 /\ \A i \in DOMAIN rm[c] : rm[c][i] # EmptyID
      BY <3>3, <3>6, ManifestAssumption
    <3>7. CommitValid(s, offered[s])'
      BY <1>4, <3>1, <3>3, <3>4, <3>5, <3>6 DEF CommitValid, GetUploadSession, GetFile
    <3>8. RowsOf(rm) \cap chunkLocations = {}
      BY <1>9, <3>3, RowsOfDomain
    <3> QED
      BY <2>2, <3>1, <3>3, <3>7, <3>8
  <2> QED
    BY <2>1, <2>2
<1>20. StoreInv'
  BY <1>1, <1>3, <1>11, <1>12, <1>13, <1>14, <1>15, <1>17, <1>18, <1>19 DEF StoreInv
<1>21. HandlerTypeOK' /\ HandlerInv'
  BY <1>1, <1>3, <1>10, ReturnOK
<1> QED
  BY <1>10, <1>20, <1>21, InvPartsNext

-----------------------------------------------------------------------------
(* The theorems *)

\* ManifestInv is inductive.
LEMMA NextInv ==
  ManifestInv /\ [ManifestNext]_manifestVars => ManifestInv'
<1> SUFFICES ASSUME ManifestInv, [ManifestNext]_manifestVars
             PROVE  ManifestInv'
  OBVIOUS
<1>1. ASSUME NEW h \in Handler, PrepareUpload(h)
      PROVE  ManifestInv'
  BY <1>1, PrepareUploadReadInv, PrepareUploadTxInv DEF PrepareUpload
<1>2. ASSUME NEW h \in Handler, DeleteFile(h)
      PROVE  ManifestInv'
  BY <1>2, DeleteFileReadInv, DeleteFileWriteInv DEF DeleteFile
<1>3. ASSUME NEW h \in Handler, GetFileRequest(h)
      PROVE  ManifestInv'
  BY <1>3, GetFileReadInv, GetFileChunksInv, GetFileLocationsInv, ReturnInv DEF GetFileRequest
<1>4. ASSUME NEW h \in Handler, HandlerError(h)
      PROVE  ManifestInv'
  BY <1>4, ReturnInv
<1>5. ASSUME CommitUploadRequest
      PROVE  ManifestInv'
  <2>1. PICK s \in SessionID, D \in SUBSET ChunkID :
          \E rm \in [D -> ReplicaLists] : CommitUpload(s, rm)
    BY <1>5 DEF CommitUploadRequest
  <2>2. PICK rm \in [D -> Seq(NodeID \cup {EmptyID})] : CommitUpload(s, rm)
    BY <2>1, ManifestAssumption
  <2> QED
    BY <2>2, CommitUploadInv
<1>6. ASSUME NEW n \in NodeID, NodeHeartbeat(n) \/ NodeTimeout(n)
      PROVE  ManifestInv'
  BY <1>6, NodeStepInv
<1>7. ASSUME NEW c \in ChunkID, NEW n \in NodeID, RepairAdds(c, n)
      PROVE  ManifestInv'
  BY <1>7, RepairAddsInv
<1>8. ASSUME UNCHANGED manifestVars
      PROVE  ManifestInv'
  <2>1. StoreInv /\ HandlerTypeOK /\ HandlerInv /\ StoreTypeOK
    BY InvParts DEF StoreInv
  <2>2. StoreInv' /\ StoreForward
    BY <1>8, <2>1, StoreUnchanged DEF manifestVars
  <2>3. HandlerTypeOK' /\ HandlerInv'
    BY <1>8, <2>1, <2>2, HandlersUnchanged DEF manifestVars
  <2> QED
    BY <2>2, <2>3, InvPartsNext
<1> QED
  BY <1>1, <1>2, <1>3, <1>4, <1>5, <1>6, <1>7, <1>8 DEF ManifestNext

\* The inductive invariant holds in every reachable state.
THEOREM ManifestInvariant == ManifestSpec => []ManifestInv
<1>1. ManifestInit => ManifestInv
  BY InitInv
<1>2. ManifestInv /\ [ManifestNext]_manifestVars => ManifestInv'
  BY NextInv
<1> QED
  BY <1>1, <1>2, PTL DEF ManifestSpec

\* Type correctness of the database, the handlers and the clients.
THEOREM TypeCorrect == ManifestSpec => []TypeOK
<1>1. ManifestInv => TypeOK
  BY DEF ManifestInv
<1> QED
  BY <1>1, ManifestInvariant, PTL

\* Whatever lists clients send, repeated node ids included, a committed file
\* is recorded on ReplicationFactor different nodes, chunk by chunk: the
\* primary key of chunk_locations makes good what CommitUpload does not check.
THEOREM CommittedIsReplicated == ManifestSpec => []CommittedFullyReplicated
<1>1. ManifestInv => CommittedFullyReplicated
  BY DEF ManifestInv
<1> QED
  BY <1>1, ManifestInvariant, PTL

\* No half upload is ever visible in chunk_locations.
THEOREM PendingIsInvisible == ManifestSpec => []UncommittedHasNoLocations
<1>1. ManifestInv => UncommittedHasNoLocations
  BY DEF ManifestInv
<1> QED
  BY <1>1, ManifestInvariant, PTL

\* A session and its file never disagree about the commit.
THEOREM SessionsAgree == ManifestSpec => []SessionFileAgreement
<1>1. ManifestInv => SessionFileAgreement
  BY DEF ManifestInv
<1> QED
  BY <1>1, ManifestInvariant, PTL

\* An acknowledged delete is never undone.
THEOREM DeleteIsFinal == ManifestSpec => []AckedDeleteIsFinal
<1>1. ManifestInv => AckedDeleteIsFinal
  BY DEF ManifestInv
<1> QED
  BY <1>1, ManifestInvariant, PTL

\* The map PrepareUpload hands out stays acceptable to CommitUpload for as
\* long as the file is pending.
THEOREM OfferStaysCommittable == ManifestSpec => []OfferedPlacementCommits
<1>1. ManifestInv => OfferedPlacementCommits
  BY DEF ManifestInv
<1> QED
  BY <1>1, ManifestInvariant, PTL

\* A reply of GetFile, put together from several reads with writers in
\* between, is complete.
THEOREM PlansAreComplete == ManifestSpec => []GetFilePlanComplete
<1>1. ManifestInv => GetFilePlanComplete
  <2> SUFFICES ASSUME ManifestInv, NEW h \in Handler, hpc[h] = "reply"
               PROVE  /\ \A l \in hplan[h] : chunkFile[l[1]] = hfile[h]
                      /\ \A c \in GetChunksByFileID(hfile[h]) :
                           Cardinality({n \in NodeID : <<c, n>> \in hplan[h]})
                             >= ReplicationFactor
    BY DEF GetFilePlanComplete
  <2>1. HandlerOK(h)
    BY DEF ManifestInv, HandlerInv
  <2> QED
    BY <2>1 DEF HandlerOK, PlanNodes
<1> QED
  BY <1>1, ManifestInvariant, PTL

\* One step moves a file only forward and forgets no location and no chunk.
LEMMA StepForward ==
  ManifestInv /\ [ManifestNext]_manifestVars => [ForwardOnly]_manifestVars
<1> SUFFICES ASSUME ManifestInv, ManifestNext
             PROVE  ForwardOnly
  OBVIOUS
<1>1. StoreInv /\ HandlerInv /\ StoreTypeOK
  BY InvParts DEF StoreInv
<1>2. fileStatus \in [FileID -> FileStatus]
  BY <1>1 DEF StoreTypeOK, FileTablesTypeOK
<1>3. ASSUME fileStatus' = fileStatus, chunkFile' = chunkFile,
             chunkLocations \subseteq chunkLocations'
      PROVE  ForwardOnly
  BY <1>3 DEF ForwardOnly
<1>4. ASSUME NEW h \in Handler, PrepareUpload(h)
      PROVE  ForwardOnly
  <2>1. CASE PrepareUploadRead(h)
    BY <1>3, <2>1 DEF PrepareUploadRead, storeVars, fileTables
  <2>2. ASSUME NEW f \in FileID, NEW s \in SessionID, NEW cs \in SUBSET ChunkID,
               NEW size \in FileSizes, PrepareUploadTx(h, f, s, cs, size)
        PROVE  ForwardOnly
    <3>1. /\ fileStatus[f] = "none" /\ fileStatus' = [fileStatus EXCEPT ![f] = "pending"]
          /\ \A c \in cs : chunkFile[c] = NoFile
          /\ chunkFile' = [c \in ChunkID |-> IF c \in cs THEN f ELSE chunkFile[c]]
          /\ chunkLocations' = chunkLocations
      BY <2>2 DEF PrepareUploadTx, CreateFile, InsertChunks
    <3> QED
      BY <1>2, <3>1 DEF ForwardOnly
  <2> QED
    BY <1>4, <2>1, <2>2 DEF PrepareUpload
<1>5. ASSUME NEW h \in Handler, DeleteFile(h)
      PROVE  ForwardOnly
  <2>1. ASSUME NEW f \in FileID, DeleteFileRead(h, f)
        PROVE  ForwardOnly
    BY <1>3, <2>1 DEF DeleteFileRead, storeVars, fileTables
  <2>2. CASE DeleteFileWrite(h)
    <3>1. hfile[h] \in FileID /\ fileStatus[hfile[h]] # "none"
      BY <1>1, <2>2 DEF HandlerInv, HandlerOK, DeleteFileWrite
    <3>2. /\ fileStatus' = [fileStatus EXCEPT ![hfile[h]] = "deleted"]
          /\ chunkFile' = chunkFile /\ chunkLocations' = chunkLocations
      BY <1>2, <2>2, <3>1 DEF DeleteFileWrite, UpdateFileStatus
    <3>3. \A f \in FileID : fileStatus'[f] # fileStatus[f] =>
            fileStatus'[f] = "deleted" /\ fileStatus[f] \in {"pending", "committed"}
      BY <1>2, <3>1, <3>2 DEF FileStatus
    <3> QED
      BY <3>2, <3>3 DEF ForwardOnly
  <2> QED
    BY <1>5, <2>1, <2>2 DEF DeleteFile
<1>6. ASSUME NEW h \in Handler, GetFileRequest(h) \/ HandlerError(h)
      PROVE  ForwardOnly
  BY <1>3, <1>6 DEF GetFileRequest, GetFileRead, GetFileChunks, GetFileLocations,
                    GetFileReply, HandlerError, storeVars, fileTables
<1>7. ASSUME NEW s \in SessionID, NEW rm, CommitUpload(s, rm)
      PROVE  ForwardOnly
  <2>1. fileStatus[sessionFile[s]] = "pending" /\ sessionStatus[s] = "preparing"
    BY <1>7 DEF CommitUpload, CommitValid, GetUploadSession, GetFile
  <2>2. sessionFile[s] \in FileID
    BY <1>1, <2>1 DEF StoreInv, ForeignKeys, StoreTypeOK
  <2>3. /\ fileStatus' = [fileStatus EXCEPT ![sessionFile[s]] = "committed"]
        /\ chunkFile' = chunkFile /\ chunkLocations \subseteq chunkLocations'
    BY <1>2, <1>7, <2>1, <2>2 DEF CommitUpload, UpdateFileStatus, InsertChunkLocations
  <2> QED
    BY <1>2, <2>1, <2>2, <2>3 DEF ForwardOnly
<1>8. ASSUME NEW n \in NodeID, NodeHeartbeat(n) \/ NodeTimeout(n)
      PROVE  ForwardOnly
  BY <1>3, <1>8 DEF NodeHeartbeat, NodeTimeout, fileTables
<1>9. ASSUME NEW c \in ChunkID, NEW n \in NodeID, RepairAdds(c, n)
      PROVE  ForwardOnly
  BY <1>3, <1>9 DEF RepairAdds, RepairRecords, AddChunkLocation, fileTables
<1> QED
  BY <1>4, <1>5, <1>6, <1>7, <1>8, <1>9 DEF ManifestNext, CommitUploadRequest

\* A file is never un-deleted, un-committed or re-created, and a location once
\* recorded is never lost, by any step of any handler.
THEOREM Lifecycle == ManifestSpec => LifecycleForward
<1>1. ManifestInv /\ [ManifestNext]_manifestVars => [ForwardOnly]_manifestVars
  BY StepForward
<1> QED
  BY <1>1, ManifestInvariant, PTL DEF ManifestSpec, LifecycleForward

\* A committed session stays committed: only CommitUpload and PrepareUpload
\* write sessions, and neither touches one that is committed.
LEMMA SessionsStayCommitted ==
  ManifestInv /\ [ManifestNext]_manifestVars =>
    \A s \in SessionID : sessionStatus[s] = "committed" => sessionStatus'[s] = "committed"
<1> SUFFICES ASSUME ManifestInv, [ManifestNext]_manifestVars, NEW s \in SessionID,
                    sessionStatus[s] = "committed"
             PROVE  sessionStatus'[s] = "committed"
  OBVIOUS
<1>1. sessionStatus \in [SessionID -> SessionStatus]
  BY DEF ManifestInv, TypeOK, StoreTypeOK
<1>2. ASSUME NEW h \in Handler, NEW f \in FileID, NEW t \in SessionID, NEW cs, NEW size,
             PrepareUploadTx(h, f, t, cs, size)
      PROVE  sessionStatus'[s] = "committed"
  BY <1>1, <1>2 DEF PrepareUploadTx, CreateUploadSession
<1>3. ASSUME NEW t \in SessionID, NEW rm, CommitUpload(t, rm)
      PROVE  sessionStatus'[s] = "committed"
  BY <1>1, <1>3 DEF CommitUpload, UpdateUploadSessionStatus
<1>4. ASSUME UNCHANGED sessionStatus
      PROVE  sessionStatus'[s] = "committed"
  BY <1>4
<1>5. ASSUME NEW h \in Handler,
             DeleteFile(h) \/ GetFileRequest(h) \/ HandlerError(h) \/ PrepareUploadRead(h)
      PROVE  UNCHANGED sessionStatus
  BY <1>5 DEF DeleteFile, DeleteFileRead, DeleteFileWrite, GetFileRequest, GetFileRead,
              GetFileChunks, GetFileLocations, GetFileReply, HandlerError, PrepareUploadRead,
              storeVars, fileTables
<1>6. ASSUME NEW c \in ChunkID, NEW n \in NodeID, RepairAdds(c, n)
      PROVE  UNCHANGED sessionStatus
  BY <1>6 DEF RepairAdds, fileTables
<1>7. ASSUME NEW n \in NodeID, NodeHeartbeat(n) \/ NodeTimeout(n)
      PROVE  UNCHANGED sessionStatus
  BY <1>7 DEF NodeHeartbeat, NodeTimeout, fileTables
<1>8. CASE UNCHANGED manifestVars
  BY <1>4, <1>8 DEF manifestVars, storeVars, fileTables
<1> QED
  BY <1>2, <1>3, <1>4, <1>5, <1>6, <1>7, <1>8 DEF ManifestNext, PrepareUpload, CommitUploadRequest

-----------------------------------------------------------------------------
(* What the scanner of module Repair relies on *)

\* A chunk of a file that was committed stays in that file, the file stays past
\* its upload, and its locations change by a repair only.
SettledChunksStay ==
  \A c \in ChunkID :
    chunkFile[c] \in FileID /\ fileStatus[chunkFile[c]] \in {"committed", "deleted"} =>
      /\ chunkFile'[c] = chunkFile[c]
      /\ fileStatus'[chunkFile[c]] \in {"committed", "deleted"}
      /\ GetChunkLocations(c)' = GetChunkLocations(c) \/ \E n \in NodeID : RepairAdds(c, n)

\* The locations of a chunk that is not pending survive every step but a repair
\* of that very chunk: a commit writes rows of its own, pending, file.
LEMMA LocationsStep ==
  ASSUME ManifestInv, [ManifestNext]_manifestVars, NEW c \in ChunkID,
         chunkFile[c] \in FileID, fileStatus[chunkFile[c]] # "pending"
  PROVE  GetChunkLocations(c)' = GetChunkLocations(c) \/ \E n \in NodeID : RepairAdds(c, n)
<1>1. ASSUME UNCHANGED chunkLocations
      PROVE  GetChunkLocations(c)' = GetChunkLocations(c)
  BY <1>1 DEF GetChunkLocations
<1>2. ASSUME NEW s \in SessionID, NEW D \in SUBSET ChunkID, NEW rm \in [D -> ReplicaLists],
             CommitUpload(s, rm)
      PROVE  GetChunkLocations(c)' = GetChunkLocations(c)
  <2>1. fileStatus[sessionFile[s]] = "pending" /\ DOMAIN rm \subseteq GetChunksByFileID(sessionFile[s])
    BY <1>2 DEF CommitUpload, CommitValid, GetFile
  <2>2. c \notin DOMAIN rm
    BY <2>1 DEF GetChunksByFileID
  <2>3. \A n : <<c, n>> \notin RowsOf(rm)
    BY <2>2 DEF RowsOf
  <2>4. chunkLocations' = chunkLocations \cup RowsOf(rm)
    BY <1>2 DEF CommitUpload, InsertChunkLocations
  <2> QED
    BY <2>3, <2>4 DEF GetChunkLocations
<1>3. ASSUME NEW d \in ChunkID, NEW n \in NodeID, RepairAdds(d, n)
      PROVE  GetChunkLocations(c)' = GetChunkLocations(c) \/ \E m \in NodeID : RepairAdds(c, m)
  <2>1. CASE d = c
    BY <1>3, <2>1
  <2>2. CASE d # c
    BY <1>3, <2>2 DEF RepairAdds, RepairRecords, AddChunkLocation, GetChunkLocations
  <2> QED
    BY <2>1, <2>2
<1>4. ASSUME NEW h \in Handler,
             PrepareUpload(h) \/ DeleteFile(h) \/ GetFileRequest(h) \/ HandlerError(h)
      PROVE  UNCHANGED chunkLocations
  BY <1>4 DEF PrepareUpload, PrepareUploadRead, PrepareUploadTx, DeleteFile, DeleteFileRead,
              DeleteFileWrite, GetFileRequest, GetFileRead, GetFileChunks, GetFileLocations,
              GetFileReply, HandlerError, storeVars
<1>5. ASSUME NEW n \in NodeID, NodeHeartbeat(n) \/ NodeTimeout(n)
      PROVE  UNCHANGED chunkLocations
  BY <1>5 DEF NodeHeartbeat, NodeTimeout
<1>6. CASE UNCHANGED manifestVars
  BY <1>1, <1>6 DEF manifestVars, storeVars
<1> QED
  BY <1>1, <1>2, <1>3, <1>4, <1>5, <1>6 DEF ManifestNext, CommitUploadRequest

\* What the repair scanner read of a chunk of a committed file stays true under
\* every upload, commit, retry and delete until the scanner itself writes; no
\* lock or transaction keeps it so.
THEOREM SettledChunks == ManifestSpec => [][SettledChunksStay]_manifestVars
<1>1. ManifestInv /\ [ManifestNext]_manifestVars => [SettledChunksStay]_manifestVars
  <2> SUFFICES ASSUME ManifestInv, [ManifestNext]_manifestVars,
                      ~ UNCHANGED manifestVars, NEW c \in ChunkID, chunkFile[c] \in FileID,
                      fileStatus[chunkFile[c]] \in {"committed", "deleted"}
               PROVE  /\ chunkFile'[c] = chunkFile[c]
                      /\ fileStatus'[chunkFile[c]] \in {"committed", "deleted"}
                      /\ \/ GetChunkLocations(c)' = GetChunkLocations(c)
                         \/ \E n \in NodeID : RepairAdds(c, n)
    BY DEF SettledChunksStay
  <2>1. ForwardOnly
    BY StepForward
  <2>2. chunkFile[c] # NoFile
    BY FileTablesAssumption
  <2>3. /\ chunkFile'[c] = chunkFile[c]
        /\ fileStatus'[chunkFile[c]] \in {"committed", "deleted"}
    BY <2>1, <2>2 DEF ForwardOnly
  <2> QED
    BY <2>3, LocationsStep
<1> QED
  BY <1>1, ManifestInvariant, PTL DEF ManifestSpec
-----------------------------------------------------------------------------
(* Manifest implements FileService *)

\* The state of the service, with what ManifestInv knows of the answers.
State == [f \in FileID |-> ServiceState(fileStatus[f])]
Reading == [h \in Handler |-> IF IsReading(h) THEN hfile[h] ELSE NoFile]
Answer == [h \in Handler |-> IF hpc[h] = "reply" THEN "whole" ELSE "none"]

\* A plan that is about to be sent is whole.
LEMMA WholeAnswer ==
  ASSUME ManifestInv, NEW h \in Handler, hpc[h] = "reply"
  PROVE  WholePlan(h)
<1>1. HandlerOK(h)
  BY DEF ManifestInv, HandlerInv
<1> QED
  BY <1>1 DEF HandlerOK, WholePlan

\* So the answers of the mapping are never torn.
LEMMA AnswerMapping ==
  ASSUME ManifestInv
  PROVE  Answer = [h \in Handler |-> ServiceReply(h)]
BY WholeAnswer DEF Answer, ServiceReply

\* The same of the state after a step.
LEMMA AnswerMappingNext ==
  ASSUME ManifestInv'
  PROVE  Answer' = [h \in Handler |-> ServiceReply(h)']
<1>1. \A h \in Handler : HandlerOK(h)'
  BY DEF ManifestInv, HandlerInv
<1>2. \A h \in Handler : hpc'[h] = "reply" => WholePlan(h)'
  BY <1>1 DEF HandlerOK, WholePlan
<1> QED
  BY <1>2 DEF Answer, ServiceReply

\* What makes a step of Manifest a step of the service.
LEMMA StepMapping ==
  ASSUME ManifestInv, ManifestInv'
  PROVE  /\ UNCHANGED <<State, Reading, Answer>> => UNCHANGED FS!serviceVars
         /\ \A f \in FileID :
              /\ UNCHANGED <<Reading, Answer>>
              /\ \/ State[f] = "absent" /\ State' = [State EXCEPT ![f] = "uploading"]
                 \/ State[f] = "uploading" /\ State' = [State EXCEPT ![f] = "published"]
                 \/ /\ State[f] \in {"uploading", "published"}
                    /\ State' = [State EXCEPT ![f] = "removed"]
              => FS!ServiceNext
         /\ \A h \in Handler, f \in FileID :
              /\ Reading[h] = NoFile /\ State[f] = "published"
              /\ Reading' = [Reading EXCEPT ![h] = f]
              /\ UNCHANGED <<State, Answer>>
              => FS!ServiceNext
         /\ \A h \in Handler :
              /\ Reading[h] # NoFile
              /\ \/ Answer' = [Answer EXCEPT ![h] = "whole"] /\ UNCHANGED Reading
                 \/ /\ Answer' = [Answer EXCEPT ![h] = "none"]
                    /\ Reading' = [Reading EXCEPT ![h] = NoFile]
              /\ UNCHANGED State
              => FS!ServiceNext
<1>1. Answer = [h \in Handler |-> ServiceReply(h)]
  BY AnswerMapping
<1>2. Answer' = [h \in Handler |-> ServiceReply(h)']
  BY AnswerMappingNext
<1> QED
  BY <1>1, <1>2 DEF State, Reading, FS!serviceVars, FS!ServiceNext, FS!Create, FS!Publish,
       FS!Remove, FS!Move, FS!BeginRead, FS!Assemble, FS!EndRead

-----------------------------------------------------------------------------
(* The actions *)

\* A step that changes neither a file nor what a handler reads is invisible.
LEMMA Invisible ==
  ASSUME ManifestInv, ManifestInv', fileStatus' = fileStatus,
         \A h \in Handler :
           /\ IsReading(h)' <=> IsReading(h)
           /\ hpc'[h] = "reply" <=> hpc[h] = "reply"
           /\ IsReading(h) => hfile'[h] = hfile[h]
  PROVE  UNCHANGED FS!serviceVars
<1>1. State' = State
  BY DEF State
<1>2. Reading' = Reading
  BY DEF Reading
<1>3. Answer' = Answer
  BY DEF Answer
<1> QED
  BY <1>1, <1>2, <1>3, StepMapping

\* A handler that is not reading ends, or begins something else.
LEMMA NoReader ==
  ASSUME ManifestInv, NEW h \in Handler, ~IsReading(h),
         NEW pc \in {"idle", "prepare", "delete"}, hpc' = [hpc EXCEPT ![h] = pc],
         NEW x, hfile' = [hfile EXCEPT ![h] = x] \/ hfile' = hfile
  PROVE  /\ Reading' = Reading /\ Answer' = Answer
         /\ \A g \in Handler :
              /\ IsReading(g)' <=> IsReading(g)
              /\ hpc'[g] = "reply" <=> hpc[g] = "reply"
              /\ IsReading(g) => hfile'[g] = hfile[g]
<1>1. hpc \in [Handler -> HandlerPC] /\ hfile \in [Handler -> FileID \cup {NoFile}]
  BY DEF ManifestInv, TypeOK
<1>2. \A g \in Handler :
        /\ IsReading(g)' <=> IsReading(g)
        /\ hpc'[g] = "reply" <=> hpc[g] = "reply"
        /\ IsReading(g) => hfile'[g] = hfile[g]
  BY <1>1 DEF IsReading
<1> QED
  BY <1>2 DEF Reading, Answer

\* A file moves to its next state.
LEMMA FileMoves ==
  ASSUME ManifestInv, ManifestInv', NEW f \in FileID, NEW status,
         fileStatus' = [fileStatus EXCEPT ![f] = status],
         \/ fileStatus[f] = "none" /\ status = "pending"
         \/ fileStatus[f] = "pending" /\ status = "committed"
         \/ fileStatus[f] \in {"pending", "committed"} /\ status = "deleted",
         Reading' = Reading, Answer' = Answer
  PROVE  FS!ServiceNext
<1>1. fileStatus \in [FileID -> FileStatus]
  BY DEF ManifestInv, TypeOK, StoreTypeOK, FileTablesTypeOK
<1>2. State' = [State EXCEPT ![f] = ServiceState(status)]
  BY <1>1 DEF State
<1>3. State[f] = ServiceState(fileStatus[f])
  BY DEF State
<1>4. /\ ServiceState("none") = "absent" /\ ServiceState("pending") = "uploading"
      /\ ServiceState("committed") = "published" /\ ServiceState("deleted") = "removed"
  BY DEF ServiceState
<1> QED
  BY <1>2, <1>3, <1>4, StepMapping

\* PrepareUpload creates the file, its read of the nodes is invisible.
LEMMA PrepareRefines ==
  ASSUME ManifestInv, ManifestInv', NEW h \in Handler, PrepareUpload(h)
  PROVE  [FS!ServiceNext]_FS!serviceVars
<1>1. CASE PrepareUploadRead(h)
  <2>1. hpc[h] = "idle" /\ hpc' = [hpc EXCEPT ![h] = "prepare"]
        /\ hfile' = hfile /\ fileStatus' = fileStatus
    BY <1>1 DEF PrepareUploadRead, storeVars, fileTables
  <2> QED
    BY <2>1, NoReader, Invisible DEF IsReading
<1>2. ASSUME NEW f \in FileID, NEW s \in SessionID, NEW cs \in SUBSET ChunkID,
             NEW size \in FileSizes, PrepareUploadTx(h, f, s, cs, size)
      PROVE  FS!ServiceNext
  <2>1. /\ fileStatus[f] = "none" /\ fileStatus' = [fileStatus EXCEPT ![f] = "pending"]
        /\ hpc[h] = "prepare" /\ hpc' = [hpc EXCEPT ![h] = "idle"]
        /\ hfile' = [hfile EXCEPT ![h] = NoFile]
    BY <1>2 DEF PrepareUploadTx, CreateFile, Return
  <2>2. Reading' = Reading /\ Answer' = Answer
    BY <2>1, NoReader DEF IsReading
  <2> QED
    BY <2>1, <2>2, FileMoves
<1> QED
  BY <1>1, <1>2 DEF PrepareUpload

\* CommitUpload publishes the file.
LEMMA CommitRefines ==
  ASSUME ManifestInv, ManifestInv', NEW s \in SessionID, NEW rm, CommitUpload(s, rm)
  PROVE  FS!ServiceNext
<1>1. StoreInv /\ StoreTypeOK
  BY InvParts DEF StoreInv
<1>2. fileStatus[sessionFile[s]] = "pending" /\ sessionStatus[s] = "preparing"
  BY DEF CommitUpload, CommitValid, GetUploadSession, GetFile
<1>3. sessionFile[s] \in FileID
  BY <1>1, <1>2 DEF StoreInv, ForeignKeys, StoreTypeOK
<1>4. fileStatus' = [fileStatus EXCEPT ![sessionFile[s]] = "committed"]
      /\ hpc' = hpc /\ hfile' = hfile
  BY <1>1, <1>2, <1>3 DEF CommitUpload, UpdateFileStatus, handlerVars, StoreTypeOK, FileTablesTypeOK
<1>5. Reading' = Reading /\ Answer' = Answer
  BY <1>4 DEF Reading, Answer, IsReading
<1> QED
  BY <1>2, <1>3, <1>4, <1>5, FileMoves

\* DeleteFile removes the file, or finds it removed.
LEMMA DeleteRefines ==
  ASSUME ManifestInv, ManifestInv', NEW h \in Handler, DeleteFile(h)
  PROVE  [FS!ServiceNext]_FS!serviceVars
<1>1. fileStatus \in [FileID -> FileStatus] /\ HandlerOK(h)
  BY DEF ManifestInv, TypeOK, StoreTypeOK, FileTablesTypeOK, HandlerInv
<1>2. ASSUME NEW f \in FileID, DeleteFileRead(h, f)
      PROVE  UNCHANGED FS!serviceVars
  <2>1. hpc[h] = "idle" /\ hpc' = [hpc EXCEPT ![h] = "delete"]
        /\ hfile' = [hfile EXCEPT ![h] = f] /\ fileStatus' = fileStatus
    BY <1>2 DEF DeleteFileRead, storeVars, fileTables
  <2> QED
    BY <2>1, NoReader, Invisible DEF IsReading
<1>3. CASE DeleteFileWrite(h)
  <2>1. hfile[h] \in FileID /\ fileStatus[hfile[h]] # "none"
    BY <1>1, <1>3 DEF HandlerOK, DeleteFileWrite
  <2>2. /\ fileStatus' = [fileStatus EXCEPT ![hfile[h]] = "deleted"]
        /\ hpc[h] = "delete" /\ hpc' = [hpc EXCEPT ![h] = "idle"]
        /\ hfile' = [hfile EXCEPT ![h] = NoFile]
    BY <1>1, <1>3, <2>1 DEF DeleteFileWrite, UpdateFileStatus, Return
  <2>3. CASE fileStatus[hfile[h]] = "deleted"
    <3>1. fileStatus' = fileStatus
      BY <1>1, <2>1, <2>2, <2>3
    <3> QED
      BY <2>2, <3>1, NoReader, Invisible DEF IsReading
  <2>4. CASE fileStatus[hfile[h]] # "deleted"
    <3>1. Reading' = Reading /\ Answer' = Answer
      BY <2>2, NoReader DEF IsReading
    <3>2. fileStatus[hfile[h]] \in {"pending", "committed"}
      BY <1>1, <2>1, <2>4 DEF FileStatus
    <3> QED
      BY <2>1, <2>2, <3>1, <3>2, FileMoves
  <2> QED
    BY <2>3, <2>4
<1> QED
  BY <1>2, <1>3 DEF DeleteFile

\* A handler that returns ends its read, if it had one.
LEMMA ReturnRefines ==
  ASSUME ManifestInv, ManifestInv', NEW h \in Handler, Return(h), fileStatus' = fileStatus
  PROVE  [FS!ServiceNext]_FS!serviceVars
<1>1. /\ hpc \in [Handler -> HandlerPC] /\ hfile \in [Handler -> FileID \cup {NoFile}]
      /\ HandlerOK(h)
  BY DEF ManifestInv, TypeOK, HandlerInv
<1>2. hpc' = [hpc EXCEPT ![h] = "idle"] /\ hfile' = [hfile EXCEPT ![h] = NoFile]
  BY DEF Return
<1>3. CASE ~IsReading(h)
  BY <1>2, <1>3, NoReader, Invisible
<1>4. CASE IsReading(h)
  <2>1. Reading[h] # NoFile
    BY <1>1, <1>4, FileTablesAssumption DEF Reading, IsReading, HandlerOK
  <2>2. Reading' = [Reading EXCEPT ![h] = NoFile]
    BY <1>1, <1>2 DEF Reading, IsReading
  <2>3. Answer' = [Answer EXCEPT ![h] = "none"]
    BY <1>1, <1>2 DEF Answer
  <2>4. State' = State
    BY DEF State
  <2> QED
    BY <2>1, <2>2, <2>3, <2>4, StepMapping
<1> QED
  BY <1>3, <1>4

\* GetFile begins a read, assembles a whole answer and sends it.
LEMMA GetFileRefines ==
  ASSUME ManifestInv, ManifestInv', NEW h \in Handler, GetFileRequest(h)
  PROVE  [FS!ServiceNext]_FS!serviceVars
<1>1. /\ hpc \in [Handler -> HandlerPC] /\ hfile \in [Handler -> FileID \cup {NoFile}]
      /\ HandlerOK(h)
  BY DEF ManifestInv, TypeOK, HandlerInv
<1>2. ASSUME NEW f \in FileID, GetFileRead(h, f)
      PROVE  FS!ServiceNext
  <2>1. /\ hpc[h] = "idle" /\ fileStatus[f] = "committed"
        /\ hpc' = [hpc EXCEPT ![h] = "chunks"]
        /\ hfile' = [hfile EXCEPT ![h] = f] /\ fileStatus' = fileStatus
    BY <1>2 DEF GetFileRead, GetFile, storeVars, fileTables
  <2>2. Reading[h] = NoFile /\ State[f] = "published"
    BY <2>1 DEF Reading, IsReading, State, ServiceState
  <2>3. Reading' = [Reading EXCEPT ![h] = f]
    BY <1>1, <2>1 DEF Reading, IsReading
  <2>4. State' = State /\ Answer' = Answer
    BY <1>1, <2>1 DEF State, Answer
  <2> QED
    BY <2>2, <2>3, <2>4, StepMapping
<1>3. CASE GetFileChunks(h)
  <2>1. hpc[h] = "chunks" /\ hpc' = [hpc EXCEPT ![h] = "locations"]
        /\ hfile' = hfile /\ fileStatus' = fileStatus
    BY <1>3 DEF GetFileChunks, storeVars, fileTables
  <2> QED
    BY <1>1, <2>1, Invisible DEF IsReading
<1>4. ASSUME NEW c \in ChunkID, GetFileLocations(h, c)
      PROVE  [FS!ServiceNext]_FS!serviceVars
  <2>1. PICK pc \in {"locations", "reply"} :
          /\ hpc[h] = "locations" /\ hpc' = [hpc EXCEPT ![h] = pc]
          /\ hfile' = hfile /\ fileStatus' = fileStatus
    BY <1>4 DEF GetFileLocations, storeVars, fileTables
  <2>2. CASE pc = "locations"
    BY <1>1, <2>1, <2>2, Invisible DEF IsReading
  <2>3. CASE pc = "reply"
    <3>1. Reading[h] # NoFile
      BY <1>1, <2>1, FileTablesAssumption DEF Reading, IsReading, HandlerOK
    <3>2. Reading' = Reading /\ State' = State
      BY <1>1, <2>1, <2>3 DEF Reading, IsReading, State
    <3>3. Answer' = [Answer EXCEPT ![h] = "whole"]
      BY <1>1, <2>1, <2>3 DEF Answer
    <3> QED
      BY <3>1, <3>2, <3>3, StepMapping
  <2> QED
    BY <2>2, <2>3
<1>5. CASE GetFileReply(h)
  BY <1>5, ReturnRefines DEF GetFileReply, storeVars, fileTables
<1> QED
  BY <1>2, <1>3, <1>4, <1>5 DEF GetFileRequest

\* Heartbeats, timeouts, repairs and stuttering are invisible.
LEMMA OthersRefine ==
  ASSUME ManifestInv, ManifestInv', fileStatus' = fileStatus,
         hpc' = hpc, hfile' = hfile
  PROVE  UNCHANGED FS!serviceVars
BY Invisible DEF IsReading

-----------------------------------------------------------------------------
(* The theorem *)

\* Every step of Manifest is a step of the service or invisible.
LEMMA NextRefines ==
  ManifestInv /\ ManifestInv' /\ [ManifestNext]_manifestVars
    => [FS!ServiceNext]_FS!serviceVars
<1> SUFFICES ASSUME ManifestInv, ManifestInv', [ManifestNext]_manifestVars
             PROVE  [FS!ServiceNext]_FS!serviceVars
  OBVIOUS
<1>1. ASSUME NEW h \in Handler, HandlerError(h)
      PROVE  [FS!ServiceNext]_FS!serviceVars
  BY <1>1, ReturnRefines DEF HandlerError, storeVars, fileTables
<1>2. ASSUME CommitUploadRequest
      PROVE  FS!ServiceNext
  BY <1>2, CommitRefines DEF CommitUploadRequest
<1>3. ASSUME NEW n \in NodeID, NodeHeartbeat(n) \/ NodeTimeout(n)
      PROVE  UNCHANGED FS!serviceVars
  BY <1>3, OthersRefine DEF NodeHeartbeat, NodeTimeout, fileTables, handlerVars
<1>4. ASSUME NEW c \in ChunkID, NEW n \in NodeID, RepairAdds(c, n)
      PROVE  UNCHANGED FS!serviceVars
  BY <1>4, OthersRefine DEF RepairAdds, fileTables, handlerVars
<1>5. CASE UNCHANGED manifestVars
  BY <1>5, OthersRefine DEF manifestVars, storeVars, fileTables, handlerVars
<1> QED
  BY <1>1, <1>2, <1>3, <1>4, <1>5, PrepareRefines, DeleteRefines, GetFileRefines
     DEF ManifestNext

\* An empty database is a service without files.
LEMMA InitRefines == ManifestInit => FS!ServiceInit
<1> SUFFICES ASSUME ManifestInit
             PROVE  FS!ServiceInit
  OBVIOUS
<1>1. \A f \in FileID : ServiceState(fileStatus[f]) = "absent"
  BY DEF ManifestInit, StoreInit, ServiceState
<1>2. \A h \in Handler : ~IsReading(h) /\ ServiceReply(h) = "none"
  BY DEF ManifestInit, IsReading, ServiceReply
<1> QED
  BY <1>1, <1>2 DEF FS!ServiceInit

\* metad keeps the promises of FileService for any number of clients, files,
\* chunks and nodes.
THEOREM Refinement == ManifestSpec => ImplementsFileService
<1>1. ManifestInit => FS!ServiceInit
  BY InitRefines
<1>2. ManifestInv /\ ManifestInv' /\ [ManifestNext]_manifestVars
        => [FS!ServiceNext]_FS!serviceVars
  BY NextRefines
<1> QED
  BY <1>1, <1>2, ManifestInvariant, PTL DEF ManifestSpec, ImplementsFileService, FS!ServiceSpec

=============================================================================
