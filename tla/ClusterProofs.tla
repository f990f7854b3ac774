--------------------------- MODULE ClusterProofs ---------------------------
(***************************************************************************)
(* What the parts of the system promise together, for any number of files, *)
(* sessions, chunks, nodes, stops, handlers and uploads.  The metadata     *)
(* service keeps ManifestInv although its clients and nodes are now part   *)
(* of the model; what is recorded, what was acknowledged, what the scanner *)
(* copied and what a reader was told are all on the disks (HeldInv,        *)
(* PlansRecorded).  The refinement of FileService carries over from        *)
(* ManifestProofs: what Cluster adds is invisible to it.                   *)
(***************************************************************************)
EXTENDS Cluster, ManifestProofs

-----------------------------------------------------------------------------
(* Cluster *)

\* The disks hold whatever anybody relies on.
HeldInv ==
  /\ held \subseteq ChunkID \X NodeID
  /\ chunkLocations \subseteq held
  /\ acked \subseteq held
  /\ copied \subseteq held

\* What a reader was told is recorded.
PlansRecorded == \A h \in Handler : hplan[h] \subseteq chunkLocations

\* An offer names registered nodes in a list.
OfferedLists ==
  \A s \in SessionID : \E D \in SUBSET ChunkID : offered[s] \in [D -> Seq(NodeID)]

NodesOK ==
  /\ node \in [NodeID -> {"off", "registered", "serving"}]
  /\ stops \in 0..MaxStops

\* The inductive invariant.
ClusterInv == ManifestInv /\ HeldInv /\ PlansRecorded /\ OfferedLists /\ NodesOK

-----------------------------------------------------------------------------
(* Steps of metad *)

\* A step that touches neither plans nor offers keeps what is said of them.
LEMMA PlansUnchanged ==
  ASSUME PlansRecorded, OfferedLists, hplan' = hplan, offered' = offered,
         chunkLocations \subseteq chunkLocations'
  PROVE  PlansRecorded' /\ OfferedLists'
BY DEF PlansRecorded, OfferedLists

\* PrepareUpload offers lists of nodes that are registered.
LEMMA PrepareOffers ==
  ASSUME ManifestInv, OfferedLists, PlansRecorded, NEW h \in Handler,
         NEW f \in FileID, NEW s \in SessionID, NEW cs \in SUBSET ChunkID,
         NEW size \in FileSizes, PrepareUploadTx(h, f, s, cs, size)
  PROVE  PlansRecorded' /\ OfferedLists' /\ chunkLocations' = chunkLocations
<1>1. PICK rm \in SelectReplicas(cs, hnodes[h]) : offered' = [offered EXCEPT ![s] = rm]
  BY DEF PrepareUploadTx
<1>2. DOMAIN offered = SessionID /\ hnodes[h] \subseteq NodeID
      /\ hplan \in [Handler -> SUBSET (ChunkID \X NodeID)]
  BY DEF ManifestInv, TypeOK
<1>3. rm \in [cs -> Seq(NodeID)]
  <2>1. rm \in [cs -> {list \in [1..ReplicationFactor -> hnodes[h]] : Injective(list)}]
    BY DEF SelectReplicas
  <2>2. \A c \in cs : rm[c] \in Seq(hnodes[h])
    BY SelectReplicasSound
  <2>3. \A c \in cs : rm[c] \in Seq(NodeID)
    BY <1>2, <2>2
  <2> QED
    BY <2>1, <2>3
<1>4. OfferedLists'
  <2> SUFFICES ASSUME NEW t \in SessionID
               PROVE  \E D \in SUBSET ChunkID : offered'[t] \in [D -> Seq(NodeID)]
    BY DEF OfferedLists
  <2>1. CASE t = s
    BY <1>1, <1>2, <1>3, <2>1
  <2>2. CASE t # s
    BY <1>1, <1>2, <2>2 DEF OfferedLists
  <2> QED
    BY <2>1, <2>2
<1>5. hplan' = [hplan EXCEPT ![h] = {}] /\ chunkLocations' = chunkLocations
  BY DEF PrepareUploadTx, Return
<1>6. PlansRecorded'
  BY <1>2, <1>5 DEF PlansRecorded
<1> QED
  BY <1>4, <1>5, <1>6

\* No request of a client but CommitUpload writes a location, and the plan of
\* GetFile is made of recorded ones.
LEMMA HandlerStep ==
  ASSUME ManifestInv, PlansRecorded, OfferedLists, NEW h \in Handler,
         PrepareUpload(h) \/ DeleteFile(h) \/ GetFileRequest(h) \/ HandlerError(h)
  PROVE  PlansRecorded' /\ OfferedLists' /\ chunkLocations' = chunkLocations
<1>1. hplan \in [Handler -> SUBSET (ChunkID \X NodeID)]
  BY DEF ManifestInv, TypeOK
<1>2. ASSUME hplan' = [hplan EXCEPT ![h] = {}], offered' = offered,
             chunkLocations' = chunkLocations
      PROVE  PlansRecorded' /\ OfferedLists'
  BY <1>1, <1>2 DEF PlansRecorded, OfferedLists
<1>3. CASE PrepareUpload(h)
  <2>1. CASE PrepareUploadRead(h)
    BY <2>1, PlansUnchanged DEF PrepareUploadRead, storeVars, clientVars
  <2> QED
    BY <1>3, <2>1, PrepareOffers DEF PrepareUpload
<1>4. CASE DeleteFile(h)
  <2>1. ASSUME NEW f \in FileID, DeleteFileRead(h, f)
        PROVE  PlansRecorded' /\ OfferedLists' /\ chunkLocations' = chunkLocations
    BY <2>1, PlansUnchanged DEF DeleteFileRead, storeVars, clientVars
  <2>2. CASE DeleteFileWrite(h)
    BY <1>2, <2>2 DEF DeleteFileWrite, Return
  <2> QED
    BY <1>4, <2>1, <2>2 DEF DeleteFile
<1>5. CASE GetFileRequest(h)
  <2>1. ASSUME NEW f \in FileID, GetFileRead(h, f)
        PROVE  PlansRecorded' /\ OfferedLists' /\ chunkLocations' = chunkLocations
    BY <2>1, PlansUnchanged DEF GetFileRead, storeVars, clientVars
  <2>2. CASE GetFileChunks(h)
    BY <2>2, PlansUnchanged DEF GetFileChunks, storeVars, clientVars
  <2>3. ASSUME NEW c \in ChunkID, GetFileLocations(h, c)
        PROVE  PlansRecorded' /\ OfferedLists' /\ chunkLocations' = chunkLocations
    <3>1. /\ hplan' = [hplan EXCEPT ![h] = @ \cup ({c} \X GetChunkLocations(c))]
          /\ offered' = offered /\ chunkLocations' = chunkLocations
      BY <2>3 DEF GetFileLocations, storeVars, clientVars
    <3>2. {c} \X GetChunkLocations(c) \subseteq chunkLocations
      BY DEF GetChunkLocations
    <3>3. PlansRecorded'
      BY <1>1, <3>1, <3>2 DEF PlansRecorded
    <3> QED
      BY <3>1, <3>3 DEF OfferedLists
  <2>4. CASE GetFileReply(h)
    BY <1>2, <2>4 DEF GetFileReply, Return, storeVars, clientVars
  <2> QED
    BY <1>5, <2>1, <2>2, <2>3, <2>4 DEF GetFileRequest
<1>6. CASE HandlerError(h)
  BY <1>2, <1>6 DEF HandlerError, Return, storeVars, clientVars
<1> QED
  BY <1>3, <1>4, <1>5, <1>6

-----------------------------------------------------------------------------
(* The inductive invariant *)

\* It holds when metad and the nodes start.
LEMMA ClusterInitInv == ClusterInit => ClusterInv
<1> SUFFICES ASSUME ClusterInit
             PROVE  ClusterInv
  OBVIOUS
<1>1. ManifestInv
  BY InitInv DEF ClusterInit
<1>2. HeldInv
  BY DEF ClusterInit, ManifestInit, StoreInit, HeldInv
<1>3. PlansRecorded
  BY DEF ClusterInit, ManifestInit, PlansRecorded
<1>4. OfferedLists
  <2>1. <<>> \in [{} -> Seq(NodeID)]
    OBVIOUS
  <2>2. \A s \in SessionID : offered[s] = <<>>
    BY DEF ClusterInit, ManifestInit
  <2> QED
    BY <2>1, <2>2 DEF OfferedLists
<1>5. NodesOK
  BY ClusterAssumption DEF ClusterInit, NodesOK
<1> QED
  BY <1>1, <1>2, <1>3, <1>4, <1>5 DEF ClusterInv

\* A step of the nodes that leaves metad alone.
LEMMA NodeOnly ==
  ASSUME ManifestInv, PlansRecorded, OfferedLists, UNCHANGED manifestVars
  PROVE  ManifestInv' /\ PlansRecorded' /\ OfferedLists' /\ chunkLocations' = chunkLocations
<1>1. ManifestInv'
  BY NextInv
<1>2. hplan' = hplan /\ offered' = offered /\ chunkLocations' = chunkLocations
  BY DEF manifestVars, handlerVars, clientVars, storeVars
<1> QED
  BY <1>1, <1>2, PlansUnchanged

\* A heartbeat or a timeout only changes the status of a node.
LEMMA StatusOnly ==
  ASSUME ManifestInv, PlansRecorded, OfferedLists, NEW n \in NodeID,
         NodeHeartbeat(n) \/ NodeTimeout(n)
  PROVE  ManifestInv' /\ PlansRecorded' /\ OfferedLists' /\ chunkLocations' = chunkLocations
<1>1. ManifestInv'
  BY NodeStepInv
<1>2. hplan' = hplan /\ offered' = offered /\ chunkLocations' = chunkLocations
  BY DEF NodeHeartbeat, NodeTimeout, handlerVars, clientVars
<1> QED
  BY <1>1, <1>2, PlansUnchanged

\* A commit of what was acknowledged records what is held.
LEMMA CommitAckedInv ==
  ASSUME ClusterInv, NEW s \in SessionID, CommitAcked(s)
  PROVE  ClusterInv'
<1> USE DEF ClusterInv
<1>1. PICK D \in SUBSET ChunkID : offered[s] \in [D -> Seq(NodeID)]
  BY DEF OfferedLists
<1>2. offered[s] \in [D -> Seq(NodeID \cup {EmptyID})]
  BY <1>1
<1>3. ManifestInv'
  BY <1>2, CommitUploadInv DEF CommitAcked
<1>4. /\ chunkLocations' = chunkLocations \cup RowsOf(offered[s])
      /\ RowsOf(offered[s]) \subseteq acked
      /\ hplan' = hplan /\ offered' = offered /\ UNCHANGED nodeVars
  BY DEF CommitAcked, CommitUpload, InsertChunkLocations, handlerVars, clientVars
<1>5. HeldInv'
  BY <1>4 DEF HeldInv, nodeVars
<1>6. PlansRecorded' /\ OfferedLists'
  BY <1>4, PlansUnchanged
<1> QED
  BY <1>3, <1>4, <1>5, <1>6 DEF NodesOK, nodeVars

\* The scanner records what it has copied.
LEMMA RepairRecordInv ==
  ASSUME ClusterInv, NEW c \in ChunkID, NEW n \in NodeID, RepairRecord(c, n)
  PROVE  ClusterInv'
<1> USE DEF ClusterInv
<1>1. ManifestInv'
  BY RepairAddsInv DEF RepairRecord
<1>2. /\ <<c, n>> \in copied /\ copied' = {}
      /\ chunkLocations' = chunkLocations \cup {<<c, n>>}
      /\ hplan' = hplan /\ offered' = offered
      /\ node' = node /\ held' = held /\ acked' = acked /\ stops' = stops
  BY DEF RepairRecord, RepairAdds, RepairRecords, AddChunkLocation, handlerVars, clientVars
<1>3. HeldInv'
  BY <1>2 DEF HeldInv
<1>4. PlansRecorded' /\ OfferedLists'
  BY <1>2, PlansUnchanged
<1> QED
  BY <1>1, <1>2, <1>3, <1>4 DEF NodesOK

\* Every step keeps the invariant.
LEMMA ClusterNextInv == ClusterInv /\ [ClusterNext]_clusterVars => ClusterInv'
<1> SUFFICES ASSUME ClusterInv, [ClusterNext]_clusterVars
             PROVE  ClusterInv'
  OBVIOUS
<1>1. ManifestInv /\ HeldInv /\ PlansRecorded /\ OfferedLists /\ NodesOK
  BY DEF ClusterInv
<1>2. ASSUME NEW n \in NodeID, Register(n) \/ Listen(n) \/ Heartbeat(n) \/ Stop(n)
      PROVE  ClusterInv'
  <2>1. ManifestInv' /\ PlansRecorded' /\ OfferedLists' /\ chunkLocations' = chunkLocations
    BY <1>1, <1>2, NodeOnly, StatusOnly DEF Register, Listen, Heartbeat, Stop
  <2>2. held' = held /\ acked' = acked /\ copied' = copied
    BY <1>2 DEF Register, Listen, Heartbeat, Stop, nodeVars
  <2>3. HeldInv'
    BY <1>1, <2>1, <2>2 DEF HeldInv
  <2>4. NodesOK'
    BY <1>1, <1>2, ClusterAssumption DEF NodesOK, Register, Listen, Heartbeat, Stop, nodeVars
  <2> QED
    BY <2>1, <2>3, <2>4 DEF ClusterInv
<1>3. ASSUME NEW n \in NodeID, NodeTimeout(n), UNCHANGED nodeVars
      PROVE  ClusterInv'
  BY <1>1, <1>3, StatusOnly DEF ClusterInv, HeldInv, NodesOK, nodeVars
<1>4. ASSUME NEW h \in Handler, UNCHANGED nodeVars,
             PrepareUpload(h) \/ DeleteFile(h) \/ GetFileRequest(h) \/ HandlerError(h)
      PROVE  ClusterInv'
  <2>1. ManifestInv'
    BY <1>1, <1>4, NextInv DEF ManifestNext
  <2>2. PlansRecorded' /\ OfferedLists' /\ chunkLocations' = chunkLocations
    BY <1>1, <1>4, HandlerStep
  <2> QED
    BY <1>1, <1>4, <2>1, <2>2 DEF ClusterInv, HeldInv, NodesOK, nodeVars
<1>5. ASSUME NEW s \in SessionID, NEW c \in ChunkID, NEW n \in NodeID, PutChunk(s, c, n)
      PROVE  ClusterInv'
  <2>1. ManifestInv' /\ PlansRecorded' /\ OfferedLists' /\ chunkLocations' = chunkLocations
    BY <1>1, <1>5, NodeOnly DEF PutChunk
  <2>2. HeldInv' /\ NodesOK'
    BY <1>1, <1>5, <2>1 DEF PutChunk, HeldInv, NodesOK
  <2> QED
    BY <2>1, <2>2 DEF ClusterInv
<1>6. ASSUME NEW c \in ChunkID, NEW m \in NodeID, NEW n \in NodeID, RepairCopy(c, m, n)
      PROVE  ClusterInv'
  <2>1. ManifestInv' /\ PlansRecorded' /\ OfferedLists' /\ chunkLocations' = chunkLocations
    BY <1>1, <1>6, NodeOnly DEF RepairCopy
  <2>2. HeldInv' /\ NodesOK'
    BY <1>1, <1>6, <2>1 DEF RepairCopy, HeldInv, NodesOK
  <2> QED
    BY <2>1, <2>2 DEF ClusterInv
<1>7. CASE RepairForgets
  <2>1. ManifestInv' /\ PlansRecorded' /\ OfferedLists' /\ chunkLocations' = chunkLocations
    BY <1>1, <1>7, NodeOnly DEF RepairForgets
  <2>2. HeldInv' /\ NodesOK'
    BY <1>1, <1>7, <2>1 DEF RepairForgets, HeldInv, NodesOK
  <2> QED
    BY <2>1, <2>2 DEF ClusterInv
<1>8. CASE UNCHANGED clusterVars
  <2>1. ManifestInv' /\ PlansRecorded' /\ OfferedLists' /\ chunkLocations' = chunkLocations
    BY <1>1, <1>8, NodeOnly DEF clusterVars
  <2>2. HeldInv' /\ NodesOK'
    BY <1>1, <1>8, <2>1 DEF clusterVars, nodeVars, HeldInv, NodesOK
  <2> QED
    BY <2>1, <2>2 DEF ClusterInv
<1> QED
  BY <1>2, <1>3, <1>4, <1>5, <1>6, <1>7, <1>8, CommitAckedInv, RepairRecordInv
     DEF ClusterNext

-----------------------------------------------------------------------------
(* The theorems *)

\* The inductive invariant holds in every reachable state.
THEOREM ClusterInvariant == ClusterSpec => []ClusterInv
<1>1. ClusterInit => ClusterInv
  BY ClusterInitInv
<1>2. ClusterInv /\ [ClusterNext]_clusterVars => ClusterInv'
  BY ClusterNextInv
<1> QED
  BY <1>1, <1>2, PTL DEF ClusterSpec

\* Type correctness of metad and the nodes together.
THEOREM ClusterTypeCorrect == ClusterSpec => []ClusterTypeOK
<1>1. ClusterInv => ClusterTypeOK
  BY DEF ClusterInv, ManifestInv, HeldInv, NodesOK, ClusterTypeOK
<1> QED
  BY <1>1, ClusterInvariant, PTL

\* Every location metad records is on the disk of the node it names.
THEOREM LocationsAreHeld == ClusterSpec => []RecordedIsHeld
<1>1. ClusterInv => RecordedIsHeld
  BY DEF ClusterInv, HeldInv, RecordedIsHeld
<1> QED
  BY <1>1, ClusterInvariant, PTL

\* Every step of the cluster is a step of the service or invisible: a client
\* sees nothing of nodes, uploads and repairs.
LEMMA ClusterNextRefines ==
  ClusterInv /\ ClusterInv' /\ [ClusterNext]_clusterVars
    => [FS!ServiceNext]_FS!serviceVars
<1> SUFFICES ASSUME ManifestInv, ManifestInv', [ClusterNext]_clusterVars
             PROVE  [FS!ServiceNext]_FS!serviceVars
  BY DEF ClusterInv
<1>1. ASSUME NEW h \in Handler,
             PrepareUpload(h) \/ DeleteFile(h) \/ GetFileRequest(h) \/ HandlerError(h)
      PROVE  [FS!ServiceNext]_FS!serviceVars
  BY <1>1, NextRefines DEF ManifestNext
<1>2. ASSUME NEW s \in SessionID, CommitAcked(s)
      PROVE  FS!ServiceNext
  BY <1>2, CommitRefines DEF CommitAcked
<1>3. ASSUME NEW n \in NodeID, NodeHeartbeat(n) \/ NodeTimeout(n)
      PROVE  UNCHANGED FS!serviceVars
  BY <1>3, OthersRefine DEF NodeHeartbeat, NodeTimeout, fileTables, handlerVars
<1>4. ASSUME NEW c \in ChunkID, NEW n \in NodeID, RepairRecord(c, n)
      PROVE  UNCHANGED FS!serviceVars
  BY <1>4, OthersRefine DEF RepairRecord, RepairAdds, fileTables, handlerVars
<1>5. CASE UNCHANGED manifestVars
  BY <1>5, OthersRefine DEF manifestVars, storeVars, fileTables, handlerVars
<1> QED
  BY <1>1, <1>2, <1>3, <1>4, <1>5
     DEF ClusterNext, Register, Listen, Heartbeat, Stop, PutChunk, RepairCopy,
         RepairForgets, clusterVars

\* The whole cluster implements the file service.
THEOREM ClusterRefinement == ClusterSpec => ImplementsFileService
<1>1. ClusterInit => FS!ServiceInit
  BY InitRefines DEF ClusterInit
<1>2. ClusterInv /\ ClusterInv' /\ [ClusterNext]_clusterVars
        => [FS!ServiceNext]_FS!serviceVars
  BY ClusterNextRefines
<1> QED
  BY <1>1, <1>2, ClusterInvariant, PTL DEF ClusterSpec, ImplementsFileService, FS!ServiceSpec

\* A reader with a plan reaches every chunk while fewer than ReplicationFactor
\* nodes are not serving.
THEOREM ReadsSurvive == ClusterSpec => []ReadSurvivesFailures
<1>1. ClusterInv => ReadSurvivesFailures
  <2> SUFFICES ASSUME ClusterInv, NEW h \in Handler, hpc[h] = "reply",
                      Cardinality({n \in NodeID : node[n] # "serving"}) < ReplicationFactor,
                      NEW c \in GetChunksByFileID(hfile[h])
               PROVE  \E n \in PlanNodes(h, c) : node[n] = "serving" /\ <<c, n>> \in held
    BY DEF ReadSurvivesFailures
  <2> DEFINE away == {n \in NodeID : node[n] # "serving"}
  <2>1. Cardinality(PlanNodes(h, c)) >= ReplicationFactor
    BY DEF ClusterInv, ManifestInv, HandlerInv, HandlerOK
  <2>2. \A n \in PlanNodes(h, c) : n \in NodeID /\ <<c, n>> \in held
    BY DEF ClusterInv, PlansRecorded, HeldInv, PlanNodes
  <2>3. IsFiniteSet(away) /\ Cardinality(away) \in Nat
    <3>1. away \subseteq NodeID
      OBVIOUS
    <3> QED
      BY <3>1, NodeAssumption, FS_Subset, FS_CardinalityType
  <2>4. ~ (PlanNodes(h, c) \subseteq away)
    <3>1. ASSUME PlanNodes(h, c) \subseteq away
          PROVE  Cardinality(PlanNodes(h, c)) \in Nat
                 /\ Cardinality(PlanNodes(h, c)) <= Cardinality(away)
      <4> HIDE DEF away
      <4> QED
        BY <2>3, <3>1, FS_Subset, FS_CardinalityType
    <3> QED
      BY <2>1, <2>3, <3>1, ManifestAssumption
  <2> QED
    BY <2>2, <2>4
<1> QED
  BY <1>1, ClusterInvariant, PTL

=============================================================================
