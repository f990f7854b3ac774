---------------------------- MODULE MetadProofs ----------------------------
(***************************************************************************)
(* Proofs about the metad process: its life, module Lifecycle, for any     *)
(* number of requests and workers, and one of its workers, module          *)
(* MetricsUpdater, for any tables.                                         *)
(*                                                                         *)
(* RpcsDrained is not inductive: it holds because no request is accepted   *)
(* before the store is open nor after GracefulStop was called, and because *)
(* main does not go on while one runs.  GaugesNotAhead needs the bound on  *)
(* the count that was read and is not yet shown, and that no table the     *)
(* updater counts ever loses a row.                                        *)
(***************************************************************************)
EXTENDS Lifecycle, MetricsUpdater, FiniteSetTheorems, TLAPS

-----------------------------------------------------------------------------
(* The life of the process *)

\* main has gone past GracefulStop.
Down == {"shutdownMetrics", "closeStore", "return", "exited", "killed"}

\* The inductive invariant.
LifecycleInv ==
  /\ LifecycleTypeOK
  /\ main \in {"drain", "shutdownMetrics", "closeStore", "return", "exited"} => stopping
  /\ main \in Down => \A r \in Rpc : rpc[r] # "running"
  /\ main \notin {"openStore"} \cup Down => db = "open"
  /\ serve # "none" => main \notin {"openStore", "startWorkers", "listen", "spawnServe"}
  /\ \A r \in Rpc : rpc[r] = "running" => serve # "none"
  /\ \A r \in Rpc : rpc[r] = "cut" => main = "killed"

\* A process that is killed cuts off what runs.
LEMMA FatalInv ==
  ASSUME LifecycleInv, Alive, Fatal
  PROVE  LifecycleInv'
<1> USE DEF LifecycleInv, LifecycleTypeOK, Fatal, Down
<1>1. LifecycleTypeOK'
  OBVIOUS
<1>2. \A r \in Rpc : rpc'[r] # "running"
  OBVIOUS
<1> QED
  BY <1>1, <1>2

\* A step of main.
LEMMA MainStepInv ==
  ASSUME LifecycleInv, MainStep
  PROVE  LifecycleInv'
<1> USE DEF LifecycleInv, LifecycleTypeOK, Down, StartPC, StopPC
<1>1. CASE OpenStore \/ StartWorkers \/ Listen
  BY <1>1 DEF OpenStore, StartWorkers, Listen
<1>2. CASE SpawnServe \/ SpawnMetrics \/ Notify
  BY <1>2 DEF SpawnServe, SpawnMetrics, Notify
<1>3. CASE Cancel \/ GracefulStop
  BY <1>3 DEF Cancel, GracefulStop
<1>4. CASE Drained
  BY <1>4 DEF Drained
<1>5. CASE ShutdownMetrics \/ CloseStore
  BY <1>5 DEF ShutdownMetrics, CloseStore
<1>6. CASE Exit
  BY <1>6 DEF Exit
<1> QED
  BY <1>1, <1>2, <1>3, <1>4, <1>5, <1>6 DEF MainStep

\* Every step keeps the invariant.
LEMMA LifecycleNextInv ==
  LifecycleInv /\ [LifecycleNext]_lifecycleVars => LifecycleInv'
<1> SUFFICES ASSUME LifecycleInv, [LifecycleNext]_lifecycleVars
             PROVE  LifecycleInv'
  OBVIOUS
<1> USE DEF LifecycleInv, LifecycleTypeOK, Down, StartPC, StopPC
<1>1. CASE StartFails
  <2>1. Alive /\ Fatal
    BY <1>1 DEF StartFails, Alive
  <2> QED
    BY <2>1, FatalInv
<1>2. CASE Signal
  <2>1. CASE main \in StartPC /\ Fatal
    BY <2>1, FatalInv DEF Alive
  <2> QED
    BY <1>2, <2>1 DEF Signal
<1>3. CASE ServeRuns
  <2>1. CASE Alive /\ Fatal
    BY <2>1, FatalInv
  <2> QED
    BY <1>3, <2>1 DEF ServeRuns
<1>4. CASE MetricsRuns
  <2>1. CASE Alive /\ Fatal
    BY <2>1, FatalInv
  <2> QED
    BY <1>4, <2>1 DEF MetricsRuns
<1>5. ASSUME NEW r \in Rpc, Accept(r)
      PROVE  LifecycleInv'
  BY <1>5 DEF Accept, Alive
<1>6. ASSUME NEW r \in Rpc, Answer(r)
      PROVE  LifecycleInv'
  BY <1>6 DEF Answer
<1>7. ASSUME NEW w \in Worker, WorkerWakes(w) \/ PassEnds(w) \/ WorkerEnds(w)
      PROVE  LifecycleInv'
  BY <1>7 DEF WorkerWakes, PassEnds, WorkerEnds, SetWorker
<1>8. CASE UNCHANGED lifecycleVars
  BY <1>8 DEF lifecycleVars
<1>9. CASE ServeBreaks
  BY <1>9 DEF ServeBreaks
<1>10. CASE ServeFatal \/ \E r \in Rpc : Panic(r)
  <2>1. Alive /\ Fatal
    BY <1>10 DEF ServeFatal, Panic
  <2> QED
    BY <2>1, FatalInv
<1> QED
  BY <1>1, <1>2, <1>3, <1>4, <1>5, <1>6, <1>7, <1>8, <1>9, <1>10, MainStepInv DEF LifecycleNext

\* The inductive invariant holds in every reachable state.
THEOREM LifecycleInvariant == LifecycleSpec => []LifecycleInv
<1>1. LifecycleInit => LifecycleInv
  BY DEF LifecycleInit, LifecycleInv, LifecycleTypeOK, Down, StartPC, StopPC
<1>2. LifecycleInv /\ [LifecycleNext]_lifecycleVars => LifecycleInv'
  BY LifecycleNextInv
<1> QED
  BY <1>1, <1>2, PTL DEF LifecycleSpec

\* Type correctness of the process.
THEOREM LifecycleTypeCorrect == LifecycleSpec => []LifecycleTypeOK
<1>1. LifecycleInv => LifecycleTypeOK
  BY DEF LifecycleInv
<1> QED
  BY <1>1, LifecycleInvariant, PTL

\* No request runs without the store, and a shutdown by signal cuts none off.
THEOREM RequestsDrained == LifecycleSpec => []RpcsDrained
<1>1. LifecycleInv => RpcsDrained
  BY DEF LifecycleInv, LifecycleTypeOK, RpcsDrained, Down, StartPC, StopPC
<1> QED
  BY <1>1, LifecycleInvariant, PTL

-----------------------------------------------------------------------------
(* The metrics updater *)

UpdaterTypeOK ==
  /\ FileTablesTypeOK
  /\ NodeTypeOK
  /\ at \in 0..4
  /\ seen \in Int
  /\ gauge \in [Gauge -> Int]

\* What a gauge must not exceed: a node that was healthy when it was counted
\* may be down by now, but it is still in the table.
Bound(g) == IF g = HealthyNodes THEN CountTotalNodes ELSE Count(g)

\* The inductive invariant.
GaugesInv ==
  /\ UpdaterTypeOK
  /\ \A g \in Gauge : gauge[g] <= Bound(g)
  /\ seen # -1 => at \in Gauge /\ seen <= Bound(at)

\* The tables the updater counts are finite.
LEMMA CountsAreNumbers ==
  ASSUME FileTablesTypeOK
  PROVE  /\ IsFiniteSet(ListAllNodes) /\ IsFiniteSet({c \in ChunkID : chunkFile[c] # NoFile})
         /\ IsFiniteSet(chunkLocations) /\ IsFiniteSet(ListHealthyNodes)
         /\ CountTotalNodes \in Nat /\ CountHealthyNodes \in Nat
         /\ CountTotalChunks \in Nat /\ CountTotalReplicas \in Nat
<1>1. /\ ListAllNodes \in SUBSET NodeID /\ ListHealthyNodes \in SUBSET NodeID
      /\ {c \in ChunkID : chunkFile[c] # NoFile} \in SUBSET ChunkID
      /\ chunkLocations \in SUBSET (ChunkID \X NodeID)
  BY DEF ListAllNodes, ListHealthyNodes, FileTablesTypeOK
<1>2. IsFiniteSet(NodeID) /\ IsFiniteSet(ChunkID)
  BY NodeAssumption, FileTablesAssumption
<1>3. IsFiniteSet(ChunkID \X NodeID)
  BY <1>2, FS_Product
<1>4. /\ IsFiniteSet(ListAllNodes) /\ IsFiniteSet({c \in ChunkID : chunkFile[c] # NoFile})
      /\ IsFiniteSet(chunkLocations) /\ IsFiniteSet(ListHealthyNodes)
  BY <1>1, <1>2, <1>3, FS_Subset
<1> QED
  BY <1>4, FS_CardinalityType
     DEF CountTotalNodes, CountHealthyNodes, CountTotalChunks, CountTotalReplicas

\* The four counts and their bounds.
LEMMA CountBounds ==
  ASSUME FileTablesTypeOK, NEW g \in Gauge
  PROVE  Count(g) \in Nat /\ Bound(g) \in Nat /\ Count(g) <= Bound(g)
<1>1. CountHealthyNodes <= CountTotalNodes
  <2>1. ListHealthyNodes \in SUBSET ListAllNodes
    BY DEF ListHealthyNodes, ListAllNodes
  <2> QED
    BY <2>1, CountsAreNumbers, FS_Subset DEF CountHealthyNodes, CountTotalNodes
<1>2. CountTotalNodes \in Nat /\ CountHealthyNodes \in Nat /\ CountTotalChunks \in Nat /\ CountTotalReplicas \in Nat
  BY CountsAreNumbers
<1>3. g \in {1, 2, 3, 4}
  BY DEF Gauge
<1> QED
  BY <1>1, <1>2, <1>3 DEF Count, Bound, TotalNodes, HealthyNodes, TotalChunks, TotalReplicas

\* No step takes a row out of a table.
RowsStay ==
  /\ \A n \in NodeID : nodeStatus[n] # "none" => nodeStatus'[n] # "none"
  /\ \A c \in ChunkID : chunkFile[c] # NoFile => chunkFile'[c] # NoFile
  /\ chunkLocations \subseteq chunkLocations'

\* So no bound ever falls.
LEMMA BoundsGrow ==
  ASSUME FileTablesTypeOK, FileTablesTypeOK', RowsStay, NEW g \in Gauge
  PROVE  Bound(g) <= Bound(g)' /\ Bound(g)' \in Nat
<1> DEFINE C == {c \in ChunkID : chunkFile[c] # NoFile}
<1>1. /\ ListAllNodes \in SUBSET ListAllNodes' /\ C \in SUBSET C'
      /\ chunkLocations \in SUBSET chunkLocations'
  BY DEF RowsStay, ListAllNodes
<1>2. IsFiniteSet(ListAllNodes') /\ IsFiniteSet(C') /\ IsFiniteSet(chunkLocations')
  <2>1. /\ ListAllNodes' \in SUBSET NodeID /\ C' \in SUBSET ChunkID
        /\ chunkLocations' \in SUBSET (ChunkID \X NodeID)
    BY DEF ListAllNodes, FileTablesTypeOK
  <2>2. IsFiniteSet(NodeID) /\ IsFiniteSet(ChunkID)
    BY NodeAssumption, FileTablesAssumption
  <2>3. IsFiniteSet(ChunkID \X NodeID)
    BY <2>2, FS_Product
  <2> QED
    BY <2>1, <2>2, <2>3, FS_Subset
<1>3. /\ Cardinality(ListAllNodes) <= Cardinality(ListAllNodes')
      /\ Cardinality(C) <= Cardinality(C')
      /\ Cardinality(chunkLocations) <= Cardinality(chunkLocations')
      /\ Cardinality(ListAllNodes') \in Nat
      /\ Cardinality(C') \in Nat
      /\ Cardinality(chunkLocations') \in Nat
  BY <1>1, <1>2, FS_Subset, FS_CardinalityType
<1>4. g \in {1, 2, 3, 4}
  BY DEF Gauge
<1> QED
  BY <1>3, <1>4 DEF Bound, Count, CountTotalNodes, CountTotalChunks, CountTotalReplicas,
                    TotalNodes, HealthyNodes, TotalChunks, TotalReplicas

\* The other users of the database add rows and change columns.
LEMMA TablesChangeRows ==
  ASSUME FileTablesTypeOK, NodeTypeOK, TablesChange
  PROVE  FileTablesTypeOK' /\ NodeTypeOK' /\ RowsStay
<1> USE DEF FileTablesTypeOK, NodeTypeOK, RowsStay
<1>1. ASSUME NEW n \in NodeID, Heartbeat(n) \/ NodeTimeout(n)
      PROVE  FileTablesTypeOK' /\ NodeTypeOK' /\ RowsStay
  BY <1>1 DEF Heartbeat, NodeTimeout, InsertNode, UpdateNodeStatus, NodeStatus
<1>2. ASSUME NEW f \in FileID, NEW cs \in (SUBSET ChunkID) \ {{}}, FilePrepared(f, cs)
      PROVE  FileTablesTypeOK' /\ NodeTypeOK' /\ RowsStay
  BY <1>2, FileTablesAssumption DEF FilePrepared, CreateFile, InsertChunks, FileStatus
<1>3. ASSUME NEW f \in FileID, NEW n \in NodeID, FileCommitted(f, <<n>>)
      PROVE  FileTablesTypeOK' /\ NodeTypeOK' /\ RowsStay
  <2> DEFINE rm == [c \in GetChunksByFileID(f) |-> <<n>>]
  <2>1. RowsOf(rm) \subseteq ChunkID \X NodeID
    <3> SUFFICES ASSUME NEW c \in DOMAIN rm, NEW i \in DOMAIN rm[c]
                 PROVE  <<c, rm[c][i]>> \in ChunkID \X NodeID
      BY DEF RowsOf
    <3>1. c \in ChunkID /\ rm[c] = <<n>>
      BY DEF GetChunksByFileID
    <3>2. i \in DOMAIN <<n>>
      BY <3>1
    <3> QED
      BY <3>1, <3>2
  <2>2. /\ chunkLocations' = chunkLocations \cup RowsOf(rm)
        /\ UpdateFileStatus(f, "committed") /\ UNCHANGED <<chunkFile, nodeStatus>>
    BY <1>3 DEF FileCommitted, InsertChunkLocations
  <2> HIDE DEF rm
  <2> QED
    BY <2>1, <2>2 DEF UpdateFileStatus, FileStatus
<1>4. ASSUME NEW f \in FileID, FileDeleted(f)
      PROVE  FileTablesTypeOK' /\ NodeTypeOK' /\ RowsStay
  BY <1>4 DEF FileDeleted, UpdateFileStatus, FileStatus
<1>5. ASSUME NEW c \in ChunkID, NEW n \in NodeID, ReplicaRecorded(c, n)
      PROVE  FileTablesTypeOK' /\ NodeTypeOK' /\ RowsStay
  BY <1>5 DEF ReplicaRecorded, AddChunkLocation
<1> QED
  BY <1>1, <1>2, <1>3, <1>4, <1>5 DEF TablesChange

\* Every step keeps the invariant.
LEMMA GaugesStep ==
  GaugesInv /\ [UpdaterNext]_updaterVars => GaugesInv'
<1> SUFFICES ASSUME GaugesInv, [UpdaterNext]_updaterVars
             PROVE  GaugesInv'
  OBVIOUS
<1>1. FileTablesTypeOK /\ NodeTypeOK /\ at \in 0..4 /\ seen \in Int /\ gauge \in [Gauge -> Int]
  BY DEF GaugesInv, UpdaterTypeOK
<1>2. \A g \in Gauge : Count(g) \in Nat /\ Bound(g) \in Nat /\ Count(g) <= Bound(g)
  BY <1>1, CountBounds
<1>3. CASE UNCHANGED tableVars
  <2>1. FileTablesTypeOK' /\ NodeTypeOK' /\ \A g \in Gauge : Bound(g)' = Bound(g)
    BY <1>1, <1>3 DEF tableVars, FileTablesTypeOK, NodeTypeOK, Bound, Count, CountTotalNodes,
                      CountHealthyNodes, CountTotalChunks, CountTotalReplicas, ListAllNodes, ListHealthyNodes
  <2>2. at \in Gauge => After(at) \in 0..4
    BY DEF Gauge, After
  <2>3. CASE CountRows
    <3>1. at \in Gauge /\ seen' = Count(at) /\ UNCHANGED <<at, gauge>>
      BY <1>1, <2>3 DEF CountRows, Gauge
    <3> QED
      BY <1>1, <1>2, <2>1, <3>1 DEF GaugesInv, UpdaterTypeOK
  <2>4. CASE SetGauge
    <3>1. at \in Gauge /\ seen <= Bound(at) /\ seen' = -1 /\ gauge' = [gauge EXCEPT ![at] = seen]
          /\ at' = After(at)
      BY <2>4 DEF SetGauge, GaugesInv
    <3> QED
      BY <1>1, <1>2, <2>1, <2>2, <3>1 DEF GaugesInv, UpdaterTypeOK
  <2>5. CASE CountFails \/ Tick
    <3>1. at' \in 0..4 /\ seen = -1 /\ UNCHANGED <<seen, gauge>>
      <4>1. CASE CountFails
        <5>1. CASE at \in Gauge
          BY <2>2, <4>1, <5>1 DEF CountFails
        <5>2. CASE at \notin Gauge
          BY <1>1, <4>1, <5>2 DEF CountFails, Gauge, After
        <5> QED
          BY <5>1, <5>2
      <4>2. CASE Tick
        BY <1>1, <4>2 DEF Tick, TotalNodes, GaugesInv, Gauge
      <4> QED
        BY <2>5, <4>1, <4>2
    <3> QED
      BY <1>1, <2>1, <3>1 DEF GaugesInv, UpdaterTypeOK
  <2>6. CASE Restart
    <3>1. at' = 1 /\ seen' = -1 /\ gauge' = [g \in Gauge |-> 0]
      BY <2>6 DEF Restart, TotalNodes
    <3> QED
      BY <1>2, <2>1, <3>1 DEF GaugesInv, UpdaterTypeOK
  <2>7. CASE UNCHANGED <<at, seen, gauge>>
    BY <1>1, <2>1, <2>7 DEF GaugesInv, UpdaterTypeOK
  <2> QED
    BY <1>3, <2>3, <2>4, <2>5, <2>6, <2>7
       DEF UpdaterNext, Updater, FaultsChange, updaterVars, TablesChange
<1>4. CASE TablesChange
  <2>1. FileTablesTypeOK' /\ NodeTypeOK' /\ RowsStay
    BY <1>1, <1>4, TablesChangeRows
  <2>2. \A g \in Gauge : Bound(g) <= Bound(g)' /\ Bound(g)' \in Nat
    BY <1>1, <2>1, BoundsGrow
  <2>3. UNCHANGED <<at, seen, gauge>>
    BY <1>4 DEF TablesChange
  <2> QED
    BY <1>1, <1>2, <2>1, <2>2, <2>3 DEF GaugesInv, UpdaterTypeOK
<1> QED
  BY <1>3, <1>4 DEF UpdaterNext, Updater, CountRows, SetGauge, CountFails, Tick, Restart, FaultsChange, updaterVars

\* The gauges of the totals lag behind the tables and never run ahead of
\* them, and the gauge of the healthy nodes never exceeds the nodes there are.
THEOREM GaugesLagBehind == UpdaterSpec => []GaugesNotAhead
<1>1. UpdaterInit => GaugesInv
  <2> SUFFICES ASSUME UpdaterInit
               PROVE  GaugesInv
    OBVIOUS
  <2>1. UpdaterTypeOK
    BY DEF UpdaterInit, UpdaterTypeOK, FileTablesTypeOK, FileStatus, NodeTypeOK, NodeStatus, NodeInit,
           TotalNodes, Gauge
  <2>2. \A g \in Gauge : Bound(g) \in Nat
    BY <2>1, CountBounds DEF UpdaterTypeOK
  <2> QED
    BY <2>1, <2>2 DEF UpdaterInit, GaugesInv
<1>2. GaugesInv => GaugesNotAhead
  <2> SUFFICES ASSUME GaugesInv
               PROVE  GaugesNotAhead
    OBVIOUS
  <2>1. \A g \in Gauge : gauge[g] <= Bound(g)
    BY DEF GaugesInv
  <2>2. HealthyNodes \in Gauge /\ Bound(HealthyNodes) = Count(TotalNodes)
    <3>1. Bound(HealthyNodes) = CountTotalNodes /\ HealthyNodes \in Gauge
      BY DEF Bound, HealthyNodes, Gauge
    <3>2. \A g \in {1, 2, 3, 4} : g = 1 => Count(g) = CountTotalNodes
      BY DEF Count, TotalNodes, HealthyNodes, TotalChunks, TotalReplicas
    <3>3. Count(1) = CountTotalNodes
      BY <3>2
    <3> QED
      BY <3>1, <3>3 DEF TotalNodes
  <2>3. \A g \in Gauge \ {HealthyNodes} : Bound(g) = Count(g)
    BY DEF Bound
  <2> QED
    BY <2>1, <2>2, <2>3 DEF GaugesNotAhead
<1> QED
  BY <1>1, <1>2, GaugesStep, PTL DEF UpdaterSpec

=============================================================================
