--------------------------- MODULE MetricsUpdater ---------------------------
(***************************************************************************)
(* The metrics updater of metad (internal/metadata/metrics_updater.go):    *)
(* every few seconds it asks the database for four counts, one statement   *)
(* after the other, and copies each into a gauge.  A count that fails is   *)
(* passed over and its gauge keeps its value.  The tables change between   *)
(* any two statements.                                                     *)
(***************************************************************************)
EXTENDS FileTables

VARIABLES
  at,        \* the gauge whose turn it is, 0 while the updater waits
  seen,      \* the count that was read and is not yet set, -1 for none
  gauge,     \* the four gauges
  failing,   \* the gauges whose statement fails at present
  stable     \* the tables and the faults no longer change

tableVars == <<fileStatus, chunkFile, chunkLocations, nodeStatus>>
updaterVars == <<tableVars, at, seen, gauge, failing, stable>>

\* The gauges in the order of update.
TotalNodes == 1
HealthyNodes == 2
TotalChunks == 3
TotalReplicas == 4
Gauge == 1..4

CountTotalNodes == Cardinality(ListAllNodes)
CountHealthyNodes == Cardinality(ListHealthyNodes)
CountTotalChunks == Cardinality({c \in ChunkID : chunkFile[c] # NoFile})
CountTotalReplicas == Cardinality(chunkLocations)

Count(g) ==
  CASE g = TotalNodes    -> CountTotalNodes
    [] g = HealthyNodes  -> CountHealthyNodes
    [] g = TotalChunks   -> CountTotalChunks
    [] g = TotalReplicas -> CountTotalReplicas

\* Start begins with an update.
UpdaterInit ==
  /\ NodeInit
  /\ fileStatus = [f \in FileID |-> "none"]
  /\ chunkFile = [c \in ChunkID |-> NoFile]
  /\ chunkLocations = {}
  /\ at = TotalNodes
  /\ seen = -1
  /\ gauge = [g \in Gauge |-> 0]
  /\ failing = {}
  /\ stable = FALSE

-----------------------------------------------------------------------------
(* The updater *)

After(g) == (g + 1) % 5

CountRows ==
  /\ at # 0 /\ seen = -1
  /\ at \notin failing
  /\ seen' = Count(at)
  /\ UNCHANGED <<tableVars, at, gauge, failing, stable>>

\* Mutant: the count is added to the gauge.
AddToGauge ==
  /\ seen # -1
  /\ gauge' = [gauge EXCEPT ![at] = @ + seen]
  /\ seen' = -1
  /\ at' = After(at)
  /\ UNCHANGED <<tableVars, failing, stable>>

SetGauge ==
  /\ seen # -1
  /\ gauge' = [gauge EXCEPT ![at] = seen]
  /\ seen' = -1
  /\ at' = After(at)
  /\ UNCHANGED <<tableVars, failing, stable>>

\* Mutant: the first error ends the update.
CountFailsReturn ==
  /\ at \in failing /\ seen = -1
  /\ at' = 0
  /\ UNCHANGED <<tableVars, seen, gauge, failing, stable>>

CountFails ==
  /\ at \in failing /\ seen = -1
  /\ at' = After(at)
  /\ UNCHANGED <<tableVars, seen, gauge, failing, stable>>

Tick ==
  /\ at = 0
  /\ at' = TotalNodes
  /\ UNCHANGED <<tableVars, seen, gauge, failing, stable>>

\* metad stops and starts again: the gauges are new, the tables are not.
Restart ==
  /\ ~stable
  /\ at' = TotalNodes
  /\ seen' = -1
  /\ gauge' = [g \in Gauge |-> 0]
  /\ UNCHANGED <<tableVars, failing, stable>>

-----------------------------------------------------------------------------
(* The other users of the database *)

\* A heartbeat registers the node or finds it healthy again.
Heartbeat(n) ==
  /\ InsertNode(n) \/ UpdateNodeStatus(n, "healthy")
  /\ UNCHANGED <<fileStatus, chunkFile, chunkLocations>>

NodeTimeout(n) ==
  /\ UpdateNodeStatus(n, "down")
  /\ UNCHANGED <<fileStatus, chunkFile, chunkLocations>>

FilePrepared(f, cs) ==
  /\ CreateFile(f)
  /\ InsertChunks(cs, f)
  /\ UNCHANGED <<chunkLocations, nodeStatus>>

\* A commit: every chunk of the file on the nodes in list.
FileCommitted(f, list) ==
  /\ GetFile(f) = "pending"
  /\ UpdateFileStatus(f, "committed")
  /\ InsertChunkLocations([c \in GetChunksByFileID(f) |-> list])
  /\ UNCHANGED <<chunkFile, nodeStatus>>

\* A delete marks the file and leaves its chunks and their locations.
FileDeleted(f) ==
  /\ UpdateFileStatus(f, "deleted")
  /\ UNCHANGED <<chunkFile, chunkLocations, nodeStatus>>

ReplicaRecorded(c, n) ==
  /\ c \in ListCommittedChunks
  /\ AddChunkLocation(c, n)
  /\ UNCHANGED <<fileStatus, chunkFile, nodeStatus>>

TablesChange ==
  /\ ~stable
  /\ \/ \E n \in NodeID : Heartbeat(n) \/ NodeTimeout(n)
     \/ \E f \in FileID :
          \/ \E cs \in (SUBSET ChunkID) \ {{}} : FilePrepared(f, cs)
          \/ \E n \in NodeID : FileCommitted(f, <<n>>)
          \/ FileDeleted(f)
     \/ \E c \in ChunkID, n \in NodeID : ReplicaRecorded(c, n)
  /\ UNCHANGED <<at, seen, gauge, failing, stable>>

\* Which statements fail changes until the system is stable; one of them may
\* fail for ever.
FaultsChange ==
  /\ ~stable
  /\ failing' \in {{}} \cup {{g} : g \in Gauge}
  /\ stable' \in BOOLEAN
  /\ UNCHANGED <<tableVars, at, seen, gauge>>

Updater == CountRows \/ SetGauge \/ CountFails \/ Tick

UpdaterNext == Updater \/ Restart \/ TablesChange \/ FaultsChange

\* The goroutine goes on and its ticker ticks.
UpdaterSpec ==
  UpdaterInit /\ [][UpdaterNext]_updaterVars /\ WF_updaterVars(Updater)

-----------------------------------------------------------------------------
(* Properties *)

\* The totals lag behind the tables and never run ahead of them, also after a
\* restart, a delete or a row that was counted twice: nothing the code does
\* takes a node, a chunk or a replica out of its table.
GaugesNotAhead ==
  /\ \A g \in Gauge \ {HealthyNodes} : gauge[g] <= Count(g)
  /\ gauge[HealthyNodes] <= Count(TotalNodes)

\* Each gauge comes to show its table and stays there, although the statement
\* of another gauge may fail for ever.
GaugesConverge ==
  \A g \in Gauge : stable /\ g \notin failing ~> [](gauge[g] = Count(g))

=============================================================================
