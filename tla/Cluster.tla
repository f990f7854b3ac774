------------------------------ MODULE Cluster ------------------------------
(***************************************************************************)
(* metad, the storage nodes and their clients together.  Manifest keeps    *)
(* what is recorded; here the nodes come and go and hold chunks on their   *)
(* disks, an uploader puts chunks on the nodes it was offered and commits  *)
(* what was acknowledged, the repair scanner copies and then records, and  *)
(* a reader follows the plan of GetFile.                                   *)
(*                                                                         *)
(* The client is not part of the repository: it is taken to keep to the    *)
(* protocol, to give up at any moment and to repeat a call whose answer    *)
(* was lost.  What happens inside a node is in module ChunkStore, the      *)
(* statements of the scanner are in module Repair.                         *)
(***************************************************************************)
EXTENDS ManifestRefinement

CONSTANT MaxStops   \* bound on the stops of storage nodes

ASSUME ClusterAssumption == MaxStops \in Nat

VARIABLES
  node,     \* "off", "registered" or "serving", by node
  held,     \* <<chunk, node>>: the chunk is on the node's disk
  acked,    \* <<chunk, node>>: the uploader had an answer to its PutChunk
  copied,   \* <<chunk, node>> the scanner had copied and has not recorded
  stops     \* stops so far

nodeVars == <<node, held, acked, copied, stops>>
clusterVars == <<manifestVars, nodeVars>>

ClusterInit ==
  /\ ManifestInit
  /\ node = [n \in NodeID |-> "off"]
  /\ held = {}
  /\ acked = {}
  /\ copied = {}
  /\ stops = 0

-----------------------------------------------------------------------------
(* Storage nodes *)

\* storaged opens its chunk store and sends a first heartbeat; only then does
\* it listen.
Register(n) ==
  /\ node[n] = "off"
  /\ NodeHeartbeat(n)
  /\ node' = [node EXCEPT ![n] = "registered"]
  /\ UNCHANGED <<held, acked, copied, stops>>

Listen(n) ==
  /\ node[n] = "registered"
  /\ node' = [node EXCEPT ![n] = "serving"]
  /\ UNCHANGED <<manifestVars, held, acked, copied, stops>>

Heartbeat(n) ==
  /\ node[n] # "off"
  /\ NodeHeartbeat(n)
  /\ UNCHANGED nodeVars

\* The process ends; its disk keeps the chunks.
Stop(n) ==
  /\ node[n] # "off"
  /\ stops < MaxStops
  /\ stops' = stops + 1
  /\ node' = [node EXCEPT ![n] = "off"]
  /\ UNCHANGED <<manifestVars, held, acked, copied>>

-----------------------------------------------------------------------------
(* The uploader *)

Offered(s, c, n) ==
  /\ c \in DOMAIN offered[s]
  /\ \E i \in DOMAIN offered[s][c] : offered[s][c][i] = n

PutChunk(s, c, n) ==
  /\ sessionStatus[s] = "preparing"
  /\ Offered(s, c, n)
  /\ node[n] = "serving"
  /\ held' = held \cup {<<c, n>>}
  /\ \/ acked' = acked \cup {<<c, n>>}
     \/ UNCHANGED acked
  /\ UNCHANGED <<manifestVars, node, copied, stops>>

\* The uploader names the nodes that answered.  It was offered as many as
\* CommitUpload wants, so it needs them all.
CommitAcked(s) ==
  /\ sessionStatus[s] = "preparing"
  /\ RowsOf(offered[s]) \subseteq acked
  /\ CommitUpload(s, offered[s])
  /\ UNCHANGED nodeVars

-----------------------------------------------------------------------------
(* Repair *)

HealthyReplicas(c) == GetChunkLocations(c) \cap ListHealthyNodes

\* CopyChunk on the target fetches the chunk from the source and stores it.
RepairCopy(c, source, target) ==
  /\ c \in ListCommittedChunks
  /\ Cardinality(HealthyReplicas(c)) < ReplicationFactor
  /\ source \in HealthyReplicas(c)
  /\ target \in ListHealthyNodes \ GetChunkLocations(c)
  /\ copied = {}
  /\ node[source] = "serving" /\ node[target] = "serving"
  /\ <<c, source>> \in held
  /\ held' = held \cup {<<c, target>>}
  /\ \/ copied' = {<<c, target>>}
     \/ UNCHANGED copied
  /\ UNCHANGED <<manifestVars, node, acked, stops>>

\* Mutant: the new location is recorded when the copy is ordered.
RecordBeforeCopy(c, target) ==
  /\ c \in ListCommittedChunks
  /\ target \in ListHealthyNodes \ GetChunkLocations(c)
  /\ RepairAdds(c, target)
  /\ UNCHANGED nodeVars

RepairRecord(c, target) ==
  /\ <<c, target>> \in copied
  /\ RepairAdds(c, target)
  /\ copied' = {}
  /\ UNCHANGED <<node, held, acked, stops>>

\* AddChunkLocation fails or metad stops.
RepairForgets ==
  /\ copied # {}
  /\ copied' = {}
  /\ UNCHANGED <<manifestVars, node, held, acked, stops>>

-----------------------------------------------------------------------------

ClusterNext ==
  \/ \E n \in NodeID : \/ Register(n) \/ Listen(n) \/ Heartbeat(n) \/ Stop(n)
                       \/ NodeTimeout(n) /\ UNCHANGED nodeVars
  \/ \E h \in Handler : /\ \/ PrepareUpload(h)
                           \/ DeleteFile(h)
                           \/ GetFileRequest(h)
                           \/ HandlerError(h)
                        /\ UNCHANGED nodeVars
  \/ \E s \in SessionID : \/ CommitAcked(s)
                          \/ \E c \in ChunkID, n \in NodeID : PutChunk(s, c, n)
  \/ \E c \in ChunkID, m, n \in NodeID : RepairCopy(c, m, n)
  \/ \E c \in ChunkID, n \in NodeID : RepairRecord(c, n)
  \/ RepairForgets

ClusterSpec == ClusterInit /\ [][ClusterNext]_clusterVars

-----------------------------------------------------------------------------
(* Properties *)

\* Every variable has the type the code gives it.
ClusterTypeOK ==
  /\ TypeOK
  /\ node \in [NodeID -> {"off", "registered", "serving"}]
  /\ held \subseteq ChunkID \X NodeID
  /\ acked \subseteq ChunkID \X NodeID
  /\ copied \subseteq ChunkID \X NodeID
  /\ stops \in 0..MaxStops

\* What metad records is on the disks: with clients that commit what was
\* acknowledged, every row of chunk_locations names a node that holds the
\* chunk, whatever stops, is repeated or is repaired in between, although
\* CommitUpload itself would take any node id.
RecordedIsHeld == \A l \in chunkLocations : l \in held

\* The point of replication: a reader that has its plan reaches every chunk
\* of the file as long as fewer than ReplicationFactor nodes are not serving,
\* wherever the plan is older than the last stop, repair or delete.
ReadSurvivesFailures ==
  \A h \in Handler :
    /\ hpc[h] = "reply"
    /\ Cardinality({n \in NodeID : node[n] # "serving"}) < ReplicationFactor
    => \A c \in GetChunksByFileID(hfile[h]) :
         \E n \in PlanNodes(h, c) : node[n] = "serving" /\ <<c, n>> \in held

=============================================================================
