------------------------------- MODULE Repair -------------------------------
(***************************************************************************)
(* The repair scanner of metad (internal/metadata/repair), the CopyChunk   *)
(* call it makes (internal/node, cmd/storaged/node_server.go) and what     *)
(* changes under its feet: nodes stop, return and are marked down or       *)
(* healthy with a delay, files are committed and deleted, replicas are     *)
(* lost, metad restarts.                                                   *)
(*                                                                         *)
(* The scanner holds no lock and no transaction: a pass lists the chunks,  *)
(* then reads the locations and the health of each location with one       *)
(* statement after the other, calls the target node, and inserts the new   *)
(* location.  Each of these is an action.  No list query of the store looks*)
(* at rows.Err(): a query that breaks off between two rows returns the rows*)
(* before it as if they were all.                                          *)
(*                                                                         *)
(* Until `stable' is set nodes and network misbehave; afterwards nodes     *)
(* stay as they are and no call between running nodes fails.               *)
(***************************************************************************)
EXTENDS FileTables

CONSTANTS
  ReplicationFactor,  \* repair.Manager.replicationFactor
  Rank,               \* the order in which SQLite returns the rows of a node
  ChunkOf,            \* ChunkOf[c]: the file chunk c was planned for
  NoChunk,            \* no chunk in hand
  NoNode,             \* no node chosen
  MaxFaults           \* bound: stops, false alarms, lost replicas, failed calls,
                      \* lists cut short and restarts

ASSUME RepairAssumption ==
  /\ ReplicationFactor \in Nat
  /\ Rank \in [NodeID -> Nat]
  /\ \A m, n \in NodeID : Rank[m] = Rank[n] => m = n
  /\ ChunkOf \in [ChunkID -> FileID]
  /\ NoChunk \notin ChunkID
  /\ NoNode \notin NodeID
  /\ MaxFaults \in Nat

VARIABLES
  nodeUp,    \* nodes whose storaged is running and reachable
  stored,    \* <<chunk, node>>: the node has the chunk's file
  everHeld,  \* <<chunk, node>> that were in stored at some time
  rpc,       \* what the scanner is about to do
  rscan,     \* chunks this pass has still to look at
  rchunk,    \* the chunk in hand
  rlocs,     \* its locations, as read
  rtodo,     \* the locations whose health is still to be read
  rhealthy,  \* the locations found healthy
  rtarget,   \* the node to copy to
  stable,    \* nodes and network have stopped misbehaving
  faults     \* misbehaviour so far

tableVars == <<fileStatus, chunkFile, chunkLocations, nodeStatus>>
scanVars == <<rpc, rscan, rchunk, rlocs, rtodo, rhealthy, rtarget>>
worldVars == <<nodeUp, stored, everHeld, stable, faults>>
repairVars == <<tableVars, scanVars, worldVars>>

ScanPC == {"idle", "next", "count", "sources", "target", "copy", "record"}

(* Every variable has the type the code gives it. *)
RepairTypeOK ==
  /\ FileTablesTypeOK /\ NodeTypeOK
  /\ nodeUp \subseteq NodeID
  /\ stored \subseteq ChunkID \X NodeID
  /\ everHeld \subseteq ChunkID \X NodeID
  /\ rpc \in ScanPC
  /\ rscan \subseteq ChunkID
  /\ rchunk \in ChunkID \cup {NoChunk}
  /\ rlocs \subseteq NodeID /\ rtodo \subseteq NodeID /\ rhealthy \subseteq NodeID
  /\ rtarget \in NodeID \cup {NoNode}
  /\ stable \in BOOLEAN
  /\ faults \in 0..MaxFaults

\* A cluster at work: every node is registered and healthy, some files are
\* committed on ReplicationFactor nodes that hold their chunks, the others
\* are pending.
RepairInit ==
  /\ nodeStatus = [n \in NodeID |-> "healthy"]
  /\ nodeUp = NodeID
  /\ fileStatus \in [FileID -> {"pending", "committed"}]
  /\ chunkFile = ChunkOf
  /\ \E place \in [ChunkID -> {S \in SUBSET NodeID : Cardinality(S) = ReplicationFactor}] :
       chunkLocations = UNION {{c} \X place[c] :
                          c \in {d \in ChunkID : fileStatus[ChunkOf[d]] = "committed"}}
  /\ stored = chunkLocations
  /\ everHeld = stored
  /\ rpc = "idle" /\ rscan = {} /\ rchunk = NoChunk
  /\ rlocs = {} /\ rtodo = {} /\ rhealthy = {} /\ rtarget = NoNode
  /\ stable = FALSE /\ faults = 0

Fault == ~stable /\ faults < MaxFaults /\ faults' = faults + 1

-----------------------------------------------------------------------------
(* scanOnce *)

ScanStart ==
  /\ rpc = "idle"
  /\ rscan' = ListCommittedChunks
  /\ rpc' = "next"
  /\ UNCHANGED <<tableVars, worldVars, rchunk, rlocs, rtodo, rhealthy, rtarget>>

\* ListCommittedChunks fails, or breaks off and leaves chunks out.
ScanStartShort ==
  /\ Fault
  /\ rpc = "idle"
  /\ rscan' \in SUBSET ListCommittedChunks
  /\ rpc' = "next"
  /\ UNCHANGED <<tableVars, nodeUp, stored, everHeld, stable,
                 rchunk, rlocs, rtodo, rhealthy, rtarget>>

\* GetChunkLocations of the next chunk.
ScanNext(c) ==
  /\ rpc = "next"
  /\ c \in rscan
  /\ rscan' = rscan \ {c}
  /\ rchunk' = c
  /\ rlocs' = GetChunkLocations(c)
  /\ rtodo' = GetChunkLocations(c)
  /\ rhealthy' = {}
  /\ rpc' = "count"
  /\ UNCHANGED <<tableVars, worldVars, rtarget>>

\* GetChunkLocations breaks off: locations are missing, and their nodes look as
\* if they were free to copy to.
ScanNextShort(c) ==
  /\ Fault
  /\ rpc = "next"
  /\ c \in rscan
  /\ rscan' = rscan \ {c}
  /\ rchunk' = c
  /\ rlocs' \in SUBSET GetChunkLocations(c)
  /\ rtodo' = rlocs'
  /\ rhealthy' = {}
  /\ rpc' = "count"
  /\ UNCHANGED <<tableVars, nodeUp, stored, everHeld, stable, rtarget>>

\* GetChunkLocations fails: this chunk is skipped.
ScanSkips(c) ==
  /\ Fault
  /\ rpc = "next"
  /\ c \in rscan
  /\ rscan' = rscan \ {c}
  /\ UNCHANGED <<tableVars, nodeUp, stored, everHeld, stable,
                 rpc, rchunk, rlocs, rtodo, rhealthy, rtarget>>

ScanEnd ==
  /\ rpc = "next"
  /\ rscan = {}
  /\ rpc' = "idle"
  /\ UNCHANGED <<tableVars, worldVars, rscan, rchunk, rlocs, rtodo, rhealthy, rtarget>>

\* IsNodeHealthy of one location, in the count of scanOnce and again in
\* repairChunk, which trusts none of the answers the count was built from.
\* (repairChunk reads the list twice for a location and keeps it only when
\* both lists have it; either list may be the one that lacks it.)
ReadHealth(n) ==
  /\ rpc \in {"count", "sources"}
  /\ n \in rtodo
  /\ rtodo' = rtodo \ {n}
  /\ rhealthy' = IF n \in ListHealthyNodes THEN rhealthy \cup {n} ELSE rhealthy
  /\ UNCHANGED <<tableVars, worldVars, rpc, rscan, rchunk, rlocs, rtarget>>

\* IsNodeHealthy fails, or the list it looks through breaks off: the location
\* is passed over as if it were down.
ReadHealthFails(n) ==
  /\ Fault
  /\ rpc \in {"count", "sources"}
  /\ n \in rtodo
  /\ rtodo' = rtodo \ {n}
  /\ UNCHANGED <<tableVars, nodeUp, stored, everHeld, stable,
                 rpc, rscan, rchunk, rlocs, rhealthy, rtarget>>

\* The next chunk of the pass; what was read about this one is dropped.
Continue ==
  /\ rpc' = "next"
  /\ rchunk' = NoChunk
  /\ rlocs' = {} /\ rtodo' = {} /\ rhealthy' = {} /\ rtarget' = NoNode
  /\ UNCHANGED rscan

\* Mutant: repair waits until the last healthy replica is gone.
CountDoneTooLate ==
  /\ rpc = "count"
  /\ rtodo = {}
  /\ IF Cardinality(rhealthy) < 1
     THEN /\ rpc' = "sources"
          /\ rtodo' = rlocs
          /\ rhealthy' = {}
          /\ UNCHANGED <<rscan, rchunk, rlocs, rtarget>>
     ELSE Continue
  /\ UNCHANGED <<tableVars, worldVars>>

CountDone ==
  /\ rpc = "count"
  /\ rtodo = {}
  /\ IF Cardinality(rhealthy) < ReplicationFactor
     THEN /\ rpc' = "sources"
          /\ rtodo' = rlocs
          /\ rhealthy' = {}
          /\ UNCHANGED <<rscan, rchunk, rlocs, rtarget>>
     ELSE Continue
  /\ UNCHANGED <<tableVars, worldVars>>

-----------------------------------------------------------------------------
(* repairChunk *)

First(nodes) == CHOOSE n \in nodes : \A m \in nodes : Rank[n] <= Rank[m]

SourcesDone ==
  /\ rpc = "sources"
  /\ rtodo = {}
  /\ IF rhealthy = {}
     THEN Continue
     ELSE rpc' = "target" /\ UNCHANGED <<rscan, rchunk, rlocs, rtodo, rhealthy, rtarget>>
  /\ UNCHANGED <<tableVars, worldVars>>

\* Mutant: nodes that have the chunk already are not left out.
CandidatesAll == ListHealthyNodes

\* The nodes repairChunk would copy to: healthy by now and not among the
\* locations it was given.
Candidates == ListHealthyNodes \ rlocs

ChooseTarget ==
  /\ rpc = "target"
  /\ IF Candidates = {}
     THEN Continue
     ELSE /\ rtarget' = First(Candidates)
          /\ rpc' = "copy"
          /\ UNCHANGED <<rscan, rchunk, rlocs, rtodo, rhealthy>>
  /\ UNCHANGED <<tableVars, worldVars>>

\* The list of healthy nodes breaks off: the target is the first one left.
ChooseTargetShort ==
  /\ Fault
  /\ rpc = "target"
  /\ \E S \in SUBSET Candidates : S # {} /\ rtarget' = First(S)
  /\ rpc' = "copy"
  /\ UNCHANGED <<tableVars, nodeUp, stored, everHeld, stable,
                 rscan, rchunk, rlocs, rtodo, rhealthy>>

\* healthyReplicas[0], in every pass again.
Source == First(rhealthy)

\* CopyChunk on the target can read the chunk from the source and store it.
\* A source that has lost the file answers NotFound.
CopyPossible ==
  /\ rtarget \in nodeUp
  /\ Source \in nodeUp
  /\ <<rchunk, Source>> \in stored

CopySucceeds ==
  /\ rpc = "copy"
  /\ CopyPossible
  /\ stored' = stored \cup {<<rchunk, rtarget>>}
  /\ everHeld' = everHeld \cup {<<rchunk, rtarget>>}
  /\ rpc' = "record"
  /\ UNCHANGED <<tableVars, nodeUp, stable, faults,
                 rscan, rchunk, rlocs, rtodo, rhealthy, rtarget>>

\* Mutant: the error of CopyChunk is not looked at.
CopyFailsUnnoticed ==
  /\ rpc = "copy"
  /\ ~CopyPossible
  /\ rpc' = "record"
  /\ UNCHANGED <<tableVars, worldVars, rscan, rchunk, rlocs, rtodo, rhealthy, rtarget>>

\* The call returns an error: it could not succeed.
CopyFails ==
  /\ rpc = "copy"
  /\ ~CopyPossible
  /\ Continue
  /\ UNCHANGED <<tableVars, worldVars>>

\* The call breaks off, before or after the target stored the chunk.
CopyBreaks ==
  /\ Fault
  /\ rpc = "copy"
  /\ CopyPossible
  /\ \E kept \in SUBSET {<<rchunk, rtarget>>} :
       stored' = stored \cup kept /\ everHeld' = everHeld \cup kept
  /\ Continue
  /\ UNCHANGED <<tableVars, nodeUp, stable>>

RecordLocation ==
  /\ rpc = "record"
  /\ AddChunkLocation(rchunk, rtarget)
  /\ Continue
  /\ UNCHANGED <<fileStatus, chunkFile, nodeStatus, worldVars>>

\* The target was on record already, and the locations read were not all: the
\* plain INSERT is refused, and the repair counts as failed.
RecordRefused ==
  /\ rpc = "record"
  /\ <<rchunk, rtarget>> \in chunkLocations
  /\ Continue
  /\ UNCHANGED <<tableVars, worldVars>>

\* Listing the targets or inserting the location fails.  A chunk that was
\* copied stays on the target and is not on record.
StatementFails ==
  /\ Fault
  /\ rpc \in {"target", "record"}
  /\ Continue
  /\ UNCHANGED <<tableVars, nodeUp, stored, everHeld, stable>>

-----------------------------------------------------------------------------
(* The world around the scanner *)

NodeStops(n) ==
  /\ Fault
  /\ n \in nodeUp
  /\ nodeUp' = nodeUp \ {n}
  /\ UNCHANGED <<tableVars, scanVars, stored, everHeld, stable>>

NodeReturns(n) ==
  /\ ~stable
  /\ n \notin nodeUp
  /\ nodeUp' = nodeUp \cup {n}
  /\ UNCHANGED <<tableVars, scanVars, stored, everHeld, stable, faults>>

\* The monitor notices a stopped node, a heartbeat marks a running one.
HealthCatchesUp(n) ==
  /\ nodeStatus[n] # (IF n \in nodeUp THEN "healthy" ELSE "down")
  /\ UpdateNodeStatus(n, IF n \in nodeUp THEN "healthy" ELSE "down")
  /\ UNCHANGED <<fileStatus, chunkFile, chunkLocations, scanVars, worldVars>>

\* Heartbeats of a running node came too late for the monitor.
FalseAlarm(n) ==
  /\ Fault
  /\ n \in nodeUp
  /\ n \in ListHealthyNodes
  /\ UpdateNodeStatus(n, "down")
  /\ UNCHANGED <<fileStatus, chunkFile, chunkLocations, scanVars,
                 nodeUp, stored, everHeld, stable>>

\* A disk loses a chunk its node still answers heartbeats for.
ReplicaLost(c, n) ==
  /\ Fault
  /\ <<c, n>> \in stored
  /\ stored' = stored \ {<<c, n>>}
  /\ UNCHANGED <<tableVars, scanVars, nodeUp, everHeld, stable>>

\* A client uploads to ReplicationFactor nodes and commits.
FileCommitted(f) ==
  /\ fileStatus[f] = "pending"
  /\ \E place \in [GetChunksByFileID(f) ->
                     {S \in SUBSET nodeUp : Cardinality(S) = ReplicationFactor}] :
       LET rows == UNION {{c} \X place[c] : c \in GetChunksByFileID(f)}
       IN /\ chunkLocations' = chunkLocations \cup rows
          /\ stored' = stored \cup rows
          /\ everHeld' = everHeld \cup rows
  /\ UpdateFileStatus(f, "committed")
  /\ UNCHANGED <<chunkFile, nodeStatus, scanVars, nodeUp, stable, faults>>

FileDeleted(f) ==
  /\ fileStatus[f] # "deleted"
  /\ UpdateFileStatus(f, "deleted")
  /\ UNCHANGED <<chunkFile, chunkLocations, nodeStatus, scanVars, worldVars>>

\* metad restarts: the pass and all it read is gone, the database is not.
Restart ==
  /\ Fault
  /\ rpc # "idle"
  /\ rpc' = "idle" /\ rscan' = {} /\ rchunk' = NoChunk
  /\ rlocs' = {} /\ rtodo' = {} /\ rhealthy' = {} /\ rtarget' = NoNode
  /\ UNCHANGED <<tableVars, nodeUp, stored, everHeld, stable>>

Stabilize ==
  /\ ~stable
  /\ stable' = TRUE
  /\ UNCHANGED <<tableVars, scanVars, nodeUp, stored, everHeld, faults>>

Scanner ==
  \/ ScanStart \/ ScanEnd \/ CountDone \/ SourcesDone \/ ChooseTarget
  \/ CopySucceeds \/ CopyFails \/ RecordLocation \/ RecordRefused
  \/ \E c \in ChunkID : ScanNext(c)
  \/ \E n \in NodeID : ReadHealth(n)

RepairNext ==
  \/ Scanner
  \/ CopyBreaks \/ StatementFails
  \/ ScanStartShort \/ ChooseTargetShort
  \/ \E n \in NodeID : \/ NodeStops(n) \/ NodeReturns(n)
                       \/ HealthCatchesUp(n) \/ FalseAlarm(n)
                       \/ ReadHealthFails(n)
  \/ \E c \in ChunkID : ScanSkips(c) \/ ScanNextShort(c)
  \/ \E c \in ChunkID, n \in NodeID : ReplicaLost(c, n)
  \/ \E f \in FileID : FileCommitted(f) \/ FileDeleted(f)
  \/ Restart
  \/ Stabilize

\* The scanner's ticker fires again and again and its calls return (the
\* context of CopyChunk has no deadline: the network must answer); heartbeats
\* and the monitor bring the status column up to date.
RepairFairness ==
  /\ WF_repairVars(Scanner)
  /\ \A n \in NodeID : WF_repairVars(HealthCatchesUp(n))

RepairSpec == RepairInit /\ [][RepairNext]_repairVars /\ RepairFairness

-----------------------------------------------------------------------------
(* Properties *)

\* A location in the database is a node that was given the chunk: repair
\* records a replica only after the copy, whatever fails or restarts.
RecordedWasStored == chunkLocations \subseteq everHeld

\* The CopyChunk the scanner asks for reads from a node that is on record for
\* the chunk, was given it, and is not the target, although source, target and
\* locations come from statements far apart and any of the lists may be short.
CopyFromRecorded ==
  rpc = "copy" =>
    /\ Source \in GetChunkLocations(rchunk) \ {rtarget}
    /\ <<rchunk, Source>> \in everHeld

\* Repair leaves uploads alone: a chunk of a file that is still pending has
\* no location and is never in the scanner's hand.
PendingUntouched ==
  \A c \in ChunkID : fileStatus[chunkFile[c]] = "pending" =>
    GetChunkLocations(c) = {} /\ rchunk # c

\* A chunk has enough healthy replicas on record.
WellReplicated(c) ==
  Cardinality(GetChunkLocations(c) \cap ListHealthyNodes) >= ReplicationFactor

\* The replicas that are really there: on record and on a running node.
IntactReplicas(c) ==
  {n \in GetChunkLocations(c) : n \in nodeUp /\ <<c, n>> \in stored}

\* Repairable: a healthy replica on record, and enough healthy nodes.
Repairable(c) ==
  /\ c \in ListCommittedChunks
  /\ IntactReplicas(c) # {}
  /\ Cardinality(nodeUp) >= ReplicationFactor

\* Every replica on record is on the disk of its node.
NoneLost(c) == \A n \in GetChunkLocations(c) : <<c, n>> \in stored

\* Repair heals what is on the disks: once the cluster is stable, a committed
\* chunk whose recorded replicas are all there, one of them on a running node,
\* ends up with ReplicationFactor healthy replicas, however often a pass acted
\* on what it had read before, broke off or met a replica lost of another
\* chunk.
HealedUnlessLost ==
  \A c \in ChunkID :
    <>[](stable /\ Repairable(c) /\ NoneLost(c)) => <>[]WellReplicated(c)

\* The same of every chunk of which one running node still holds a replica.
UnderReplicatedHealed ==
  \A c \in ChunkID : <>[](stable /\ Repairable(c)) => <>[]WellReplicated(c)

=============================================================================
