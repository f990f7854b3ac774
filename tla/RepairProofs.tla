---------------------------- MODULE RepairProofs ----------------------------
(***************************************************************************)
(* Proofs about module Repair, for any files, chunks and nodes, any        *)
(* replication factor and any number of faults.                            *)
(*                                                                         *)
(* The scanner acts on locations it read many steps ago without a lock.    *)
(* What saves it is a fact about everybody else: a chunk that is listed    *)
(* belongs to a file that is no longer pending, no file becomes pending    *)
(* again, and a commit adds locations to chunks of a pending file only.    *)
(* So the locations that were read stay locations, although a list cut     *)
(* short may have left some out.                                           *)
(***************************************************************************)
EXTENDS Repair, WellFoundedInduction, TLAPS

\* The file of chunk c is past its upload.
Settled(c) == fileStatus[ChunkOf[c]] # "pending"

\* A location is on record only for a chunk of a settled file.
LocationsSettled == \A c \in ChunkID : GetChunkLocations(c) # {} => Settled(c)

\* What the scanner lists or holds is settled.
ScanSettled ==
  /\ \A c \in rscan : Settled(c)
  /\ rchunk # NoChunk => Settled(rchunk)

\* The locations the scanner read are still locations of the chunk.
LocationsCurrent ==
  rpc \notin {"idle", "next"} => rchunk \in ChunkID /\ rlocs \subseteq GetChunkLocations(rchunk)

\* The target is a node that is not among them, and once the call has
\* succeeded the target was given the chunk.
TargetIsNew ==
  /\ rpc \in {"copy", "record"} => rtarget \in NodeID \ rlocs
  /\ rpc = "record" => <<rchunk, rtarget>> \in everHeld

\* The inductive invariant.
RepairInv ==
  /\ RepairTypeOK
  /\ chunkFile = ChunkOf
  /\ RecordedWasStored
  /\ LocationsSettled
  /\ ScanSettled
  /\ LocationsCurrent
  /\ TargetIsNew

-----------------------------------------------------------------------------
(* The operators of the scanner *)

\* The first row of a result that is not empty is one of its rows.
LEMMA FirstIn ==
  ASSUME NEW S \in SUBSET NodeID, S # {}
  PROVE  First(S) \in S
<1> DEFINE ranks == {Rank[n] : n \in S}
<1>1. ranks \subseteq Nat /\ ranks # {}
  BY RepairAssumption
<1>2. PICK x \in ranks : \A y \in ranks : ~ (<<y, x>> \in OpToRel(<, Nat))
  BY <1>1, WFMin, NatLessThanWellFounded
<1>3. \A y \in ranks : ~(y < x)
  BY <1>1, <1>2 DEF OpToRel
<1>4. PICK n \in S : x = Rank[n]
  BY <1>2
<1>5. \A m \in S : Rank[n] <= Rank[m]
  <2> TAKE m \in S
  <2>1. Rank[m] \in ranks /\ Rank[m] \in Nat /\ Rank[n] \in Nat
    BY RepairAssumption
  <2>2. ~(Rank[m] < Rank[n])
    BY <1>3, <1>4, <2>1
  <2> QED
    BY <2>1, <2>2
<1> QED
  BY <1>5 DEF First

\* A fault is counted within its bound.
LEMMA FaultType ==
  ASSUME faults \in 0..MaxFaults, Fault
  PROVE  faults' \in 0..MaxFaults
BY RepairAssumption DEF Fault

\* The UPDATE of a node's status keeps the column well typed.
LEMMA NodeStatusType ==
  ASSUME NodeTypeOK, NEW n \in NodeID, NEW status \in {"healthy", "down"},
         UpdateNodeStatus(n, status)
  PROVE  NodeTypeOK'
BY DEF NodeTypeOK, NodeStatus, UpdateNodeStatus

\* No file becomes pending: an UPDATE to another status leaves settled what
\* was settled.
LEMMA FileStatusStep ==
  ASSUME RepairTypeOK, NEW f \in FileID, NEW status \in {"committed", "deleted"},
         UpdateFileStatus(f, status)
  PROVE  /\ fileStatus' \in [FileID -> FileStatus]
         /\ \A c \in ChunkID : Settled(c) => Settled(c)'
BY RepairAssumption DEF RepairTypeOK, FileTablesTypeOK, FileStatus, UpdateFileStatus, Settled

\* Going on with the next chunk drops all that was read of this one.
LEMMA ContinueInv ==
  ASSUME RepairInv, Continue, UNCHANGED fileStatus
  PROVE  /\ rpc' \in ScanPC /\ rscan' \subseteq ChunkID
         /\ rchunk' \in ChunkID \cup {NoChunk}
         /\ rlocs' \subseteq NodeID /\ rtodo' \subseteq NodeID /\ rhealthy' \subseteq NodeID
         /\ rtarget' \in NodeID \cup {NoNode}
         /\ ScanSettled' /\ LocationsCurrent' /\ TargetIsNew'
BY DEF RepairInv, RepairTypeOK, Continue, ScanPC, ScanSettled, LocationsCurrent, TargetIsNew, Settled

\* What holds of tables and disks after a step of the scanner that only reads.
LEMMA ReadOnlyFrame ==
  ASSUME RepairInv, UNCHANGED <<tableVars, nodeUp, stored, everHeld, stable>>
  PROVE  /\ FileTablesTypeOK' /\ NodeTypeOK'
         /\ nodeUp' \subseteq NodeID
         /\ stored' \subseteq ChunkID \X NodeID /\ everHeld' \subseteq ChunkID \X NodeID
         /\ stable' \in BOOLEAN
         /\ chunkFile' = ChunkOf
         /\ RecordedWasStored' /\ LocationsSettled'
         /\ \A c \in ChunkID : GetChunkLocations(c)' = GetChunkLocations(c)
         /\ \A c : Settled(c)' <=> Settled(c)
BY DEF RepairInv, RepairTypeOK, FileTablesTypeOK, NodeTypeOK, tableVars, RecordedWasStored,
       LocationsSettled, GetChunkLocations, Settled

\* What holds of the scanner after a step that is not its own, when the chunk
\* in hand keeps its locations and settled files stay settled.
LEMMA ScannerFrame ==
  ASSUME RepairInv, UNCHANGED scanVars, everHeld \subseteq everHeld',
         \A c \in ChunkID : Settled(c) => Settled(c)',
         \A c \in ChunkID : Settled(c) => GetChunkLocations(c)' = GetChunkLocations(c)
  PROVE  /\ rpc' \in ScanPC /\ rscan' \subseteq ChunkID
         /\ rchunk' \in ChunkID \cup {NoChunk}
         /\ rlocs' \subseteq NodeID /\ rtodo' \subseteq NodeID /\ rhealthy' \subseteq NodeID
         /\ rtarget' \in NodeID \cup {NoNode}
         /\ ScanSettled' /\ LocationsCurrent' /\ TargetIsNew'
<1>1. UNCHANGED <<rpc, rscan, rchunk, rlocs, rtodo, rhealthy, rtarget>>
  BY DEF scanVars
<1>2. ScanSettled'
  BY <1>1 DEF RepairInv, RepairTypeOK, ScanSettled
<1>3. LocationsCurrent'
  BY <1>1, RepairAssumption DEF RepairInv, RepairTypeOK, ScanSettled, LocationsCurrent
<1>4. TargetIsNew'
  BY <1>1 DEF RepairInv, TargetIsNew
<1> QED
  BY <1>1, <1>2, <1>3, <1>4 DEF RepairInv, RepairTypeOK

-----------------------------------------------------------------------------
(* scanOnce and repairChunk *)

\* The pass lists chunks of committed files, takes the next, skips it, ends.
LEMMA ScanInv ==
  ASSUME RepairInv,
         \/ ScanStart \/ ScanStartShort \/ ScanEnd
         \/ \E c \in ChunkID : ScanNext(c) \/ ScanNextShort(c) \/ ScanSkips(c)
  PROVE  RepairInv'
<1> USE DEF RepairInv, RepairTypeOK, ScanPC
<1>1. UNCHANGED <<tableVars, nodeUp, stored, everHeld, stable>>
  BY DEF ScanStart, ScanStartShort, ScanEnd, ScanNext, ScanNextShort, ScanSkips, worldVars
<1>2. faults' \in 0..MaxFaults
  BY FaultType DEF ScanStart, ScanStartShort, ScanEnd, ScanNext, ScanNextShort, ScanSkips, worldVars
<1>3. CASE ScanStart \/ ScanStartShort
  <2>1. rscan' \subseteq ListCommittedChunks /\ UNCHANGED <<rchunk, rlocs, rtodo, rhealthy, rtarget>>
    BY <1>3 DEF ScanStart, ScanStartShort
  <2>2. rpc' = "next"
    BY <1>3 DEF ScanStart, ScanStartShort
  <2>3. ScanSettled'
    BY <1>1, <2>1, ReadOnlyFrame DEF ScanSettled, ListCommittedChunks, Settled, tableVars
  <2>4. LocationsCurrent' /\ TargetIsNew'
    BY <2>2 DEF LocationsCurrent, TargetIsNew
  <2> QED
    BY <1>1, <1>2, <2>1, <2>2, <2>3, <2>4, ReadOnlyFrame DEF ListCommittedChunks
<1>4. CASE ScanEnd
  <2>1. ScanSettled' /\ LocationsCurrent' /\ TargetIsNew'
    BY <1>1, <1>4, ReadOnlyFrame DEF ScanEnd, ScanSettled, LocationsCurrent, TargetIsNew
  <2> QED
    BY <1>1, <1>2, <1>4, <2>1, ReadOnlyFrame DEF ScanEnd
<1>5. ASSUME NEW c \in ChunkID, ScanNext(c) \/ ScanNextShort(c)
      PROVE  RepairInv'
  <2>1. /\ c \in rscan /\ rscan' = rscan \ {c} /\ rchunk' = c /\ rpc' = "count"
        /\ rlocs' \subseteq GetChunkLocations(c) /\ rtodo' = rlocs' /\ rhealthy' = {}
        /\ rtarget' = rtarget
    BY <1>5 DEF ScanNext, ScanNextShort
  <2>2. ScanSettled' /\ LocationsCurrent' /\ TargetIsNew'
    BY <1>1, <2>1, ReadOnlyFrame DEF ScanSettled, LocationsCurrent, TargetIsNew
  <2>3. GetChunkLocations(c) \subseteq NodeID
    BY DEF GetChunkLocations
  <2> QED
    BY <1>1, <1>2, <2>1, <2>2, <2>3, ReadOnlyFrame
<1>6. ASSUME NEW c \in ChunkID, ScanSkips(c)
      PROVE  RepairInv'
  <2>1. ScanSettled' /\ LocationsCurrent' /\ TargetIsNew'
    BY <1>1, <1>6, ReadOnlyFrame DEF ScanSkips, ScanSettled, LocationsCurrent, TargetIsNew
  <2> QED
    BY <1>1, <1>2, <1>6, <2>1, ReadOnlyFrame DEF ScanSkips
<1> QED
  BY <1>3, <1>4, <1>5, <1>6

\* The health of a location is read, or cannot be.
LEMMA ReadHealthInv ==
  ASSUME RepairInv, NEW n \in NodeID, ReadHealth(n) \/ ReadHealthFails(n)
  PROVE  RepairInv'
<1>1. UNCHANGED <<tableVars, nodeUp, stored, everHeld, stable>>
  BY DEF ReadHealth, ReadHealthFails, worldVars
<1>2. UNCHANGED <<rpc, rscan, rchunk, rlocs, rtarget>>
  BY DEF ReadHealth, ReadHealthFails
<1>3. faults' \in 0..MaxFaults
  BY FaultType DEF RepairInv, RepairTypeOK, ReadHealth, ReadHealthFails, worldVars
<1>4. rtodo' \subseteq NodeID /\ rhealthy' \subseteq NodeID
  BY DEF RepairInv, RepairTypeOK, ReadHealth, ReadHealthFails
<1>5. ScanSettled' /\ LocationsCurrent' /\ TargetIsNew'
  BY <1>1, <1>2, ReadOnlyFrame DEF RepairInv, ScanSettled, LocationsCurrent, TargetIsNew
<1> QED
  BY <1>1, <1>2, <1>3, <1>4, <1>5, ReadOnlyFrame DEF RepairInv, RepairTypeOK

\* A step that only gives this chunk up.
LEMMA GiveUpInv ==
  ASSUME RepairInv, Continue, UNCHANGED <<tableVars, nodeUp, stored, everHeld, stable>>,
         faults' = faults \/ Fault
  PROVE  RepairInv'
<1>1. faults' \in 0..MaxFaults
  BY FaultType DEF RepairInv, RepairTypeOK
<1>2. UNCHANGED fileStatus
  BY DEF tableVars
<1> QED
  BY <1>1, <1>2, ReadOnlyFrame, ContinueInv DEF RepairInv, RepairTypeOK

\* The decisions between the reads: repair or not, a source, a target.
LEMMA DecideInv ==
  ASSUME RepairInv, CountDone \/ SourcesDone \/ ChooseTarget \/ ChooseTargetShort
  PROVE  RepairInv'
<1>1. UNCHANGED <<tableVars, nodeUp, stored, everHeld, stable>> /\ (faults' = faults \/ Fault)
  BY DEF CountDone, SourcesDone, ChooseTarget, ChooseTargetShort, worldVars
<1>9. faults' \in 0..MaxFaults
  BY <1>1, FaultType DEF RepairInv, RepairTypeOK
<1>2. CASE Continue
  BY <1>1, <1>2, GiveUpInv
<1>3. CASE rpc = "count" /\ rpc' = "sources" /\ rtodo' = rlocs /\ rhealthy' = {}
             /\ UNCHANGED <<rscan, rchunk, rlocs, rtarget>>
  <2>1. ScanSettled' /\ LocationsCurrent' /\ TargetIsNew'
    BY <1>1, <1>3, ReadOnlyFrame DEF RepairInv, ScanSettled, LocationsCurrent, TargetIsNew
  <2> QED
    BY <1>1, <1>3, <1>9, <2>1, ReadOnlyFrame DEF RepairInv, RepairTypeOK, ScanPC
<1>4. CASE rpc = "sources" /\ rpc' = "target"
             /\ UNCHANGED <<rscan, rchunk, rlocs, rtodo, rhealthy, rtarget>>
  <2>1. ScanSettled' /\ LocationsCurrent' /\ TargetIsNew'
    BY <1>1, <1>4, ReadOnlyFrame DEF RepairInv, ScanSettled, LocationsCurrent, TargetIsNew
  <2> QED
    BY <1>1, <1>4, <1>9, <2>1, ReadOnlyFrame DEF RepairInv, RepairTypeOK, ScanPC
<1>5. ASSUME NEW S \in SUBSET Candidates, S # {}, rpc = "target", rpc' = "copy",
             rtarget' = First(S), UNCHANGED <<rscan, rchunk, rlocs, rtodo, rhealthy>>
      PROVE  RepairInv'
  <2>1. rtarget' \in NodeID \ rlocs
    <3>1. S \in SUBSET NodeID
      BY DEF Candidates, ListHealthyNodes
    <3>2. rtarget' \in S
      BY <1>5, <3>1, FirstIn
    <3> QED
      BY <3>2 DEF Candidates, ListHealthyNodes
  <2>2. ScanSettled' /\ LocationsCurrent' /\ TargetIsNew'
    BY <1>1, <1>5, <2>1, ReadOnlyFrame DEF RepairInv, ScanSettled, LocationsCurrent, TargetIsNew
  <2> QED
    BY <1>1, <1>5, <1>9, <2>1, <2>2, ReadOnlyFrame DEF RepairInv, RepairTypeOK, ScanPC
<1>6. CASE CountDone
  BY <1>2, <1>3, <1>6 DEF CountDone
<1>7. CASE SourcesDone
  BY <1>2, <1>4, <1>7 DEF SourcesDone
<1>8. CASE ChooseTarget
  <2>1. CASE Continue
    BY <1>2, <2>1
  <2>2. CASE ~Continue
    <3>1. /\ rpc = "target" /\ Candidates # {} /\ rtarget' = First(Candidates) /\ rpc' = "copy"
          /\ UNCHANGED <<rscan, rchunk, rlocs, rtodo, rhealthy>>
      BY <1>8, <2>2 DEF ChooseTarget
    <3> QED
      BY <1>5, <3>1
  <2> QED
    BY <2>1, <2>2
<1>10. CASE ChooseTargetShort
  BY <1>5, <1>10 DEF ChooseTargetShort
<1> QED
  BY <1>6, <1>7, <1>8, <1>10

\* CopyChunk succeeds: the target holds the chunk before the row is inserted.
LEMMA CopySucceedsInv ==
  ASSUME RepairInv, CopySucceeds
  PROVE  RepairInv'
<1>1. UNCHANGED <<fileStatus, chunkFile, chunkLocations, nodeStatus, nodeUp, stable, faults,
                  rscan, rchunk, rlocs, rtodo, rhealthy, rtarget>>
  BY DEF CopySucceeds, tableVars
<1>2. rchunk \in ChunkID /\ rtarget \in NodeID \ rlocs
  BY DEF RepairInv, LocationsCurrent, TargetIsNew, CopySucceeds
<1>3. /\ stored' \subseteq ChunkID \X NodeID /\ everHeld' \subseteq ChunkID \X NodeID
      /\ everHeld \subseteq everHeld' /\ <<rchunk, rtarget>> \in everHeld'
  BY <1>2 DEF RepairInv, RepairTypeOK, CopySucceeds
<1>4. RepairTypeOK'
  BY <1>1, <1>3 DEF RepairInv, RepairTypeOK, FileTablesTypeOK, NodeTypeOK, CopySucceeds, ScanPC
<1>5. RecordedWasStored' /\ LocationsSettled' /\ ScanSettled'
  BY <1>1, <1>3 DEF RepairInv, RecordedWasStored, LocationsSettled, ScanSettled, Settled,
                    GetChunkLocations
<1>6. LocationsCurrent' /\ TargetIsNew'
  BY <1>1, <1>2, <1>3
     DEF RepairInv, LocationsCurrent, TargetIsNew, GetChunkLocations, CopySucceeds
<1> QED
  BY <1>1, <1>4, <1>5, <1>6 DEF RepairInv

\* CopyChunk breaks off, with or without a copy left on the target.
LEMMA CopyBreaksInv ==
  ASSUME RepairInv, CopyBreaks
  PROVE  RepairInv'
<1>1. UNCHANGED <<fileStatus, chunkFile, chunkLocations, nodeStatus, nodeUp, stable>>
  BY DEF CopyBreaks, tableVars
<1>2. rchunk \in ChunkID /\ rtarget \in NodeID
  BY DEF RepairInv, LocationsCurrent, TargetIsNew, CopyBreaks
<1>3. /\ stored' \subseteq ChunkID \X NodeID /\ everHeld' \subseteq ChunkID \X NodeID
      /\ everHeld \subseteq everHeld'
  <2>1. PICK kept \in SUBSET {<<rchunk, rtarget>>} :
          stored' = stored \cup kept /\ everHeld' = everHeld \cup kept
    BY DEF CopyBreaks
  <2>2. kept \subseteq ChunkID \X NodeID
    BY <1>2, <2>1
  <2> QED
    BY <2>1, <2>2 DEF RepairInv, RepairTypeOK
<1>4. faults' \in 0..MaxFaults
  BY FaultType DEF RepairInv, RepairTypeOK, CopyBreaks
<1>5. Continue
  BY DEF CopyBreaks
<1>6. RepairTypeOK'
  BY <1>1, <1>3, <1>4, <1>5, ContinueInv DEF RepairInv, RepairTypeOK, FileTablesTypeOK, NodeTypeOK
<1>7. RecordedWasStored' /\ LocationsSettled'
  BY <1>1, <1>3 DEF RepairInv, RecordedWasStored, LocationsSettled, Settled, GetChunkLocations
<1> QED
  BY <1>1, <1>5, <1>6, <1>7, ContinueInv DEF RepairInv

\* The row is inserted: the target was given the chunk, and the file of the
\* chunk is settled.
LEMMA RecordLocationInv ==
  ASSUME RepairInv, RecordLocation
  PROVE  RepairInv'
<1>1. UNCHANGED <<fileStatus, chunkFile, nodeStatus, nodeUp, stored, everHeld, stable, faults>>
  BY DEF RecordLocation, worldVars
<1>2. /\ rchunk \in ChunkID /\ rtarget \in NodeID
      /\ Settled(rchunk) /\ <<rchunk, rtarget>> \in everHeld
  BY RepairAssumption
     DEF RepairInv, LocationsCurrent, TargetIsNew, ScanSettled, RecordLocation
<1>3. chunkLocations' = chunkLocations \cup {<<rchunk, rtarget>>} /\ Continue
  BY DEF RecordLocation, AddChunkLocation
<1>4. RepairTypeOK'
  BY <1>1, <1>2, <1>3, ContinueInv DEF RepairInv, RepairTypeOK, FileTablesTypeOK, NodeTypeOK
<1>5. RecordedWasStored' /\ LocationsSettled'
  BY <1>1, <1>2, <1>3
     DEF RepairInv, RecordedWasStored, LocationsSettled, Settled, GetChunkLocations
<1> QED
  BY <1>1, <1>3, <1>4, <1>5, ContinueInv DEF RepairInv

-----------------------------------------------------------------------------
(* The world around the scanner *)

\* Nodes stop and return, their status changes, replicas are lost: no table of
\* files, chunks or locations is touched.
LEMMA WorldInv ==
  ASSUME RepairInv,
         \/ \E n \in NodeID : NodeStops(n) \/ NodeReturns(n) \/ HealthCatchesUp(n) \/ FalseAlarm(n)
         \/ \E c \in ChunkID, n \in NodeID : ReplicaLost(c, n)
         \/ Stabilize
  PROVE  RepairInv'
<1>1. UNCHANGED <<fileStatus, chunkFile, chunkLocations, everHeld, scanVars>>
  BY DEF NodeStops, NodeReturns, HealthCatchesUp, FalseAlarm, ReplicaLost, Stabilize,
         tableVars, worldVars
<1>2. NodeTypeOK'
  BY NodeStatusType
     DEF RepairInv, RepairTypeOK, NodeTypeOK, NodeStops, NodeReturns, HealthCatchesUp, FalseAlarm,
         ReplicaLost, Stabilize, tableVars
<1>3. /\ nodeUp' \subseteq NodeID /\ stored' \subseteq ChunkID \X NodeID
      /\ stable' \in BOOLEAN
  BY DEF RepairInv, RepairTypeOK, NodeStops, NodeReturns, HealthCatchesUp, FalseAlarm,
         ReplicaLost, Stabilize, worldVars
<1>4. faults' \in 0..MaxFaults
  BY FaultType
     DEF RepairInv, RepairTypeOK, NodeStops, NodeReturns, HealthCatchesUp, FalseAlarm,
         ReplicaLost, Stabilize, worldVars
<1>5. /\ \A c \in ChunkID : Settled(c) => Settled(c)'
      /\ \A c \in ChunkID : GetChunkLocations(c)' = GetChunkLocations(c)
  BY <1>1 DEF Settled, GetChunkLocations
<1>6. RepairTypeOK'
  BY <1>1, <1>2, <1>3, <1>4, <1>5, ScannerFrame DEF RepairInv, RepairTypeOK, FileTablesTypeOK
<1>7. RecordedWasStored' /\ LocationsSettled'
  BY <1>1, <1>5 DEF RepairInv, RecordedWasStored, LocationsSettled
<1> QED
  BY <1>1, <1>5, <1>6, <1>7, ScannerFrame DEF RepairInv

\* A commit adds locations to the chunks of a file that was pending, so none
\* to a chunk the scanner lists or holds.
LEMMA FileCommittedInv ==
  ASSUME RepairInv, NEW f \in FileID, FileCommitted(f)
  PROVE  RepairInv'
<1> DEFINE cs == GetChunksByFileID(f)
<1>1. UNCHANGED <<chunkFile, nodeStatus, scanVars, nodeUp, stable, faults>>
  BY DEF FileCommitted
<1>2. PICK place \in [cs -> {S \in SUBSET nodeUp : Cardinality(S) = ReplicationFactor}] :
        LET rows == UNION {{c} \X place[c] : c \in cs}
        IN /\ chunkLocations' = chunkLocations \cup rows
           /\ stored' = stored \cup rows
           /\ everHeld' = everHeld \cup rows
  BY DEF FileCommitted
<1> DEFINE rows == UNION {{c} \X place[c] : c \in cs}
<1>3. rows \subseteq cs \X NodeID
  BY <1>2 DEF RepairInv, RepairTypeOK
<1>4. \A c \in cs : c \in ChunkID /\ ChunkOf[c] = f
  BY DEF GetChunksByFileID, RepairInv
<1>5. \A c \in cs : ~Settled(c)
  BY <1>4 DEF Settled, FileCommitted
<1> HIDE DEF cs, rows
<1>6. /\ chunkLocations' = chunkLocations \cup rows
      /\ stored' = stored \cup rows
      /\ everHeld' = everHeld \cup rows
  BY <1>2 DEF rows
<1>7. rows \subseteq ChunkID \X NodeID
  BY <1>3, <1>4
<1>8. /\ fileStatus' \in [FileID -> FileStatus]
      /\ \A c \in ChunkID : Settled(c) => Settled(c)'
  BY FileStatusStep DEF RepairInv, FileCommitted
<1>9. \A c \in ChunkID : Settled(c) => GetChunkLocations(c)' = GetChunkLocations(c)
  BY <1>3, <1>5, <1>6 DEF GetChunkLocations
<1>10. \A c \in cs : Settled(c)'
  BY <1>4, RepairAssumption
     DEF Settled, FileCommitted, UpdateFileStatus, RepairInv, RepairTypeOK, FileTablesTypeOK
<1>11. RepairTypeOK'
  BY <1>1, <1>6, <1>7, <1>8, <1>9, ScannerFrame
     DEF RepairInv, RepairTypeOK, FileTablesTypeOK, NodeTypeOK
<1>12. RecordedWasStored'
  BY <1>6 DEF RepairInv, RecordedWasStored
<1>13. LocationsSettled'
  BY <1>3, <1>6, <1>8, <1>10 DEF RepairInv, LocationsSettled, GetChunkLocations
<1> QED
  BY <1>1, <1>6, <1>8, <1>9, <1>11, <1>12, <1>13, ScannerFrame DEF RepairInv

\* A deletion changes the status of one file and no other row.
LEMMA FileDeletedInv ==
  ASSUME RepairInv, NEW f \in FileID, FileDeleted(f)
  PROVE  RepairInv'
<1>1. UNCHANGED <<chunkFile, chunkLocations, nodeStatus, scanVars, nodeUp, stored, everHeld,
                  stable, faults>>
  BY DEF FileDeleted, worldVars
<1>2. /\ fileStatus' \in [FileID -> FileStatus]
      /\ \A c \in ChunkID : Settled(c) => Settled(c)'
  BY FileStatusStep DEF RepairInv, FileDeleted
<1>3. \A c \in ChunkID : GetChunkLocations(c)' = GetChunkLocations(c)
  BY <1>1 DEF GetChunkLocations
<1>4. RepairTypeOK'
  BY <1>1, <1>2, <1>3, ScannerFrame DEF RepairInv, RepairTypeOK, FileTablesTypeOK, NodeTypeOK
<1>5. RecordedWasStored' /\ LocationsSettled'
  BY <1>1, <1>2, <1>3 DEF RepairInv, RecordedWasStored, LocationsSettled
<1> QED
  BY <1>1, <1>2, <1>3, <1>4, <1>5, ScannerFrame DEF RepairInv

\* metad restarts: the pass is gone and with it all that was read.
LEMMA RestartInv ==
  ASSUME RepairInv, Restart
  PROVE  RepairInv'
<1>1. UNCHANGED <<tableVars, nodeUp, stored, everHeld, stable>>
  BY DEF Restart
<1>2. faults' \in 0..MaxFaults
  BY FaultType DEF RepairInv, RepairTypeOK, Restart
<1>3. ScanSettled' /\ LocationsCurrent' /\ TargetIsNew'
  BY DEF Restart, ScanSettled, LocationsCurrent, TargetIsNew
<1> QED
  BY <1>1, <1>2, <1>3, ReadOnlyFrame DEF RepairInv, RepairTypeOK, Restart, ScanPC

\* Every step keeps the invariant.
LEMMA RepairNextInv ==
  RepairInv /\ [RepairNext]_repairVars => RepairInv'
<1> SUFFICES ASSUME RepairInv, [RepairNext]_repairVars
             PROVE  RepairInv'
  OBVIOUS
<1>1. CASE Scanner
  <2>1. CASE CopyFails \/ RecordRefused
    BY <2>1, GiveUpInv DEF CopyFails, RecordRefused, worldVars
  <2> QED
    BY <1>1, <2>1, ScanInv, ReadHealthInv, DecideInv, CopySucceedsInv, RecordLocationInv DEF Scanner
<1>2. CASE CopyBreaks
  BY <1>2, CopyBreaksInv
<1>3. CASE StatementFails
  BY <1>3, GiveUpInv DEF StatementFails
<1>4. CASE \E n \in NodeID : ReadHealthFails(n)
  BY <1>4, ReadHealthInv
<1>5. CASE ScanStartShort \/ ChooseTargetShort \/ \E c \in ChunkID : ScanSkips(c) \/ ScanNextShort(c)
  BY <1>5, ScanInv, DecideInv
<1>6. CASE \E f \in FileID : FileCommitted(f) \/ FileDeleted(f)
  BY <1>6, FileCommittedInv, FileDeletedInv
<1>7. CASE Restart
  BY <1>7, RestartInv
<1>8. CASE UNCHANGED repairVars
  <2>1. UNCHANGED <<tableVars, nodeUp, stored, everHeld, stable, faults, scanVars>>
    BY <1>8 DEF repairVars, worldVars
  <2> QED
    BY <2>1, ReadOnlyFrame, ScannerFrame DEF RepairInv, RepairTypeOK
<1> QED
  BY <1>1, <1>2, <1>3, <1>4, <1>5, <1>6, <1>7, <1>8, WorldInv DEF RepairNext

-----------------------------------------------------------------------------

\* The inductive invariant holds in every reachable state.
THEOREM RepairInvariant == RepairSpec => []RepairInv
<1>1. RepairInit => RepairInv
  <2> SUFFICES ASSUME RepairInit
               PROVE  RepairInv
    OBVIOUS
  <2>1. PICK place \in [ChunkID -> {S \in SUBSET NodeID : Cardinality(S) = ReplicationFactor}] :
          chunkLocations = UNION {{c} \X place[c] :
                             c \in {d \in ChunkID : fileStatus[ChunkOf[d]] = "committed"}}
    BY DEF RepairInit
  <2>2. chunkLocations \subseteq ChunkID \X NodeID
    BY <2>1
  <2>3. \A c, n : <<c, n>> \in chunkLocations => fileStatus[ChunkOf[c]] = "committed"
    BY <2>1
  <2>4. RepairTypeOK
    <3>1. FileTablesTypeOK
      BY <2>2, RepairAssumption DEF RepairInit, FileTablesTypeOK, FileStatus
    <3>2. NodeTypeOK
      BY DEF RepairInit, NodeTypeOK, NodeStatus
    <3>3. stored \subseteq ChunkID \X NodeID /\ everHeld \subseteq ChunkID \X NodeID
      BY <2>2 DEF RepairInit
    <3>4. stable \in BOOLEAN /\ faults \in 0..MaxFaults
      <4>1. stable = FALSE /\ faults = 0
        BY DEF RepairInit
      <4>2. 0 \in 0..MaxFaults
        BY RepairAssumption
      <4> QED
        BY <4>1, <4>2
    <3>5. nodeUp \subseteq NodeID
      BY DEF RepairInit
    <3>6. /\ rpc \in ScanPC /\ rscan \subseteq ChunkID /\ rchunk \in ChunkID \cup {NoChunk}
          /\ rlocs \subseteq NodeID /\ rtodo \subseteq NodeID /\ rhealthy \subseteq NodeID
          /\ rtarget \in NodeID \cup {NoNode}
      BY DEF RepairInit, ScanPC
    <3> QED
      BY <3>1, <3>2, <3>3, <3>4, <3>5, <3>6 DEF RepairTypeOK
  <2>5. RecordedWasStored /\ LocationsSettled
    BY <2>3 DEF RepairInit, RecordedWasStored, LocationsSettled, GetChunkLocations, Settled
  <2>6. ScanSettled /\ LocationsCurrent /\ TargetIsNew
    BY DEF RepairInit, ScanSettled, LocationsCurrent, TargetIsNew
  <2> QED
    BY <2>4, <2>5, <2>6 DEF RepairInit, RepairInv
<1>2. RepairInv /\ [RepairNext]_repairVars => RepairInv'
  BY RepairNextInv
<1> QED
  BY <1>1, <1>2, PTL DEF RepairSpec

\* Type correctness of the tables, the scanner and the disks.
THEOREM RepairTypeCorrect == RepairSpec => []RepairTypeOK
<1>1. RepairInv => RepairTypeOK
  BY DEF RepairInv
<1> QED
  BY <1>1, RepairInvariant, PTL

\* A location on record is a node that was given the chunk, whatever failed,
\* broke off or restarted on the way.
THEOREM LocationsWereStored == RepairSpec => []RecordedWasStored
<1>1. RepairInv => RecordedWasStored
  BY DEF RepairInv
<1> QED
  BY <1>1, RepairInvariant, PTL

\* Uploads in progress have no location and are never in the scanner's hand.
THEOREM UploadsLeftAlone == RepairSpec => []PendingUntouched
<1>1. RepairInv => PendingUntouched
  BY RepairAssumption DEF RepairInv, LocationsSettled, ScanSettled, Settled, PendingUntouched
<1> QED
  BY <1>1, RepairInvariant, PTL

-----------------------------------------------------------------------------
(* Where repair copies from, and what it does to the tables *)

\* The scanner asks about the locations it read and about no other node, and
\* goes past the choice of a source only when it has one.
SourcesAreLocations ==
  /\ rtodo \subseteq rlocs /\ rhealthy \subseteq rlocs
  /\ rpc \in {"target", "copy", "record"} => rhealthy # {}

\* Every step keeps it.
LEMMA SourcesNext ==
  SourcesAreLocations /\ [RepairNext]_repairVars => SourcesAreLocations'
<1> SUFFICES ASSUME SourcesAreLocations, [RepairNext]_repairVars
             PROVE  SourcesAreLocations'
  OBVIOUS
<1> USE DEF SourcesAreLocations
<1>1. CASE Continue \/ Restart
  BY <1>1 DEF Continue, Restart
<1>2. CASE UNCHANGED scanVars
  BY <1>2 DEF scanVars
<1>3. ASSUME NEW c \in ChunkID, ScanNext(c) \/ ScanNextShort(c) \/ ScanSkips(c)
      PROVE  SourcesAreLocations'
  BY <1>3 DEF ScanNext, ScanNextShort, ScanSkips
<1>4. CASE ScanStart \/ ScanStartShort \/ ScanEnd \/ CopySucceeds
  BY <1>4 DEF ScanStart, ScanStartShort, ScanEnd, CopySucceeds
<1>5. ASSUME NEW n \in NodeID, ReadHealth(n) \/ ReadHealthFails(n)
      PROVE  SourcesAreLocations'
  <2>1. rpc \notin {"target", "copy", "record"} /\ UNCHANGED <<rpc, rlocs>> /\ n \in rtodo
    BY <1>5 DEF ReadHealth, ReadHealthFails
  <2>2. rtodo' \subseteq rtodo /\ rhealthy' \subseteq rhealthy \cup {n}
    BY <1>5 DEF ReadHealth, ReadHealthFails
  <2> QED
    BY <2>1, <2>2
<1>6. CASE CountDone
  BY <1>1, <1>6 DEF CountDone
<1>7. CASE SourcesDone
  BY <1>1, <1>7 DEF SourcesDone
<1>8. CASE ChooseTarget \/ ChooseTargetShort
  BY <1>1, <1>8 DEF ChooseTarget, ChooseTargetShort
<1>9. CASE CopyFails \/ CopyBreaks \/ StatementFails \/ RecordLocation \/ RecordRefused
  BY <1>1, <1>9 DEF CopyFails, CopyBreaks, StatementFails, RecordLocation, RecordRefused
<1>10. CASE \/ \E n \in NodeID : NodeStops(n) \/ NodeReturns(n) \/ HealthCatchesUp(n) \/ FalseAlarm(n)
            \/ \E c \in ChunkID, n \in NodeID : ReplicaLost(c, n)
            \/ \E f \in FileID : FileCommitted(f) \/ FileDeleted(f)
            \/ Stabilize
  BY <1>2, <1>10 DEF NodeStops, NodeReturns, HealthCatchesUp, FalseAlarm, ReplicaLost,
                     FileCommitted, FileDeleted, Stabilize
<1>11. CASE UNCHANGED repairVars
  BY <1>2, <1>11 DEF repairVars
<1> QED
  BY <1>1, <1>3, <1>4, <1>5, <1>6, <1>7, <1>8, <1>9, <1>10, <1>11 DEF RepairNext, Scanner

\* Both invariants, of the tables and of the sources.
LEMMA RepairSources == RepairSpec => [](RepairInv /\ SourcesAreLocations)
<1>1. RepairInit => SourcesAreLocations
  BY DEF RepairInit, SourcesAreLocations
<1>2. SourcesAreLocations /\ [RepairNext]_repairVars => SourcesAreLocations'
  BY SourcesNext
<1> QED
  BY <1>1, <1>2, RepairInvariant, PTL DEF RepairSpec

\* Nothing is copied onto itself or from a node that was never given the chunk,
\* although source, target and locations come from statements far apart, each
\* of which may have lost rows.
THEOREM CopiesFromRecorded == RepairSpec => []CopyFromRecorded
<1>1. RepairInv /\ SourcesAreLocations => CopyFromRecorded
  <2> SUFFICES ASSUME RepairInv, SourcesAreLocations, rpc = "copy"
               PROVE  /\ Source \in GetChunkLocations(rchunk) \ {rtarget}
                      /\ <<rchunk, Source>> \in everHeld
    BY DEF CopyFromRecorded
  <2>1. rhealthy \in SUBSET NodeID /\ rhealthy # {} /\ rhealthy \subseteq rlocs
    BY DEF RepairInv, RepairTypeOK, SourcesAreLocations
  <2>2. Source \in rlocs
    BY <2>1, FirstIn DEF Source
  <2>3. rlocs \subseteq GetChunkLocations(rchunk) /\ rtarget \notin rlocs
    BY DEF RepairInv, LocationsCurrent, TargetIsNew
  <2> QED
    BY <2>2, <2>3 DEF RepairInv, RecordedWasStored, GetChunkLocations
<1> QED
  BY <1>1, RepairSources, PTL

\* A step of the scanner, failed or not, or the end of its pass by a restart.
ScannerStep ==
  \/ Scanner \/ CopyBreaks \/ StatementFails \/ Restart
  \/ ScanStartShort \/ ChooseTargetShort
  \/ \E n \in NodeID : ReadHealthFails(n)
  \/ \E c \in ChunkID : ScanSkips(c) \/ ScanNextShort(c)

\* It leaves the tables alone or takes the step module Manifest allows repair.
ScannerWritesAsAssumed ==
  ScannerStep =>
    \/ UNCHANGED tableVars
    \/ /\ \E c \in ChunkID, n \in NodeID : RepairRecords(c, n)
       /\ UNCHANGED <<fileStatus, chunkFile, nodeStatus>>

\* The scanner inserts one row, for a chunk that has a location at that moment
\* and not the one it inserts, and writes nothing else: what Manifest, Cluster
\* and SqliteTx assume of repair when they let it record a replica in one step.
THEOREM RepairWritesAsAssumed == RepairSpec => [][ScannerWritesAsAssumed]_repairVars
<1>1. ASSUME RepairInv, SourcesAreLocations, RecordLocation
      PROVE  /\ \E c \in ChunkID, n \in NodeID : RepairRecords(c, n)
             /\ UNCHANGED <<fileStatus, chunkFile, nodeStatus>>
  <2>1. rchunk \in ChunkID /\ rtarget \in NodeID /\ rlocs \subseteq GetChunkLocations(rchunk)
    BY <1>1 DEF RepairInv, LocationsCurrent, TargetIsNew, RecordLocation
  <2>2. GetChunkLocations(rchunk) # {}
    BY <1>1, <2>1 DEF SourcesAreLocations, RecordLocation
  <2> QED
    BY <1>1, <2>1, <2>2 DEF RecordLocation, RepairRecords
<1>2. ASSUME ScannerStep
      PROVE  RecordLocation \/ UNCHANGED tableVars
  BY <1>2 DEF ScannerStep, Scanner, ScanStart, ScanEnd, CountDone, SourcesDone, ChooseTarget,
              CopySucceeds, CopyFails, RecordRefused, ScanNext, ReadHealth, CopyBreaks,
              StatementFails, Restart, ReadHealthFails, ScanSkips, ScanStartShort, ScanNextShort,
              ChooseTargetShort
<1>3. RepairInv /\ SourcesAreLocations /\ [RepairNext]_repairVars
        => [ScannerWritesAsAssumed]_repairVars
  BY <1>1, <1>2 DEF ScannerWritesAsAssumed
<1> QED
  BY <1>3, RepairSources, PTL DEF RepairSpec

=============================================================================
