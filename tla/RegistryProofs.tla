--------------------------- MODULE RegistryProofs ---------------------------
(***************************************************************************)
(* Proofs about module Registry, for any nodes, any number of Heartbeat    *)
(* handlers and any failure timeout.                                       *)
(*                                                                         *)
(* PunctualNeverDown is not inductive: the monitor writes a verdict it     *)
(* reached earlier from a snapshot older still.  The chain is followed     *)
(* back: what is still to be written was decided from a snapshot of a late *)
(* node, and the rows of a node that was never late, in the table and in   *)
(* the snapshot, are younger than the timeout.                             *)
(***************************************************************************)
EXTENDS Registry, FiniteSetTheorems, TLAPS

\* A handler that is at work serves the heartbeat of a node.
HandlersServeNodes ==
  \A h \in HbHandler : hbpc[h] # "idle" => hbnode[h] \in NodeID

\* What the table and the monitor hold of a node that was never late.
PunctualIsYoung ==
  \A n \in NodeID \ late : age[n] < FailureTimeout /\ msnap[n].age < FailureTimeout

\* The verdict "down" is only ever reached about a late node.
VerdictOnlyOnLate == \A n \in NodeID : <<n, "down">> \in mtodo => n \in late

\* The inductive invariant.
RegistryInv ==
  /\ RegistryTypeOK
  /\ HandlersServeNodes
  /\ PunctualIsYoung
  /\ VerdictOnlyOnLate
  /\ PunctualNeverDown

-----------------------------------------------------------------------------

\* The number of healthy nodes is a value of the gauge.
LEMMA HealthyCount == Cardinality(ListHealthyNodes) \in 0..Cardinality(NodeID)
<1>1. IsFiniteSet(NodeID)
  BY NodeAssumption
<1>2. ListHealthyNodes \subseteq NodeID
  BY DEF ListHealthyNodes
<1>3. /\ Cardinality(NodeID) \in Nat
      /\ Cardinality(ListHealthyNodes) \in Nat
      /\ Cardinality(ListHealthyNodes) <= Cardinality(NodeID)
  BY <1>1, <1>2, FS_Subset, FS_CardinalityType
<1> QED
  BY <1>3

\* A timestamp that grows older stays in the range of ages and does not
\* become younger.
LEMMA OlderAge ==
  ASSUME NEW a \in Age
  PROVE  Older(a) \in Age /\ Older(a) >= a
BY RegistryAssumption DEF Age, Older

\* The UPDATE of a status keeps the column well typed and touches one row.
LEMMA UpdateNodeStatusType ==
  ASSUME NodeTypeOK, NEW n \in NodeID, NEW status \in {"healthy", "down"},
         UpdateNodeStatus(n, status)
  PROVE  /\ NodeTypeOK'
         /\ \A m \in NodeID : nodeStatus'[m] = nodeStatus[m] \/ (m = n /\ nodeStatus'[m] = status)
BY DEF NodeTypeOK, NodeStatus, UpdateNodeStatus

\* A time younger than the timeout is not found stale.
LEMMA YoungIsNotStale ==
  ASSUME NEW last \in Int, last < FailureTimeout
  PROVE  \A answer \in StaleAnswers(last) : answer = FALSE
<1>1. last # FailureTimeout /\ ~(last > FailureTimeout)
  BY RegistryAssumption
<1>2. StaleAnswers(last) = {last > FailureTimeout}
  BY <1>1 DEF StaleAnswers
<1>3. (last > FailureTimeout) = FALSE
  BY <1>1
<1> QED
  BY <1>2, <1>3, Zenon

\* An answer leaves processes and calls well typed, whether or not anybody
\* waits for it.
LEMMA AnswerType ==
  ASSUME RegistryTypeOK, NEW h \in HbHandler, hbnode[h] \in NodeID, NEW ok \in BOOLEAN,
         Answer(h, ok)
  PROVE  /\ proc' \in [NodeID -> {"off", "starting", "running"}]
         /\ call' \in [NodeID -> HbHandler \cup {None}]
BY DEF RegistryTypeOK, Answer, CallReturns, nodeVars

\* What a handler holds after it has answered.
LEMMA HbReturnInv ==
  ASSUME RegistryTypeOK, HandlersServeNodes, NEW h \in HbHandler, HbReturn(h)
  PROVE  /\ hbpc' \in [HbHandler -> {"idle", "update", "insert", "list", "set"}]
         /\ hbnode' \in [HbHandler -> NodeID \cup {None}]
         /\ hbage' \in [HbHandler -> Age]
         /\ hbcount' \in [HbHandler -> 0..Cardinality(NodeID)]
         /\ HandlersServeNodes'
<1>1. 0 \in Age
  BY RegistryAssumption DEF Age
<1>2. 0 \in 0..Cardinality(NodeID)
  BY NodeAssumption, FS_CardinalityType
<1> QED
  BY <1>1, <1>2 DEF RegistryTypeOK, HandlersServeNodes, HbReturn

\* A step that changes neither the table, nor the snapshot, nor what is to be
\* written, nor the history keeps the three parts about punctual nodes.
LEMMA PunctualUnchanged ==
  ASSUME RegistryInv, UNCHANGED <<nodeStatus, age, msnap, late>>, mtodo' \subseteq mtodo
  PROVE  PunctualIsYoung' /\ VerdictOnlyOnLate' /\ PunctualNeverDown'
BY DEF RegistryInv, PunctualIsYoung, VerdictOnlyOnLate, PunctualNeverDown

-----------------------------------------------------------------------------
(* One lemma per group of actions. *)

\* storaged starts, stops, sends a heartbeat or gives up on one.
LEMMA NodeStepInv ==
  ASSUME RegistryInv, NEW n \in NodeID,
         \/ NodeStart(n) \/ NodeStop(n) \/ CallFails(n)
         \/ \E h \in HbHandler : SendHeartbeat(n, h)
  PROVE  RegistryInv'
<1>1. /\ UNCHANGED <<nodeStatus, age, msnap, late>>
      /\ mtodo' \subseteq mtodo
  BY DEF NodeStart, NodeStop, CallFails, SendHeartbeat, monitorVars
<1>2. PunctualIsYoung' /\ VerdictOnlyOnLate' /\ PunctualNeverDown'
  BY <1>1, PunctualUnchanged
<1>3. CASE NodeStart(n) \/ NodeStop(n) \/ CallFails(n)
  <2>1. RegistryTypeOK' /\ HandlersServeNodes'
    BY <1>3 DEF RegistryInv, RegistryTypeOK, NodeTypeOK, HandlersServeNodes, NodeStart,
                NodeStop, CallFails, CallReturns, hbVars, monitorVars
  <2> QED
    BY <1>2, <2>1 DEF RegistryInv
<1>4. ASSUME NEW h \in HbHandler, SendHeartbeat(n, h)
      PROVE  RegistryInv'
  <2>1. RegistryTypeOK' /\ HandlersServeNodes'
    BY <1>4 DEF RegistryInv, RegistryTypeOK, NodeTypeOK, HandlersServeNodes, SendHeartbeat,
                monitorVars
  <2> QED
    BY <1>2, <2>1 DEF RegistryInv
<1> QED
  BY <1>3, <1>4

\* The two statements of UpsertNodeHeartbeat write the time the handler read,
\* however old it is by then; a time as old as the timeout makes the node late.
LEMMA UpsertInv ==
  ASSUME RegistryInv, NEW h \in HbHandler, HbUpdate(h) \/ HbInsert(h)
  PROVE  RegistryInv'
<1> DEFINE n == hbnode[h]
<1>1. n \in NodeID
  BY DEF RegistryInv, HandlersServeNodes, HbUpdate, HbInsert
<1>2. hbage[h] \in Age
  BY DEF RegistryInv, RegistryTypeOK
<1>3. /\ NodeTypeOK'
      /\ \A m \in NodeID : nodeStatus'[m] = "down" => nodeStatus[m] = "down"
  <2>1. CASE HbUpdate(h)
    BY <1>1, <2>1, UpdateNodeStatusType DEF RegistryInv, RegistryTypeOK, HbUpdate
  <2>2. CASE HbInsert(h)
    BY <1>1, <2>2 DEF RegistryInv, RegistryTypeOK, NodeTypeOK, NodeStatus, HbInsert, InsertNode
  <2> QED
    BY <2>1, <2>2
<1>4. age' \in [NodeID -> Age]
  BY <1>1, <1>2 DEF RegistryInv, RegistryTypeOK, HbUpdate, HbInsert
<1>5. late' = late \cup {m \in NodeID : age'[m] >= FailureTimeout}
  BY DEF HbUpdate, HbInsert, NoteLate
<1>6. UNCHANGED <<proc, call, hbnode, hbage, hbcount, mpc, msnap, mtodo, mcount, gauge, stable>>
  BY DEF HbUpdate, HbInsert, nodeVars, monitorVars
<1>7. RegistryTypeOK' /\ HandlersServeNodes'
  <2>1. /\ hbpc' \in [HbHandler -> {"idle", "update", "insert", "list", "set"}]
        /\ \A g \in HbHandler : hbpc'[g] # "idle" => hbpc[g] # "idle"
    BY DEF RegistryInv, RegistryTypeOK, HbUpdate, HbInsert
  <2> QED
    BY <1>3, <1>4, <1>5, <1>6, <2>1 DEF RegistryInv, RegistryTypeOK, HandlersServeNodes
<1>8. PunctualIsYoung'
  <2> SUFFICES ASSUME NEW m \in NodeID \ late'
               PROVE  age'[m] < FailureTimeout /\ msnap'[m].age < FailureTimeout
    BY DEF PunctualIsYoung
  <2>1. m \notin late /\ ~(age'[m] >= FailureTimeout)
    BY <1>5
  <2>2. age'[m] \in Int /\ FailureTimeout \in Int
    BY <1>4, RegistryAssumption DEF Age
  <2>3. msnap'[m].age < FailureTimeout
    BY <1>6, <2>1 DEF RegistryInv, PunctualIsYoung
  <2> QED
    BY <2>1, <2>2, <2>3
<1>9. VerdictOnlyOnLate' /\ PunctualNeverDown'
  BY <1>3, <1>5, <1>6 DEF RegistryInv, VerdictOnlyOnLate, PunctualNeverDown
<1> QED
  BY <1>7, <1>8, <1>9 DEF RegistryInv

\* The rest of the handler: the count for the gauge, the answer, the errors.
LEMMA HandlerRestInv ==
  ASSUME RegistryInv, NEW h \in HbHandler,
         \/ HbInsertConflict(h) \/ HbList(h) \/ HbAnswer(h)
         \/ HbError(h) \/ HbListFails(h)
  PROVE  RegistryInv'
<1>1. /\ UNCHANGED <<nodeStatus, age, msnap, late, mpc, mcount, mtodo, stable>>
      /\ mtodo' \subseteq mtodo
  BY DEF HbInsertConflict, HbList, HbAnswer, HbError, HbListFails, monitorVars
<1>2. PunctualIsYoung' /\ VerdictOnlyOnLate' /\ PunctualNeverDown'
  BY <1>1, PunctualUnchanged
<1>3. hbnode[h] \in NodeID
  BY DEF RegistryInv, HandlersServeNodes, HbInsertConflict, HbList, HbAnswer, HbError, HbListFails
<1>4. CASE HbList(h)
  <2>1. RegistryTypeOK' /\ HandlersServeNodes'
    BY <1>1, <1>4, HealthyCount
       DEF RegistryInv, RegistryTypeOK, NodeTypeOK, HandlersServeNodes, HbList, nodeVars
  <2> QED
    BY <1>2, <2>1 DEF RegistryInv
<1>5. CASE HbInsertConflict(h) \/ HbAnswer(h) \/ HbError(h) \/ HbListFails(h)
  <2>1. HbReturn(h) /\ \E ok \in BOOLEAN : Answer(h, ok)
    BY <1>5 DEF HbInsertConflict, HbAnswer, HbError, HbListFails
  <2>2. gauge' \in 0..Cardinality(NodeID)
    <3>1. gauge' = gauge \/ gauge' = hbcount[h]
      BY <1>5 DEF HbInsertConflict, HbAnswer, HbError, HbListFails
    <3> QED
      BY <3>1 DEF RegistryInv, RegistryTypeOK
  <2>3. RegistryTypeOK' /\ HandlersServeNodes'
    BY <1>1, <1>3, <2>1, <2>2, AnswerType, HbReturnInv DEF RegistryInv, RegistryTypeOK, NodeTypeOK
  <2> QED
    BY <1>2, <2>3 DEF RegistryInv
<1> QED
  BY <1>4, <1>5

\* The monitor reads the table: the snapshot of a punctual node is as young as
\* its row.
LEMMA MonitorListInv ==
  ASSUME RegistryInv, MonitorList
  PROVE  RegistryInv'
<1>1. UNCHANGED <<nodeStatus, age, proc, call, hbpc, hbnode, hbage, hbcount, mtodo, mcount,
                  gauge, stable, late>>
  BY DEF MonitorList, nodeVars, hbVars
<1>2. /\ msnap' \in [NodeID -> [status : NodeStatus, age : Age]]
      /\ \A n \in NodeID : msnap'[n].age = age[n]
  BY DEF RegistryInv, RegistryTypeOK, NodeTypeOK, MonitorList
<1>3. RegistryTypeOK' /\ HandlersServeNodes'
  BY <1>1, <1>2 DEF RegistryInv, RegistryTypeOK, NodeTypeOK, HandlersServeNodes, MonitorList
<1>4. PunctualIsYoung' /\ VerdictOnlyOnLate' /\ PunctualNeverDown'
  BY <1>1, <1>2 DEF RegistryInv, PunctualIsYoung, VerdictOnlyOnLate, PunctualNeverDown
<1> QED
  BY <1>3, <1>4 DEF RegistryInv

\* The monitor reads the clock: a snapshot younger than the timeout is never
\* found stale, so no verdict "down" is reached about a punctual node.
LEMMA MonitorDecideInv ==
  ASSUME RegistryInv, MonitorDecide
  PROVE  RegistryInv'
<1>1. UNCHANGED <<nodeStatus, age, proc, call, hbpc, hbnode, hbage, hbcount, mcount, gauge,
                  stable, late>>
  BY DEF MonitorDecide, nodeVars, hbVars
<1>2. PICK stale \in [NodeID -> BOOLEAN] :
        /\ \A n \in NodeID : stale[n] \in StaleAnswers(msnap[n].age)
        /\ mtodo' =
             {<<n, "down">> : n \in {m \in NodeID : stale[m] /\ msnap[m].status = "healthy"}}
               \cup
             {<<n, "healthy">> : n \in {m \in NodeID : ~stale[m] /\ msnap[m].status = "down"}}
  BY DEF MonitorDecide
<1>3. mtodo' \subseteq NodeID \X {"healthy", "down"}
  BY <1>2
<1>4. ASSUME NEW n \in NodeID, <<n, "down">> \in mtodo'
      PROVE  n \in late
  <2>1. stale[n]
    BY <1>2, <1>4
  <2>2. stale[n] \in StaleAnswers(msnap[n].age)
    BY <1>2
  <2>3. msnap[n].age \in Int /\ FailureTimeout \in Int
    BY RegistryAssumption DEF RegistryInv, RegistryTypeOK, Age
  <2>4. ~(msnap[n].age < FailureTimeout)
    BY <2>1, <2>2, <2>3, YoungIsNotStale
  <2> QED
    BY <2>4 DEF RegistryInv, PunctualIsYoung
<1>5. /\ msnap' \in [NodeID -> [status : NodeStatus, age : Age]]
      /\ \A n \in NodeID : msnap'[n].age = 0
  BY RegistryAssumption DEF MonitorDecide, NoSnapshot, NodeStatus, Age
<1>6. RegistryTypeOK' /\ HandlersServeNodes'
  BY <1>1, <1>3, <1>5 DEF RegistryInv, RegistryTypeOK, NodeTypeOK, HandlersServeNodes, MonitorDecide
<1>7. PunctualIsYoung'
  BY <1>1, <1>5, RegistryAssumption DEF RegistryInv, PunctualIsYoung
<1>8. VerdictOnlyOnLate' /\ PunctualNeverDown'
  BY <1>1, <1>4 DEF RegistryInv, VerdictOnlyOnLate, PunctualNeverDown
<1> QED
  BY <1>6, <1>7, <1>8 DEF RegistryInv

\* The monitor writes a verdict, whatever the row holds by then.
LEMMA MonitorWriteInv ==
  ASSUME RegistryInv, NEW n \in NodeID, NEW status \in {"healthy", "down"},
         MonitorWrite(n, status)
  PROVE  RegistryInv'
<1>1. UNCHANGED <<age, proc, call, hbpc, hbnode, hbage, hbcount, mpc, msnap, mcount, gauge,
                  stable, late>>
  BY DEF MonitorWrite, nodeVars, hbVars
<1>2. mtodo' \subseteq mtodo /\ <<n, status>> \in mtodo
  BY DEF MonitorWrite
<1>3. /\ NodeTypeOK'
      /\ \A m \in NodeID : nodeStatus'[m] = nodeStatus[m] \/ (m = n /\ nodeStatus'[m] = status)
  BY UpdateNodeStatusType DEF RegistryInv, RegistryTypeOK, MonitorWrite
<1>4. RegistryTypeOK' /\ HandlersServeNodes'
  BY <1>1, <1>2, <1>3 DEF RegistryInv, RegistryTypeOK, HandlersServeNodes
<1>5. PunctualIsYoung' /\ VerdictOnlyOnLate'
  BY <1>1, <1>2 DEF RegistryInv, PunctualIsYoung, VerdictOnlyOnLate
<1>6. PunctualNeverDown'
  BY <1>1, <1>2, <1>3 DEF RegistryInv, VerdictOnlyOnLate, PunctualNeverDown
<1> QED
  BY <1>4, <1>5, <1>6 DEF RegistryInv

\* The end of a pass, and a statement of it that fails.
LEMMA MonitorRestInv ==
  ASSUME RegistryInv, MonitorCount \/ MonitorGauge \/ MonitorFails
  PROVE  RegistryInv'
<1>1. /\ UNCHANGED <<nodeStatus, age, proc, call, hbpc, hbnode, hbage, hbcount, msnap,
                     stable, late>>
      /\ mtodo' \subseteq mtodo
  BY DEF MonitorCount, MonitorGauge, MonitorFails, nodeVars, hbVars
<1>2. PunctualIsYoung' /\ VerdictOnlyOnLate' /\ PunctualNeverDown'
  BY <1>1, PunctualUnchanged
<1>3. 0 \in 0..Cardinality(NodeID)
  BY NodeAssumption, FS_CardinalityType
<1>4. RegistryTypeOK' /\ HandlersServeNodes'
  BY <1>1, <1>3, HealthyCount
     DEF RegistryInv, RegistryTypeOK, NodeTypeOK, HandlersServeNodes, MonitorCount, MonitorGauge,
         MonitorFails
<1> QED
  BY <1>2, <1>4 DEF RegistryInv

\* A second passes: every timestamp grows older, and a node whose row or
\* snapshot reaches the timeout is late from then on.
LEMMA TickInv ==
  ASSUME RegistryInv, Tick
  PROVE  RegistryInv'
<1>1. UNCHANGED <<nodeStatus, proc, call, hbpc, hbnode, hbcount, mpc, mtodo, mcount, gauge, stable>>
  BY DEF Tick, nodeVars
<1>2. 0 \in Age
  BY RegistryAssumption DEF Age
<1>3. age' \in [NodeID -> Age] /\ hbage' \in [HbHandler -> Age]
  BY <1>2, OlderAge DEF RegistryInv, RegistryTypeOK, Tick
<1>4. msnap' \in [NodeID -> [status : NodeStatus, age : Age]]
  BY OlderAge DEF RegistryInv, RegistryTypeOK, Tick
<1>5. late' = late \cup {n \in NodeID : age'[n] >= FailureTimeout
                                          \/ msnap'[n].age >= FailureTimeout}
  BY DEF Tick
<1>6. RegistryTypeOK' /\ HandlersServeNodes'
  BY <1>1, <1>3, <1>4, <1>5 DEF RegistryInv, RegistryTypeOK, NodeTypeOK, HandlersServeNodes
<1>7. PunctualIsYoung'
  <2> SUFFICES ASSUME NEW n \in NodeID \ late'
               PROVE  age'[n] < FailureTimeout /\ msnap'[n].age < FailureTimeout
    BY DEF PunctualIsYoung
  <2>1. age'[n] \in Int /\ msnap'[n].age \in Int /\ FailureTimeout \in Int
    BY <1>3, <1>4, RegistryAssumption DEF Age
  <2> QED
    BY <1>5, <2>1
<1>8. VerdictOnlyOnLate' /\ PunctualNeverDown'
  BY <1>1, <1>5 DEF RegistryInv, VerdictOnlyOnLate, PunctualNeverDown
<1> QED
  BY <1>6, <1>7, <1>8 DEF RegistryInv

\* metad restarts with an empty snapshot and nothing to write.
LEMMA MetadRestartInv ==
  ASSUME RegistryInv, MetadRestart
  PROVE  RegistryInv'
<1>1. 0 \in Age /\ 0 < FailureTimeout
  BY RegistryAssumption DEF Age
<1>2. 0 \in 0..Cardinality(NodeID)
  BY NodeAssumption, FS_CardinalityType
<1>3. RegistryTypeOK' /\ HandlersServeNodes'
  BY <1>1, <1>2 DEF RegistryInv, RegistryTypeOK, NodeTypeOK, NodeStatus, HandlersServeNodes,
                    MetadRestart, NoSnapshot
<1>4. PunctualIsYoung' /\ VerdictOnlyOnLate' /\ PunctualNeverDown'
  BY <1>1 DEF RegistryInv, PunctualIsYoung, VerdictOnlyOnLate, PunctualNeverDown,
              MetadRestart, NoSnapshot
<1> QED
  BY <1>3, <1>4 DEF RegistryInv

\* Every step keeps the invariant.
LEMMA RegistryNextInv ==
  RegistryInv /\ [RegistryNext]_registryVars => RegistryInv'
<1> SUFFICES ASSUME RegistryInv, [RegistryNext]_registryVars
             PROVE  RegistryInv'
  OBVIOUS
<1>1. ASSUME NEW n \in NodeID,
             \/ NodeStart(n) \/ NodeStop(n) \/ CallFails(n)
             \/ \E h \in HbHandler : SendHeartbeat(n, h)
      PROVE  RegistryInv'
  BY <1>1, NodeStepInv
<1>2. ASSUME NEW h \in HbHandler, Handle(h) \/ HbError(h) \/ HbListFails(h)
      PROVE  RegistryInv'
  BY <1>2, UpsertInv, HandlerRestInv DEF Handle
<1>3. CASE Monitor \/ MonitorFails
  BY <1>3, MonitorListInv, MonitorDecideInv, MonitorWriteInv, MonitorRestInv DEF Monitor
<1>4. CASE Tick \/ MetadRestart
  BY <1>4, TickInv, MetadRestartInv
<1>5. CASE Stabilize
  BY <1>5 DEF Stabilize, RegistryInv, RegistryTypeOK, NodeTypeOK, HandlersServeNodes,
              PunctualIsYoung, VerdictOnlyOnLate, PunctualNeverDown, nodeVars, hbVars, monitorVars
<1>6. CASE UNCHANGED registryVars
  BY <1>6 DEF registryVars, RegistryInv, RegistryTypeOK, NodeTypeOK, HandlersServeNodes,
              PunctualIsYoung, VerdictOnlyOnLate, PunctualNeverDown, nodeVars, hbVars, monitorVars
<1> QED
  BY <1>1, <1>2, <1>3, <1>4, <1>5, <1>6 DEF RegistryNext

-----------------------------------------------------------------------------

\* The inductive invariant holds in every reachable state.
THEOREM RegistryInvariant == RegistrySpec => []RegistryInv
<1>1. RegistryInit => RegistryInv
  <2> SUFFICES ASSUME RegistryInit
               PROVE  RegistryInv
    OBVIOUS
  <2>1. 0 \in Age /\ 0 < FailureTimeout
    BY RegistryAssumption DEF Age
  <2>2. 0 \in 0..Cardinality(NodeID)
    BY NodeAssumption, FS_CardinalityType
  <2>3. RegistryTypeOK /\ HandlersServeNodes
    BY <2>1, <2>2 DEF RegistryInit, RegistryTypeOK, NodeInit, NodeTypeOK, NodeStatus,
                      NoSnapshot, HandlersServeNodes
  <2>4. PunctualIsYoung /\ VerdictOnlyOnLate /\ PunctualNeverDown
    BY <2>1 DEF RegistryInit, NodeInit, NoSnapshot, PunctualIsYoung, VerdictOnlyOnLate,
                PunctualNeverDown
  <2> QED
    BY <2>3, <2>4 DEF RegistryInv
<1>2. RegistryInv /\ [RegistryNext]_registryVars => RegistryInv'
  BY RegistryNextInv
<1> QED
  BY <1>1, <1>2, PTL DEF RegistrySpec

\* Type correctness of the node table, the handlers and the monitor.
THEOREM RegistryTypeCorrect == RegistrySpec => []RegistryTypeOK
<1>1. RegistryInv => RegistryTypeOK
  BY DEF RegistryInv
<1> QED
  BY <1>1, RegistryInvariant, PTL

\* A node whose heartbeat was never as old as the timeout is never marked down,
\* however handlers, monitor, restarts and lost calls interleave.
THEOREM PunctualNodesStayUp == RegistrySpec => []PunctualNeverDown
<1>1. RegistryInv => PunctualNeverDown
  BY DEF RegistryInv
<1> QED
  BY <1>1, RegistryInvariant, PTL

-----------------------------------------------------------------------------
(* What the registry does to the table everybody else reads *)

\* The two steps module Manifest allows the writers of the table nodes.
NodeTableWrite == \E n \in NodeID : HeartbeatMarks(n) \/ MonitorMarks(n)

\* An UPDATE of one status finds no row, finds the status it writes, or is one
\* of the two steps.
LEMMA StatusWrite ==
  ASSUME NodeTypeOK, NEW n \in NodeID, NEW status \in {"healthy", "down"},
         UpdateNodeStatus(n, status)
  PROVE  NodeTableWrite \/ UNCHANGED nodeStatus
<1>1. CASE nodeStatus[n] = "none" \/ nodeStatus[n] = status
  <2>1. nodeStatus' = [nodeStatus EXCEPT ![n] = nodeStatus[n]]
    BY <1>1 DEF UpdateNodeStatus
  <2>2. nodeStatus' = nodeStatus
    BY <2>1 DEF NodeTypeOK
  <2> QED
    BY <2>2
<1>2. CASE nodeStatus[n] # "none" /\ status = "healthy"
  BY <1>2 DEF UpdateNodeStatus, NodeTableWrite, HeartbeatMarks
<1>3. CASE nodeStatus[n] = "healthy" /\ status = "down"
  BY <1>3 DEF NodeTableWrite, MonitorMarks, ListHealthyNodes
<1> QED
  BY <1>1, <1>2, <1>3 DEF NodeTypeOK, NodeStatus

\* Of all the steps of storaged, the handlers and the monitor, only the two
\* statements of the upsert and the monitor's UPDATE write the table.
LEMMA RegistryTableStep ==
  RegistryInv /\ [RegistryNext]_registryVars => [NodeTableWrite]_nodeStatus
<1> SUFFICES ASSUME RegistryInv, [RegistryNext]_registryVars
             PROVE  NodeTableWrite \/ UNCHANGED nodeStatus
  OBVIOUS
<1>1. NodeTypeOK
  BY DEF RegistryInv, RegistryTypeOK
<1>2. ASSUME NEW h \in HbHandler, HbUpdate(h)
      PROVE  NodeTableWrite \/ UNCHANGED nodeStatus
  <2>1. hbnode[h] \in NodeID /\ UpdateNodeStatus(hbnode[h], "healthy")
    BY <1>2 DEF HbUpdate, RegistryInv, HandlersServeNodes
  <2> QED
    BY <1>1, <2>1, StatusWrite
<1>3. ASSUME NEW h \in HbHandler, HbInsert(h)
      PROVE  NodeTableWrite
  <2>1. hbnode[h] \in NodeID /\ InsertNode(hbnode[h])
    BY <1>3 DEF HbInsert, RegistryInv, HandlersServeNodes
  <2> QED
    BY <2>1 DEF InsertNode, NodeTableWrite, HeartbeatMarks
<1>4. ASSUME NEW n \in NodeID, NEW status \in {"healthy", "down"}, MonitorWrite(n, status)
      PROVE  NodeTableWrite \/ UNCHANGED nodeStatus
  BY <1>1, <1>4, StatusWrite DEF MonitorWrite
<1>5. ASSUME NEW h \in HbHandler,
             HbInsertConflict(h) \/ HbList(h) \/ HbAnswer(h) \/ HbError(h) \/ HbListFails(h)
      PROVE  UNCHANGED nodeStatus
  BY <1>5 DEF HbInsertConflict, HbList, HbAnswer, HbError, HbListFails
<1>6. ASSUME NEW n \in NodeID,
             \/ NodeStart(n) \/ NodeStop(n) \/ CallFails(n)
             \/ \E h \in HbHandler : SendHeartbeat(n, h)
      PROVE  UNCHANGED nodeStatus
  BY <1>6 DEF NodeStart, NodeStop, CallFails, SendHeartbeat
<1>7. ASSUME \/ MonitorList \/ MonitorDecide \/ MonitorCount \/ MonitorGauge \/ MonitorFails
             \/ Tick \/ MetadRestart \/ Stabilize
      PROVE  UNCHANGED nodeStatus
  BY <1>7 DEF MonitorList, MonitorDecide, MonitorCount, MonitorGauge, MonitorFails, Tick,
              MetadRestart, Stabilize
<1>8. CASE UNCHANGED registryVars
  BY <1>8 DEF registryVars
<1> QED
  BY <1>2, <1>3, <1>4, <1>5, <1>6, <1>7, <1>8 DEF RegistryNext, Handle, Monitor

\* The registry, with its upsert of two statements, late handlers and verdicts
\* reached from old snapshots, writes the table nodes only the way the other
\* modules assume when they let a heartbeat mark a node healthy, or the monitor
\* a healthy one down, in one step.
THEOREM RegistryWritesAsAssumed == RegistrySpec => [][NodeTableWrite]_nodeStatus
<1>1. RegistryInv /\ [RegistryNext]_registryVars => [NodeTableWrite]_nodeStatus
  BY RegistryTableStep
<1> QED
  BY <1>1, RegistryInvariant, PTL DEF RegistrySpec

=============================================================================
