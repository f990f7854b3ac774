------------------------------ MODULE Registry ------------------------------
(***************************************************************************)
(* Who is alive: storaged's heartbeat loop (cmd/storaged/metad_client.go), *)
(* metad's Heartbeat handler (cmd/metad/server.go), the upsert it runs     *)
(* (store.UpsertNodeHeartbeat, two statements outside a transaction) and   *)
(* the health monitor (internal/metadata/registry), which takes a snapshot *)
(* of the table and then writes one row after the other.                   *)
(*                                                                         *)
(* Time is the age of a timestamp in seconds, saturating just above the    *)
(* failure timeout.  The network loses requests and answers and nodes stop *)
(* and start until `stable' is set; from then on nodes stay as they are    *)
(* and a running node's heartbeats are recorded in time.                   *)
(***************************************************************************)
EXTENDS NodeTable

CONSTANTS
  HbHandler,       \* goroutines of metad that serve Heartbeat
  FailureTimeout   \* registry.Manager.failureTimeout in seconds

ASSUME RegistryAssumption == FailureTimeout \in Nat \ {0}

VARIABLES
  age,       \* seconds since nodes.last_heartbeat, by node_id
  proc,      \* the storaged process of each node
  call,      \* the handler that serves the node's outstanding Heartbeat call
  hbpc,      \* Heartbeat handler: what it is about to do
  hbnode,    \* Heartbeat handler: whose heartbeat it serves
  hbage,     \* Heartbeat handler: seconds since it read the clock
  hbcount,   \* Heartbeat handler: healthy nodes it counted for the gauge
  mpc,       \* monitorOnce: what it is about to do
  msnap,     \* monitorOnce: the rows ListAllNodes returned
  mtodo,     \* monitorOnce: <<node, status>> it decided to write
  mcount,    \* monitorOnce: healthy nodes it counted
  gauge,     \* the healthy_nodes gauge
  stable,    \* nodes and network have stopped misbehaving
  late       \* nodes whose heartbeat was ever FailureTimeout old, in the table
             \* or in the snapshot the monitor judges by

hbVars == <<hbpc, hbnode, hbage, hbcount>>
monitorVars == <<mpc, msnap, mtodo, mcount>>
nodeVars == <<proc, call>>
registryVars == <<nodeStatus, age, nodeVars, hbVars, monitorVars, gauge, stable, late>>

None == "none"
Age == 0..(FailureTimeout + 1)
Older(a) == IF a = FailureTimeout + 1 THEN a ELSE a + 1

\* No snapshot in hand.
NoSnapshot == [n \in NodeID |-> [status |-> "none", age |-> 0]]

(* Every variable has the type the code gives it. *)
RegistryTypeOK ==
  /\ NodeTypeOK
  /\ age \in [NodeID -> Age]
  /\ proc \in [NodeID -> {"off", "starting", "running"}]
  /\ call \in [NodeID -> HbHandler \cup {None}]
  /\ hbpc \in [HbHandler -> {"idle", "update", "insert", "list", "set"}]
  /\ hbnode \in [HbHandler -> NodeID \cup {None}]
  /\ hbage \in [HbHandler -> Age]
  /\ hbcount \in [HbHandler -> 0..Cardinality(NodeID)]
  /\ mpc \in {"idle", "decide", "apply", "set"}
  /\ msnap \in [NodeID -> [status : NodeStatus, age : Age]]
  /\ mtodo \subseteq NodeID \X {"healthy", "down"}
  /\ mcount \in 0..Cardinality(NodeID)
  /\ gauge \in 0..Cardinality(NodeID)
  /\ stable \in BOOLEAN
  /\ late \subseteq NodeID

RegistryInit ==
  /\ NodeInit
  /\ age = [n \in NodeID |-> 0]
  /\ proc = [n \in NodeID |-> "off"]
  /\ call = [n \in NodeID |-> None]
  /\ hbpc = [h \in HbHandler |-> "idle"]
  /\ hbnode = [h \in HbHandler |-> None]
  /\ hbage = [h \in HbHandler |-> 0]
  /\ hbcount = [h \in HbHandler |-> 0]
  /\ mpc = "idle" /\ msnap = NoSnapshot /\ mtodo = {} /\ mcount = 0
  /\ gauge = 0
  /\ stable = FALSE
  /\ late = {}

-----------------------------------------------------------------------------
(* storaged *)

NodeStart(n) ==
  /\ ~stable
  /\ proc[n] = "off"
  /\ proc' = [proc EXCEPT ![n] = "starting"]
  /\ UNCHANGED <<nodeStatus, age, call, hbVars, monitorVars, gauge, stable, late>>

\* Stop or crash; a handler that serves its call carries on.
NodeStop(n) ==
  /\ ~stable
  /\ proc[n] # "off"
  /\ proc' = [proc EXCEPT ![n] = "off"]
  /\ call' = [call EXCEPT ![n] = None]
  /\ UNCHANGED <<nodeStatus, age, hbVars, monitorVars, gauge, stable, late>>

\* The call reaches a handler; storaged waits for the answer before it sends
\* another.  The first heartbeat of a starting node is its registration.
SendHeartbeat(n, h) ==
  /\ proc[n] # "off"
  /\ call[n] = None
  /\ hbpc[h] = "idle"
  /\ call' = [call EXCEPT ![n] = h]
  /\ hbpc' = [hbpc EXCEPT ![h] = "update"]
  /\ hbnode' = [hbnode EXCEPT ![h] = n]
  /\ UNCHANGED <<nodeStatus, age, proc, hbage, hbcount, monitorVars, gauge, stable, late>>

\* Mutant: a failed heartbeat ends the loop instead of being logged.
CallReturnsOnce(n, ok) ==
  /\ proc' = [proc EXCEPT ![n] = IF ok THEN "running"
                                ELSE IF @ = "starting" THEN "off" ELSE @]
  /\ call' = [call EXCEPT ![n] = IF ok \/ proc[n] = "starting" THEN None ELSE @]

\* newMetadClient gives up when the first heartbeat fails and storaged exits;
\* startHeartbeat only logs a failure and sends again at the next tick.
CallReturns(n, ok) ==
  /\ proc' = [proc EXCEPT ![n] = IF ok THEN "running"
                                ELSE IF @ = "starting" THEN "off" ELSE @]
  /\ call' = [call EXCEPT ![n] = None]

\* Handler h answers; a caller that stopped or gave up does not see it.
Answer(h, ok) ==
  IF call[hbnode[h]] = h THEN CallReturns(hbnode[h], ok) ELSE UNCHANGED nodeVars

\* The call fails on the way: no handler sees it, or its answer is lost.
CallFails(n) ==
  /\ ~stable
  /\ proc[n] # "off"
  /\ CallReturns(n, FALSE)
  /\ UNCHANGED <<nodeStatus, age, hbVars, monitorVars, gauge, stable, late>>

-----------------------------------------------------------------------------
(* metad: the Heartbeat handler *)

\* History: which recorded heartbeats are as old as the timeout.
NoteLate == late' = late \cup {n \in NodeID : age'[n] >= FailureTimeout}

HbReturn(h) ==
  /\ hbpc' = [hbpc EXCEPT ![h] = "idle"]
  /\ hbnode' = [hbnode EXCEPT ![h] = None]
  /\ hbage' = [hbage EXCEPT ![h] = 0]
  /\ hbcount' = [hbcount EXCEPT ![h] = 0]

\* UpsertNodeHeartbeat read the clock when the handler started and writes
\* that time, however long the statement had to wait for the connection.
HbUpdate(h) ==
  LET n == hbnode[h]
  IN /\ hbpc[h] = "update"
     /\ UpdateNodeStatus(n, "healthy")
     /\ age' = IF n \in ListAllNodes THEN [age EXCEPT ![n] = hbage[h]] ELSE age
     /\ NoteLate
     /\ hbpc' = [hbpc EXCEPT ![h] = IF n \in ListAllNodes THEN "list" ELSE "insert"]
     /\ UNCHANGED <<nodeVars, hbnode, hbage, hbcount, monitorVars, gauge, stable>>

HbInsert(h) ==
  /\ hbpc[h] = "insert"
  /\ InsertNode(hbnode[h])
  /\ age' = [age EXCEPT ![hbnode[h]] = hbage[h]]
  /\ NoteLate
  /\ hbpc' = [hbpc EXCEPT ![h] = "list"]
  /\ UNCHANGED <<nodeVars, hbnode, hbage, hbcount, monitorVars, gauge, stable>>

\* A second first heartbeat of the same node was faster: the INSERT fails.
HbInsertConflict(h) ==
  /\ hbpc[h] = "insert"
  /\ hbnode[h] \in ListAllNodes
  /\ Answer(h, FALSE)
  /\ HbReturn(h)
  /\ UNCHANGED <<nodeStatus, age, monitorVars, gauge, stable, late>>

\* The healthy nodes are counted by one statement and the gauge set later.
HbList(h) ==
  /\ hbpc[h] = "list"
  /\ hbcount' = [hbcount EXCEPT ![h] = Cardinality(ListHealthyNodes)]
  /\ hbpc' = [hbpc EXCEPT ![h] = "set"]
  /\ UNCHANGED <<nodeStatus, age, nodeVars, hbnode, hbage, monitorVars, gauge, stable, late>>

HbAnswer(h) ==
  /\ hbpc[h] = "set"
  /\ gauge' = hbcount[h]
  /\ Answer(h, TRUE)
  /\ HbReturn(h)
  /\ UNCHANGED <<nodeStatus, age, monitorVars, stable, late>>

\* A statement fails or the context of the call is cancelled.
HbError(h) ==
  /\ ~stable
  /\ hbpc[h] \in {"update", "insert"}
  /\ Answer(h, FALSE)
  /\ HbReturn(h)
  /\ UNCHANGED <<nodeStatus, age, monitorVars, gauge, stable, late>>

\* Counting the healthy nodes fails: the heartbeat is answered all the same.
HbListFails(h) ==
  /\ ~stable
  /\ hbpc[h] = "list"
  /\ Answer(h, TRUE)
  /\ HbReturn(h)
  /\ UNCHANGED <<nodeStatus, age, monitorVars, gauge, stable, late>>

-----------------------------------------------------------------------------
(* metad: the monitor *)

\* Mutant: stale one second before the timeout.
StaleAnswersEarly(last) == {last >= FailureTimeout - 1}

\* Mutant: the operands of the subtraction are swapped, nothing is stale.
StaleAnswersNever(last) == {0 - last > FailureTimeout}

\* now.Sub(last) > failureTimeout, where last was cut to whole seconds and
\* now was not: at exactly the timeout it may go either way.
StaleAnswers(last) ==
  IF last = FailureTimeout THEN {TRUE, FALSE} ELSE {last > FailureTimeout}

MonitorList ==
  /\ mpc = "idle"
  /\ msnap' = [n \in NodeID |-> [status |-> nodeStatus[n], age |-> age[n]]]
  /\ mpc' = "decide"
  /\ UNCHANGED <<nodeStatus, age, nodeVars, hbVars, mtodo, mcount, gauge, stable, late>>

\* The clock is read after the rows: the snapshot may have aged since.
MonitorDecide ==
  /\ mpc = "decide"
  /\ \E stale \in [NodeID -> BOOLEAN] :
       /\ \A n \in NodeID : stale[n] \in StaleAnswers(msnap[n].age)
       /\ mtodo' =
            {<<n, "down">> : n \in {m \in NodeID : stale[m] /\ msnap[m].status = "healthy"}}
              \cup
            {<<n, "healthy">> : n \in {m \in NodeID : ~stale[m] /\ msnap[m].status = "down"}}
  /\ msnap' = NoSnapshot
  /\ mpc' = "apply"
  /\ UNCHANGED <<nodeStatus, age, nodeVars, hbVars, mcount, gauge, stable, late>>

\* The status decided from the snapshot is written whatever the row holds by
\* then.
MonitorWrite(n, status) ==
  /\ mpc = "apply"
  /\ <<n, status>> \in mtodo
  /\ UpdateNodeStatus(n, status)
  /\ mtodo' = mtodo \ {<<n, status>>}
  /\ UNCHANGED <<age, nodeVars, hbVars, mpc, msnap, mcount, gauge, stable, late>>

MonitorCount ==
  /\ mpc = "apply"
  /\ mtodo = {}
  /\ mcount' = Cardinality(ListHealthyNodes)
  /\ mpc' = "set"
  /\ UNCHANGED <<nodeStatus, age, nodeVars, hbVars, msnap, mtodo, gauge, stable, late>>

\* Mutant: a pass that ends does not set the gauge.
MonitorGaugeSkipped ==
  /\ mpc = "set"
  /\ mpc' = "idle"
  /\ mcount' = 0
  /\ UNCHANGED <<nodeStatus, age, nodeVars, hbVars, msnap, mtodo, gauge, stable, late>>

MonitorGauge ==
  /\ mpc = "set"
  /\ gauge' = mcount
  /\ mpc' = "idle"
  /\ mcount' = 0
  /\ UNCHANGED <<nodeStatus, age, nodeVars, hbVars, msnap, mtodo, stable, late>>

\* A statement of the pass fails: listing the nodes ends it, an update is
\* skipped, and without a count the gauge keeps its value.
MonitorFails ==
  /\ ~stable
  /\ mpc = "apply"
  /\ \/ mtodo = {} /\ mpc' = "idle" /\ UNCHANGED mtodo
     \/ \E w \in mtodo : mtodo' = mtodo \ {w} /\ UNCHANGED mpc
  /\ UNCHANGED <<nodeStatus, age, nodeVars, hbVars, msnap, mcount, gauge, stable, late>>

-----------------------------------------------------------------------------
(* Time *)

\* Once stable, a running node's heartbeat is sent and recorded before the
\* recorded one, or the one on its way, is as old as the timeout, and the
\* monitor judges its snapshot before that too.
InTime(n) ==
  stable /\ proc[n] # "off" =>
    /\ age[n] + 1 < FailureTimeout
    /\ msnap[n].age + 1 < FailureTimeout
    /\ \A h \in HbHandler : hbnode[h] = n => hbage[h] + 1 < FailureTimeout

Tick ==
  /\ \A n \in NodeID : InTime(n)
  /\ age' = [n \in NodeID |-> IF n \in ListAllNodes THEN Older(age[n]) ELSE 0]
  /\ hbage' = [h \in HbHandler |-> IF hbpc[h] = "idle" THEN 0 ELSE Older(hbage[h])]
  /\ msnap' = [n \in NodeID |->
       IF msnap[n].status = "none" THEN msnap[n] ELSE [msnap[n] EXCEPT !.age = Older(@)]]
  /\ late' = late \cup {n \in NodeID : age'[n] >= FailureTimeout
                                         \/ msnap'[n].age >= FailureTimeout}
  /\ UNCHANGED <<nodeStatus, nodeVars, hbpc, hbnode, hbcount, mpc, mtodo, mcount, gauge, stable>>

Stabilize ==
  /\ ~stable
  /\ stable' = TRUE
  /\ UNCHANGED <<nodeStatus, age, nodeVars, hbVars, monitorVars, gauge, late>>

\* metad restarts: handlers, monitor and gauge start anew, the table stays.
MetadRestart ==
  /\ ~stable
  /\ proc' = [n \in NodeID |-> IF call[n] # None /\ proc[n] = "starting" THEN "off" ELSE proc[n]]
  /\ call' = [n \in NodeID |-> None]
  /\ hbpc' = [h \in HbHandler |-> "idle"]
  /\ hbnode' = [h \in HbHandler |-> None]
  /\ hbage' = [h \in HbHandler |-> 0]
  /\ hbcount' = [h \in HbHandler |-> 0]
  /\ mpc' = "idle" /\ msnap' = NoSnapshot /\ mtodo' = {} /\ mcount' = 0
  /\ gauge' = 0
  /\ UNCHANGED <<nodeStatus, age, stable, late>>

Handle(h) == HbUpdate(h) \/ HbInsert(h) \/ HbInsertConflict(h) \/ HbList(h) \/ HbAnswer(h)

Monitor ==
  \/ MonitorList \/ MonitorDecide \/ MonitorCount \/ MonitorGauge
  \/ \E n \in NodeID, status \in {"healthy", "down"} : MonitorWrite(n, status)

RegistryNext ==
  \/ \E n \in NodeID : NodeStart(n) \/ NodeStop(n) \/ CallFails(n)
  \/ \E n \in NodeID, h \in HbHandler : SendHeartbeat(n, h)
  \/ \E h \in HbHandler : Handle(h) \/ HbError(h) \/ HbListFails(h)
  \/ Monitor
  \/ MonitorFails
  \/ Tick
  \/ MetadRestart
  \/ Stabilize

\* The runtime schedules every goroutine: handlers finish, the monitor's
\* ticker fires again and again, a running storaged keeps sending, and time
\* passes.
RegistryFairness ==
  /\ \A h \in HbHandler : WF_registryVars(Handle(h))
  /\ \A n \in NodeID : WF_registryVars(\E h \in HbHandler : SendHeartbeat(n, h))
  /\ WF_registryVars(Monitor)
  /\ WF_registryVars(Tick)

RegistrySpec == RegistryInit /\ [][RegistryNext]_registryVars /\ RegistryFairness

-----------------------------------------------------------------------------
(* Properties *)

\* A node whose heartbeat was never as old as the timeout, neither in the table
\* nor in the rows the monitor had read when it looked at the clock, is never
\* marked down, however the monitor's writes and the two statements of the
\* upsert interleave.
PunctualNeverDown ==
  \A n \in NodeID \ late : nodeStatus[n] # "down"

\* A running node ends up healthy for good once the network behaves, even
\* when the monitor overwrote a fresh heartbeat with a stale verdict.
RunningBecomesHealthy ==
  \A n \in NodeID :
    <>[](stable /\ proc[n] = "running") => <>[](nodeStatus[n] = "healthy")

\* A node that is gone is not offered for placement for ever: late handlers
\* and monitor passes cannot keep it healthy.
StoppedBecomesDown ==
  \A n \in NodeID : <>[](stable /\ proc[n] = "off") => <>[](nodeStatus[n] # "healthy")

\* The healthy_nodes gauge, read and set in two steps by several goroutines,
\* settles on the number of healthy nodes.
GaugeConverges ==
  <>[]stable => <>[](gauge = Cardinality(ListHealthyNodes))

=============================================================================
