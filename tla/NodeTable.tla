----------------------------- MODULE NodeTable -----------------------------
(***************************************************************************)
(* The table nodes of the metadata database: the status column by node_id  *)
(* ("none" for no row) and the statements on it.  The column               *)
(* last_heartbeat is kept by module Registry, the only one that looks at   *)
(* it; addresses and capacities are left out.                              *)
(***************************************************************************)
EXTENDS Integers, FiniteSets

CONSTANT NodeID      \* nodes.node_id

ASSUME NodeAssumption == IsFiniteSet(NodeID)

VARIABLE nodeStatus  \* nodes.status by node_id

NodeStatus == {"none", "healthy", "down"}

NodeTypeOK == nodeStatus \in [NodeID -> NodeStatus]

NodeInit == nodeStatus = [n \in NodeID |-> "none"]

ListHealthyNodes == {n \in NodeID : nodeStatus[n] = "healthy"}

ListAllNodes == {n \in NodeID : nodeStatus[n] # "none"}

\* An UPDATE of a row that does not exist changes no row and is no error.
UpdateNodeStatus(n, status) ==
  nodeStatus' = [nodeStatus EXCEPT ![n] = IF @ = "none" THEN @ ELSE status]

\* Mutant: the new row gets a status the other statements do not know.
InsertNodePending(n) ==
  /\ nodeStatus[n] = "none"
  /\ nodeStatus' = [nodeStatus EXCEPT ![n] = "pending"]

\* An INSERT of a node_id that has a row breaks the primary key.
InsertNode(n) ==
  /\ nodeStatus[n] = "none"
  /\ nodeStatus' = [nodeStatus EXCEPT ![n] = "healthy"]

\* What a heartbeat writes in the end, and what the monitor writes.
HeartbeatMarks(n) == nodeStatus' = [nodeStatus EXCEPT ![n] = "healthy"]

MonitorMarks(n) == n \in ListHealthyNodes /\ UpdateNodeStatus(n, "down")

=============================================================================
