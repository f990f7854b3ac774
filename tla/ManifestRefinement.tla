------------------------ MODULE ManifestRefinement ------------------------
(***************************************************************************)
(* Manifest implements FileService: the state of a file is its status      *)
(* column, a file is being read by a handler between GetFile's first       *)
(* statement and its answer, and the answer is whole when every chunk of   *)
(* the file is in the plan with ReplicationFactor nodes, and nothing else. *)
(***************************************************************************)
EXTENDS Manifest

\* The files.status column as clients see it.
ServiceState(status) ==
  CASE status = "none"      -> "absent"
    [] status = "pending"   -> "uploading"
    [] status = "committed" -> "published"
    [] status = "deleted"   -> "removed"

IsReading(h) == hpc[h] \in {"chunks", "locations", "reply"}

WholePlan(h) ==
  /\ \A l \in hplan[h] : chunkFile[l[1]] = hfile[h]
  /\ \A c \in GetChunksByFileID(hfile[h]) :
       Cardinality(PlanNodes(h, c)) >= ReplicationFactor

\* The answer a handler is about to send.
ServiceReply(h) ==
  IF hpc[h] # "reply" THEN "none"
  ELSE IF WholePlan(h) THEN "whole" ELSE "torn"

FS == INSTANCE FileService WITH
        state   <- [f \in FileID |-> ServiceState(fileStatus[f])],
        reading <- [h \in Handler |-> IF IsReading(h) THEN hfile[h] ELSE NoFile],
        reply   <- [h \in Handler |-> ServiceReply(h)]

\* metad keeps the promises of FileService: each statement of each handler,
\* interleaved with those of the others, heartbeats and repairs, is a step of
\* the service or invisible to its clients.
ImplementsFileService == FS!ServiceSpec

=============================================================================
