---------------------------- MODULE FileService ----------------------------
(***************************************************************************)
(* What metad promises to its clients, with no word about tables,          *)
(* sessions, chunks or transactions: a file is published once and for all  *)
(* its chunks at the same moment, a file that was removed never comes      *)
(* back, a read starts only on a published file, and a read that is        *)
(* answered is answered with the whole of it even when the file is removed *)
(* meanwhile.  Module ManifestRefinement shows that Manifest keeps these   *)
(* promises.                                                               *)
(***************************************************************************)
CONSTANTS
  FileID,    \* the files clients create
  Handler,   \* the requests being served
  NoFile     \* a request that is about no file

VARIABLES
  state,     \* "absent", "uploading", "published" or "removed", by file
  reading,   \* the file a request reads
  reply      \* what is known of the answer to that read

serviceVars == <<state, reading, reply>>

FileState == {"absent", "uploading", "published", "removed"}
Reply == {"none", "whole", "torn"}

ServiceInit ==
  /\ state = [f \in FileID |-> "absent"]
  /\ reading = [h \in Handler |-> NoFile]
  /\ reply = [h \in Handler |-> "none"]

\* The file f moves to a later state.
Move(f, from, to) ==
  /\ state[f] \in from
  /\ state' = [state EXCEPT ![f] = to]
  /\ UNCHANGED <<reading, reply>>

Create(f) == Move(f, {"absent"}, "uploading")

Publish(f) == Move(f, {"uploading"}, "published")

Remove(f) == Move(f, {"uploading", "published"}, "removed")

BeginRead(h, f) ==
  /\ reading[h] = NoFile
  /\ state[f] = "published"
  /\ reading' = [reading EXCEPT ![h] = f]
  /\ UNCHANGED <<state, reply>>

\* The only answer there may be is a whole one.
Assemble(h) ==
  /\ reading[h] # NoFile
  /\ reply' = [reply EXCEPT ![h] = "whole"]
  /\ UNCHANGED <<state, reading>>

\* The answer is sent, or the read ends with an error.
EndRead(h) ==
  /\ reading[h] # NoFile
  /\ reading' = [reading EXCEPT ![h] = NoFile]
  /\ reply' = [reply EXCEPT ![h] = "none"]
  /\ UNCHANGED state

ServiceNext ==
  \/ \E f \in FileID : Create(f) \/ Publish(f) \/ Remove(f)
  \/ \E h \in Handler :
       \/ \E f \in FileID : BeginRead(h, f)
       \/ Assemble(h)
       \/ EndRead(h)

ServiceSpec == ServiceInit /\ [][ServiceNext]_serviceVars

=============================================================================
