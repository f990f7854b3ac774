----------------------------- MODULE ChunkStore -----------------------------
(***************************************************************************)
(* The chunk store of one storaged (internal/storage/chunkstore): chunks   *)
(* as files with a checksum header, written to a temporary file, fsynced   *)
(* and renamed, and a usage counter in memory behind a mutex.              *)
(*                                                                         *)
(* Requests run in goroutines (Thread).  Only the counter is locked: the   *)
(* file operations of two calls interleave, so each system call that       *)
(* another call can observe is an action.  The process may crash and be    *)
(* restarted (New scans the directory), the machine may lose power, and    *)
(* a block may rot; the code meets the last two with Sync and with the     *)
(* checksum.                                                               *)
(*                                                                         *)
(* SHA-256 is taken to be injective: a header is the data it was computed  *)
(* from (checksum and length together).                                    *)
(***************************************************************************)
EXTENDS Integers, FiniteSets

CONSTANTS
  Chunk,        \* chunk ids, each a path under baseDir
  Data,         \* payloads
  Bytes,        \* Bytes[d]: the length of payload d
  HeaderSize,   \* bytes of checksum and length in front of the payload
  MaxSize,      \* largest payload Put accepts
  Rotten,       \* what a rotten header or payload reads as
  Torn,         \* what content that was not synced reads as after a power loss
  None,         \* no file under a path, and no chunk or payload in a call
  Thread,       \* goroutines
  MayPut,       \* <<chunk, data>>: the payloads callers put under a chunk's id
  MaxFaults,    \* bound: crashes, power losses, rotten blocks, files not removed
  MaxDrift      \* bound: no Put or Delete starts once |usedBytes| exceeds it

ASSUME ChunkStoreAssumption ==
  /\ IsFiniteSet(Chunk) /\ IsFiniteSet(Thread)
  /\ Bytes \in [Data -> Nat]
  /\ HeaderSize \in Nat
  /\ MaxSize \in Nat
  /\ Rotten \notin Data /\ Torn \notin Data /\ Rotten # Torn
  /\ None \notin Chunk /\ None \notin Data
  /\ MayPut \subseteq Chunk \X Data
  /\ MaxFaults \in Nat
  /\ MaxDrift \in Nat

VARIABLES
  disk,      \* the file under each chunk's path, as the running system sees it
  onDisk,    \* the entries a power loss may leave under the path
  orphans,   \* bytes in temporary files no call owns any more
  usedBytes, \* DiskStore.usedBytes
  up,        \* the process is running
  faults,    \* crashes, power losses, rotten blocks, files not removed so far
  tpc,       \* what each thread is about to do
  tchunk,    \* the chunk its call is about
  tdata,     \* Put: the payload to store; Get: the payload read
  tfile,     \* Get: the open file; Delete: the file it saw with Stat
  undone,    \* Puts whose file a Delete removed before they answered
  acked,     \* <<chunk, data>> of the Puts answered with success, until deleted
  wasPut     \* <<chunk, data>> ever renamed into place

diskVars == <<disk, onDisk, orphans>>
threadVars == <<tpc, tchunk, tdata, tfile>>
historyVars == <<undone, acked, wasPut>>
chunkStoreVars == <<diskVars, usedBytes, up, faults, threadVars, historyVars>>

File == [hdr : Data \cup {Rotten}, body : Data \cup {Rotten, Torn},
         size : Nat, synced : BOOLEAN]

ASSUME NoneAssumption == None \notin File

ThreadPC == {"idle", "check", "same", "write", "sync", "rename", "putacct",
             "read", "deliver", "remove", "delacct"}

\* The files, the calls and the history.
FilesTypeOK ==
  /\ disk \in [Chunk -> File \cup {None}]
  /\ onDisk \in [Chunk -> SUBSET (File \cup {None})]
  /\ tpc \in [Thread -> ThreadPC]
  /\ tchunk \in [Thread -> Chunk \cup {None}]
  /\ tdata \in [Thread -> Data \cup {None}]
  /\ tfile \in [Thread -> File \cup {None}]
  /\ undone \subseteq Thread
  /\ acked \subseteq Chunk \X Data
  /\ wasPut \subseteq Chunk \X Data

(* Every variable has the type the code gives it; no call ever holds a       *)
(* payload that is not one of Data.                                          *)
ChunkStoreTypeOK ==
  /\ FilesTypeOK
  /\ orphans \in Nat
  /\ usedBytes \in Int
  /\ up \in BOOLEAN
  /\ faults \in 0..MaxFaults

\* Bytes a payload takes on disk.
Footprint(d) == HeaderSize + Bytes[d]

FileSize(f) == IF f = None THEN 0 ELSE f.size

\* The sum of the sizes of the files in S, as the number of their bytes.
TotalSize(size, S) == Cardinality(UNION {{x} \X (1..size[x]) : x \in S})

\* The bytes of the chunk files.
ChunkBytes == TotalSize([c \in Chunk |-> FileSize(disk[c])], Chunk)

\* scanUsedBytes: every regular file below baseDir, temporary ones included.
scanUsedBytes == orphans + ChunkBytes

Exists(c) == disk[c] # None

ChunkStoreInit ==
  /\ disk = [c \in Chunk |-> None]
  /\ onDisk = [c \in Chunk |-> {None}]
  /\ orphans = 0
  /\ usedBytes = 0
  /\ up = TRUE
  /\ faults = 0
  /\ tpc = [t \in Thread |-> "idle"]
  /\ tchunk = [t \in Thread |-> None]
  /\ tdata = [t \in Thread |-> None]
  /\ tfile = [t \in Thread |-> None]
  /\ undone = {} /\ acked = {} /\ wasPut = {}

Goto(t, pc) == tpc' = [tpc EXCEPT ![t] = pc]

\* The call returns and its goroutine ends.
Return(t) ==
  /\ Goto(t, "idle")
  /\ tchunk' = [tchunk EXCEPT ![t] = None]
  /\ tdata' = [tdata EXCEPT ![t] = None]
  /\ tfile' = [tfile EXCEPT ![t] = None]

\* The process ends and every call with it.
ReturnAll ==
  /\ tpc' = [t \in Thread |-> "idle"]
  /\ tchunk' = [t \in Thread |-> None]
  /\ tdata' = [t \in Thread |-> None]
  /\ tfile' = [t \in Thread |-> None]

-----------------------------------------------------------------------------
(* Put *)

\* The context check, io.ReadAll, the size limit and the checksum.  The
\* context is not looked at again: a Put outlives the caller that gave up.
\* undone starts afresh with the call; no guard reads it.
PutStart(t, c, d) ==
  /\ up
  /\ tpc[t] = "idle"
  /\ <<c, d>> \in MayPut
  /\ Bytes[d] <= MaxSize
  /\ usedBytes \in -MaxDrift..MaxDrift
  /\ Goto(t, "check")
  /\ tchunk' = [tchunk EXCEPT ![t] = c]
  /\ tdata' = [tdata EXCEPT ![t] = d]
  /\ undone' = undone \ {t}
  /\ UNCHANGED <<diskVars, usedBytes, up, faults, tfile, acked, wasPut>>

\* The idempotency check reads the header of the file it could open: the same
\* checksum and length mean success, anything else (a header that cannot be
\* read included) an integrity violation.  Any error of Open counts as no
\* file: Put goes on to write although the chunk may exist.
PutCheck(t) ==
  /\ up
  /\ tpc[t] = "check"
  /\ \/ Goto(t, "write") /\ UNCHANGED <<tchunk, tdata, tfile>>
     \/ /\ Exists(tchunk[t])
        /\ disk[tchunk[t]].hdr = tdata[t]
        /\ Goto(t, "same") /\ UNCHANGED <<tchunk, tdata, tfile>>
     \/ Exists(tchunk[t]) /\ Return(t)
  /\ UNCHANGED <<diskVars, usedBytes, up, faults, historyVars>>

\* A Put is answered with success.  A Delete that removed its file in between
\* came after it: nobody may count on that Put.
Acknowledge(t) ==
  acked' = IF t \in undone THEN acked ELSE acked \cup {<<tchunk[t], tdata[t]>>}

PutSame(t) ==
  /\ up
  /\ tpc[t] = "same"
  /\ Acknowledge(t)
  /\ Return(t)
  /\ UNCHANGED <<diskVars, usedBytes, up, faults, undone, wasPut>>

\* MkdirAll, CreateTemp and the three writes to a file only this call knows.
PutWrite(t) ==
  /\ up
  /\ tpc[t] = "write"
  /\ Goto(t, "sync")
  /\ UNCHANGED <<diskVars, usedBytes, up, faults, tchunk, tdata, tfile, historyVars>>

\* Mutant: the temporary file is not synced before it is renamed.
PutNoSync(t) ==
  /\ up
  /\ tpc[t] = "sync"
  /\ Goto(t, "rename")
  /\ tfile' = [tfile EXCEPT ![t] =
       [hdr |-> tdata[t], body |-> tdata[t], size |-> Footprint(tdata[t]),
        synced |-> FALSE]]
  /\ UNCHANGED <<diskVars, usedBytes, up, faults, tchunk, tdata, historyVars>>

\* Sync and Close.
PutSync(t) ==
  /\ up
  /\ tpc[t] = "sync"
  /\ Goto(t, "rename")
  /\ tfile' = [tfile EXCEPT ![t] =
       [hdr |-> tdata[t], body |-> tdata[t], size |-> Footprint(tdata[t]),
        synced |-> TRUE]]
  /\ UNCHANGED <<diskVars, usedBytes, up, faults, tchunk, tdata, historyVars>>

\* Rename replaces whatever is under the path by then.  The directory is not
\* synced: until it is written back a power loss may undo the rename.
PutRename(t) ==
  /\ up
  /\ tpc[t] = "rename"
  /\ disk' = [disk EXCEPT ![tchunk[t]] = tfile[t]]
  /\ onDisk' = [onDisk EXCEPT ![tchunk[t]] = @ \cup {tfile[t]}]
  /\ wasPut' = wasPut \cup {<<tchunk[t], tdata[t]>>}
  /\ Goto(t, "putacct")
  /\ UNCHANGED <<orphans, usedBytes, up, faults, tchunk, tdata, tfile, undone, acked>>

PutAccount(t) ==
  /\ up
  /\ tpc[t] = "putacct"
  /\ usedBytes' = usedBytes + Footprint(tdata[t])
  /\ Acknowledge(t)
  /\ Return(t)
  /\ UNCHANGED <<diskVars, up, faults, undone, wasPut>>

\* Bytes an interrupted Put may leave in its temporary file.
TempBytes(t) ==
  CASE tpc[t] = "write" -> {0, HeaderSize, Footprint(tdata[t])}
    [] tpc[t] \in {"sync", "rename"} -> {Footprint(tdata[t])}
    [] OTHER -> {0}

\* Mutant: the error of a failed step is dropped and Put answers success.
PutFailUnnoticed(t) ==
  /\ up
  /\ tpc[t] \in {"write", "sync", "rename"}
  /\ Acknowledge(t)
  /\ Return(t)
  /\ UNCHANGED <<diskVars, usedBytes, up, faults, undone, wasPut>>

\* A write, Sync, Close or Rename fails.  The temporary file is removed, or
\* stays for good when that fails too: nobody looks at the error of Remove.
PutFail(t) ==
  /\ up
  /\ tpc[t] \in {"write", "sync", "rename"}
  /\ \/ UNCHANGED <<orphans, faults>>
     \/ /\ faults < MaxFaults
        /\ faults' = faults + 1
        /\ \E b \in TempBytes(t) : orphans' = orphans + b
  /\ Return(t)
  /\ UNCHANGED <<disk, onDisk, usedBytes, up, historyVars>>

-----------------------------------------------------------------------------
(* Get *)

\* Open and read the header.  The open file stays what it was when the path
\* is renamed over or removed.
GetOpen(t, c) ==
  /\ up
  /\ tpc[t] = "idle"
  /\ Exists(c)
  /\ Goto(t, "read")
  /\ tchunk' = [tchunk EXCEPT ![t] = c]
  /\ tfile' = [tfile EXCEPT ![t] = disk[c]]
  /\ UNCHANGED <<diskVars, usedBytes, up, faults, tdata, historyVars>>

\* Mutant: the end of the stream is not compared with the header.
VerifiedNever(f) == TRUE

\* verifiedReadCloser: length and checksum of what was read must match.
Verified(f) == f.body = f.hdr /\ f.hdr \in Data

\* io.ReadAll in GetChunk: the payload is handed on only when Read found the
\* end of the file and no mismatch.
GetRead(t) ==
  /\ up
  /\ tpc[t] = "read"
  /\ IF Verified(tfile[t])
     THEN /\ Goto(t, "deliver")
          /\ tdata' = [tdata EXCEPT ![t] = tfile[t].body]
          /\ UNCHANGED <<tchunk, tfile>>
     ELSE Return(t)
  /\ UNCHANGED <<diskVars, usedBytes, up, faults, historyVars>>

GetDeliver(t) ==
  /\ up
  /\ tpc[t] = "deliver"
  /\ Return(t)
  /\ UNCHANGED <<diskVars, usedBytes, up, faults, historyVars>>

-----------------------------------------------------------------------------
(* Delete *)

\* Stat; a chunk that does not exist is deleted already.
DeleteStat(t, c) ==
  /\ up
  /\ tpc[t] = "idle"
  /\ Exists(c)
  /\ usedBytes \in -MaxDrift..MaxDrift
  /\ Goto(t, "remove")
  /\ tchunk' = [tchunk EXCEPT ![t] = c]
  /\ tfile' = [tfile EXCEPT ![t] = disk[c]]
  /\ UNCHANGED <<diskVars, usedBytes, up, faults, tdata, historyVars>>

\* Mutant: a file that is gone already counts as removed by this Delete too.
DeleteRemoveTwice(t) ==
  /\ up
  /\ tpc[t] = "remove"
  /\ disk' = [disk EXCEPT ![tchunk[t]] = None]
  /\ onDisk' = [onDisk EXCEPT ![tchunk[t]] = @ \cup {None}]
  /\ undone' = undone \cup {u \in Thread : tpc[u] \in {"same", "putacct"} /\ tchunk[u] = tchunk[t]}
  /\ acked' = {p \in acked : p[1] # tchunk[t]}
  /\ Goto(t, "delacct")
  /\ UNCHANGED <<orphans, usedBytes, up, faults, tchunk, tdata, tfile, wasPut>>

\* Remove; when another Delete was faster this one has nothing to account.
DeleteRemove(t) ==
  /\ up
  /\ tpc[t] = "remove"
  /\ disk' = [disk EXCEPT ![tchunk[t]] = None]
  /\ onDisk' = [onDisk EXCEPT ![tchunk[t]] = @ \cup {None}]
  /\ undone' = undone \cup {u \in Thread : tpc[u] \in {"same", "putacct"} /\ tchunk[u] = tchunk[t]}
  /\ acked' = {p \in acked : p[1] # tchunk[t]}
  /\ IF Exists(tchunk[t])
     THEN Goto(t, "delacct") /\ UNCHANGED <<tchunk, tdata, tfile>>
     ELSE Return(t)
  /\ UNCHANGED <<orphans, usedBytes, up, faults, wasPut>>

DeleteAccount(t) ==
  /\ up
  /\ tpc[t] = "delacct"
  /\ usedBytes' = usedBytes - FileSize(tfile[t])
  /\ Return(t)
  /\ UNCHANGED <<diskVars, up, faults, historyVars>>

\* Reading the file, or removing it, fails.
CallFail(t) ==
  /\ up
  /\ tpc[t] \in {"read", "remove"}
  /\ Return(t)
  /\ UNCHANGED <<diskVars, usedBytes, up, faults, historyVars>>

-----------------------------------------------------------------------------
(* The machine *)

\* The directory entry of a chunk reaches the disk.
WriteBack(c) ==
  /\ onDisk' = [onDisk EXCEPT ![c] = {disk[c]}]
  /\ UNCHANGED <<disk, orphans, usedBytes, up, faults, threadVars, historyVars>>

\* Bit rot in the header or the payload of a file at rest.
Rot(c) ==
  /\ Exists(c)
  /\ onDisk[c] = {disk[c]}
  /\ faults < MaxFaults
  /\ faults' = faults + 1
  /\ \/ disk' = [disk EXCEPT ![c].hdr = Rotten]
     \/ disk' = [disk EXCEPT ![c].body = Rotten]
  /\ onDisk' = [onDisk EXCEPT ![c] = {disk'[c]}]
  /\ UNCHANGED <<orphans, usedBytes, up, threadVars, historyVars>>

\* lost: what a temporary file may shrink to on top of that.
LeaveTempFiles(lost) ==
  \E left \in [Thread -> UNION {TempBytes(t) \cup lost : t \in Thread}] :
    /\ \A t \in Thread : left[t] \in TempBytes(t) \cup lost
    /\ orphans' = orphans + TotalSize(left, Thread)

\* The process ends: every call and the counter are lost, the files are not.
\* Nothing ever removes the temporary files.
Crash ==
  /\ up
  /\ faults < MaxFaults
  /\ up' = FALSE
  /\ faults' = faults + 1
  /\ usedBytes' = 0
  /\ LeaveTempFiles({})
  /\ ReturnAll
  /\ UNCHANGED <<disk, onDisk, historyVars>>

\* A file as it is found after a power loss.
Survivors(f) ==
  IF f = None \/ f.synced THEN {f}
  ELSE {[f EXCEPT !.body = Torn, !.synced = TRUE], [f EXCEPT !.synced = TRUE]}

\* Directory entries that were not written back may be undone, content that
\* was not synced torn.  A Put whose entry was not written back is no longer
\* counted on: the code leaves its durability to the file system.
PowerLoss ==
  /\ up
  /\ faults < MaxFaults
  /\ up' = FALSE
  /\ faults' = faults + 1
  /\ usedBytes' = 0
  /\ LeaveTempFiles({0})
  /\ disk' \in [Chunk -> UNION {UNION {Survivors(f) : f \in onDisk[c]} : c \in Chunk}]
  /\ \A c \in Chunk : \E f \in onDisk[c] : disk'[c] \in Survivors(f)
  /\ onDisk' = [c \in Chunk |-> {disk'[c]}]
  /\ acked' = {p \in acked : onDisk[p[1]] = {disk[p[1]]}}
  /\ ReturnAll
  /\ UNCHANGED <<undone, wasPut>>

\* New: the counter starts from a scan of the directory.
New ==
  /\ ~up
  /\ up' = TRUE
  /\ usedBytes' = scanUsedBytes
  /\ UNCHANGED <<diskVars, faults, threadVars, historyVars>>

Put(t) ==
  \/ \E c \in Chunk, d \in Data : PutStart(t, c, d)
  \/ PutCheck(t) \/ PutSame(t) \/ PutWrite(t) \/ PutSync(t)
  \/ PutRename(t) \/ PutAccount(t) \/ PutFail(t)

Get(t) == (\E c \in Chunk : GetOpen(t, c)) \/ GetRead(t) \/ GetDeliver(t)

Delete(t) == (\E c \in Chunk : DeleteStat(t, c)) \/ DeleteRemove(t) \/ DeleteAccount(t)

ChunkStoreNext ==
  \/ \E t \in Thread : Put(t) \/ Get(t) \/ Delete(t) \/ CallFail(t)
  \/ \E c \in Chunk : WriteBack(c) \/ Rot(c)
  \/ Crash \/ PowerLoss \/ New

ChunkStoreSpec == ChunkStoreInit /\ [][ChunkStoreNext]_chunkStoreVars

-----------------------------------------------------------------------------
(* Properties *)

\* Writes are all or nothing: whatever interleaving, crash or power loss, no
\* path ever holds a file whose payload was cut short.
NoTornChunk == \A c \in Chunk : Exists(c) => disk[c].body # Torn

\* A Get that succeeds returns a payload that was stored under that very
\* chunk id, never a rotten, torn or foreign one.
GetOnlyPutData ==
  \A t \in Thread : tpc[t] = "deliver" => <<tchunk[t], tdata[t]>> \in wasPut

\* Chunks are write-once: the payload under a path does not change, it is
\* only removed (bit rot and a power loss aside).
StaysItself ==
  \A c \in Chunk :
    Exists(c) /\ disk'[c] # None /\ faults' = faults =>
      disk'[c].hdr = disk[c].hdr
ChunkImmutable == [][StaysItself]_chunkStoreVars

\* A Put answered with success is found by every later call, across process
\* faults, until the chunk is deleted.
AckedPutSurvives ==
  \A p \in acked : Exists(p[1]) /\ disk[p[1]].hdr \in {p[2], Rotten}

\* Between calls the counter is at least what the chunks occupy: storaged never
\* reports more free space than there is on account of a chunk, whatever Puts,
\* retries and Deletes of one chunk ran at the same time.  It may be more, and
\* for good: two Puts of one chunk are both counted.
UsageCoversChunks ==
  up /\ (\A t \in Thread : tpc[t] = "idle") => usedBytes >= ChunkBytes

-----------------------------------------------------------------------------
(* What makes the properties inductive *)

\* A file that may be under the path of c: it was synced before it got there,
\* and when it passes the check of verifiedReadCloser it was put as c.
GoodFile(c, f) ==
  /\ f \in File
  /\ f.synced
  /\ f.body # Torn
  /\ Verified(f) => <<c, f.body>> \in wasPut

FilesOK ==
  \A c \in Chunk :
    /\ Exists(c) => GoodFile(c, disk[c])
    /\ \A f \in onDisk[c] : f = None \/ GoodFile(c, f)

\* The file Put has written and synced.
Written(d) == [hdr |-> d, body |-> d, size |-> Footprint(d), synced |-> TRUE]

PuttingPC == {"check", "same", "write", "sync", "rename", "putacct"}

CallOK(t) ==
  /\ tpc[t] # "idle" => tchunk[t] \in Chunk
  /\ tpc[t] \in PuttingPC => tdata[t] \in Data
  /\ tpc[t] = "rename" => tfile[t] = Written(tdata[t])
  /\ tpc[t] = "read" => GoodFile(tchunk[t], tfile[t])
  /\ tpc[t] = "deliver" => <<tchunk[t], tdata[t]>> \in wasPut

\* Inductive for any number of calls on the same chunk.
ChunkInv == FilesTypeOK /\ FilesOK /\ \A t \in Thread : CallOK(t)

\* Callers agree on what belongs under a chunk's id: there is one payload for
\* it, and retries and repair copies bring that one.
OneContent == \A p, q \in MayPut : p[1] = q[1] => p[2] = q[2]

\* A file that callers have put as c, rotten or not.
PutAs(c, f) ==
  /\ f # None
  /\ \E d \in Data : <<c, d>> \in MayPut /\ f.hdr \in {d, Rotten} /\ f.size = Footprint(d)

\* Only what MayPut allows is anywhere, and what is acknowledged exists.
\* Inductive together with ChunkInv.
PutInv ==
  /\ wasPut \subseteq MayPut
  /\ acked \subseteq MayPut
  /\ \A p \in acked : Exists(p[1])
  /\ \A c \in Chunk :
       /\ Exists(c) => PutAs(c, disk[c])
       /\ \A f \in onDisk[c] : f = None \/ PutAs(c, f)
  /\ \A t \in Thread :
       /\ tpc[t] \in PuttingPC => <<tchunk[t], tdata[t]>> \in MayPut
       /\ tpc[t] \in {"same", "putacct"} /\ t \notin undone => Exists(tchunk[t])
       /\ tpc[t] \in {"remove", "delacct"} => PutAs(tchunk[t], tfile[t])

=============================================================================
