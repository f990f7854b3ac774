-------------------------- MODULE ChunkStoreProofs --------------------------
(***************************************************************************)
(* Proofs about module ChunkStore, for every set of chunks, payloads and   *)
(* threads, any number of calls on the same chunk and any number of faults.*)
(* ChunkInv and PutInv are inductive whoever writes what; that callers     *)
(* agree on the payload of a chunk (OneContent) is needed only for what    *)
(* follows from them, and for UsageInv, which bounds the usage counter.    *)
(***************************************************************************)
EXTENDS ChunkStore, FiniteSetTheorems, TLAPS

\* The steps of ChunkStoreNext by the files they touch: those that leave both
\* disk and onDisk alone and start or continue a call, or end all of them.
CallStep(t) ==
  \/ \E c \in Chunk, d \in Data : PutStart(t, c, d)
  \/ PutCheck(t) \/ PutSame(t) \/ PutWrite(t) \/ PutSync(t)
  \/ PutAccount(t) \/ PutFail(t)
  \/ \E c \in Chunk : GetOpen(t, c)
  \/ GetRead(t) \/ GetDeliver(t)
  \/ \E c \in Chunk : DeleteStat(t, c)
  \/ DeleteAccount(t) \/ CallFail(t)

\* Files under a path stay good when more payloads have been put.
LEMMA GoodFileStable ==
  ASSUME NEW c, NEW f, GoodFile(c, f), wasPut \subseteq wasPut'
  PROVE  GoodFile(c, f)'
BY DEF GoodFile, Verified

\* A step of others leaves what a call holds good.
LEMMA CallStable ==
  ASSUME NEW t \in Thread, CallOK(t), wasPut \subseteq wasPut',
         tpc'[t] = tpc[t], tchunk'[t] = tchunk[t], tdata'[t] = tdata[t], tfile'[t] = tfile[t]
  PROVE  CallOK(t)'
<1>1. tpc[t] = "read" => GoodFile(tchunk[t], tfile[t])'
  BY GoodFileStable DEF CallOK, GoodFile, Verified
<1> QED
  BY <1>1 DEF CallOK

\* What Put writes is a good file as soon as its payload counts as put.
LEMMA WrittenGood ==
  ASSUME NEW c \in Chunk, NEW d \in Data, <<c, d>> \in wasPut'
  PROVE  Written(d) \in File /\ GoodFile(c, Written(d))'
<1>1. Footprint(d) \in Nat
  BY ChunkStoreAssumption DEF Footprint
<1>2. Written(d) \in File
  BY <1>1 DEF Written, File
<1>3. Written(d).body = d /\ Written(d).hdr = d /\ Written(d).synced = TRUE
  BY DEF Written
<1>4. d # Torn
  BY ChunkStoreAssumption
<1> QED
  BY <1>2, <1>3, <1>4 DEF GoodFile, Verified

\* The initial directory is empty.
LEMMA ChunkInit == ChunkStoreInit => ChunkInv
BY DEF ChunkStoreInit, ChunkInv, FilesTypeOK, FilesOK, CallOK, ThreadPC, PuttingPC, Exists

\* The steps of calls that touch no file under a chunk's path.
LEMMA CallStepInv ==
  ASSUME ChunkInv, NEW t \in Thread, CallStep(t)
  PROVE  ChunkInv' /\ disk' = disk
<1> USE DEF ChunkInv
<1>1. /\ disk' = disk /\ onDisk' = onDisk /\ wasPut' = wasPut /\ undone' \subseteq undone
      /\ tpc' = [tpc EXCEPT ![t] = tpc'[t]]
      /\ tchunk' = [tchunk EXCEPT ![t] = tchunk'[t]]
      /\ tdata' = [tdata EXCEPT ![t] = tdata'[t]]
      /\ tfile' = [tfile EXCEPT ![t] = tfile'[t]]
  BY DEF CallStep, PutStart, PutCheck, PutSame, PutWrite, PutSync, PutAccount, PutFail,
         GetOpen, GetRead, GetDeliver, DeleteStat, DeleteAccount, CallFail, Return, Goto, diskVars,
         historyVars, FilesTypeOK
<1> SUFFICES ChunkInv'
  BY <1>1
<1>2. FilesOK'
  BY <1>1 DEF FilesOK, GoodFile, Verified, Exists
<1>3. ASSUME NEW u \in Thread, u # t
      PROVE  CallOK(u)'
  <2>1. CallOK(u)
    OBVIOUS
  <2>2. /\ tpc'[u] = tpc[u] /\ tchunk'[u] = tchunk[u]
        /\ tdata'[u] = tdata[u] /\ tfile'[u] = tfile[u]
    BY <1>1, <1>3 DEF FilesTypeOK
  <2> QED
    BY <1>1, <2>1, <2>2, CallStable
<1>4. ASSUME CallOK(t)', tpc'[t] \in ThreadPC, tchunk'[t] \in Chunk \cup {None},
             tdata'[t] \in Data \cup {None}, tfile'[t] \in File \cup {None},
             acked' \subseteq Chunk \X Data
      PROVE  ChunkInv'
  <2>1. FilesTypeOK'
    BY <1>1, <1>4 DEF FilesTypeOK
  <2> QED
    BY <1>2, <1>3, <1>4, <2>1
<1>5. /\ CallOK(t) /\ tpc[t] \in ThreadPC /\ tchunk[t] \in Chunk \cup {None}
      /\ tdata[t] \in Data \cup {None} /\ tfile[t] \in File \cup {None}
      /\ acked \subseteq Chunk \X Data
  BY DEF FilesTypeOK
<1>6. ASSUME NEW c \in Chunk, NEW d \in Data, PutStart(t, c, d)
      PROVE  ChunkInv'
  <2>1. /\ tpc'[t] = "check" /\ tchunk'[t] = c /\ tdata'[t] = d
        /\ tfile'[t] = tfile[t] /\ acked' = acked
    BY <1>6 DEF PutStart, Goto, FilesTypeOK, historyVars
  <2> QED
    BY <1>4, <1>5, <2>1 DEF CallOK, PuttingPC, ThreadPC
<1>7. ASSUME Return(t), acked' \subseteq Chunk \X Data
      PROVE  ChunkInv'
  <2>1. tpc'[t] = "idle" /\ tchunk'[t] = None /\ tdata'[t] = None /\ tfile'[t] = None
    BY <1>7 DEF Return, Goto, FilesTypeOK
  <2> QED
    BY <1>4, <1>7, <2>1 DEF CallOK, PuttingPC, ThreadPC
<1>8. ASSUME tpc[t] \in PuttingPC, tpc'[t] \in {"check", "same", "write", "sync"},
             UNCHANGED <<tchunk, tdata, tfile, historyVars>>
      PROVE  ChunkInv'
  BY <1>4, <1>5, <1>8 DEF CallOK, PuttingPC, ThreadPC, historyVars
<1>9. CASE PutCheck(t)
  <2>1. tpc[t] \in PuttingPC /\ UNCHANGED historyVars
    BY <1>9 DEF PutCheck, PuttingPC
  <2>2. CASE Return(t)
    BY <1>5, <1>7, <2>1, <2>2 DEF historyVars
  <2>3. CASE UNCHANGED <<tchunk, tdata, tfile>> /\ tpc'[t] \in {"write", "same"}
    BY <1>8, <2>1, <2>3
  <2> QED
    BY <1>9, <2>2, <2>3 DEF PutCheck, Goto, FilesTypeOK
<1>10. CASE PutSame(t) \/ PutAccount(t)
  <2>1. /\ Return(t) /\ tpc[t] \in PuttingPC
        /\ acked' \in {acked, acked \cup {<<tchunk[t], tdata[t]>>}}
    BY <1>10 DEF PutSame, PutAccount, Acknowledge, PuttingPC
  <2>2. tchunk[t] \in Chunk /\ tdata[t] \in Data
    BY <1>5, <2>1 DEF CallOK, PuttingPC
  <2> QED
    BY <1>5, <1>7, <2>1, <2>2
<1>11. CASE PutFail(t) \/ GetDeliver(t) \/ DeleteAccount(t) \/ CallFail(t)
  BY <1>5, <1>7, <1>11 DEF PutFail, GetDeliver, DeleteAccount, CallFail, historyVars
<1>12. CASE PutWrite(t)
  <2>1. tpc'[t] = "sync" /\ tpc[t] \in PuttingPC
    BY <1>12 DEF PutWrite, Goto, FilesTypeOK, PuttingPC
  <2> QED
    BY <1>8, <1>12, <2>1 DEF PutWrite
<1>13. CASE PutSync(t)
  <2>1. /\ tpc[t] = "sync" /\ tpc'[t] = "rename" /\ tchunk' = tchunk /\ tdata' = tdata
        /\ tfile'[t] = Written(tdata[t]) /\ acked' = acked
    BY <1>13 DEF PutSync, Goto, FilesTypeOK, Written, historyVars
  <2>2. tdata[t] \in Data /\ tchunk[t] \in Chunk
    BY <1>5, <2>1 DEF CallOK, PuttingPC
  <2>3. Written(tdata[t]) \in File
    <3>1. Footprint(tdata[t]) \in Nat
      BY <2>2, ChunkStoreAssumption DEF Footprint
    <3> QED
      BY <2>2, <3>1 DEF Written, File
  <2>4. CallOK(t)'
    BY <2>1, <2>2 DEF CallOK, PuttingPC, Written, Footprint
  <2> QED
    BY <1>4, <1>5, <2>1, <2>2, <2>3, <2>4 DEF ThreadPC
<1>14. ASSUME NEW c \in Chunk, GetOpen(t, c) \/ DeleteStat(t, c)
       PROVE  ChunkInv'
  <2>1. /\ tpc'[t] \in {"read", "remove"} /\ tchunk'[t] = c /\ tdata' = tdata
        /\ tfile'[t] = disk[c] /\ acked' = acked
    BY <1>14 DEF GetOpen, DeleteStat, Goto, FilesTypeOK, historyVars
  <2>2. GoodFile(c, disk[c])
    BY <1>14 DEF GetOpen, DeleteStat, FilesOK
  <2>3. GoodFile(c, disk[c])' /\ disk[c] \in File
    BY <1>1, <2>2 DEF GoodFile, Verified
  <2>4. CallOK(t)'
    BY <1>1, <2>1, <2>3 DEF CallOK, PuttingPC
  <2> QED
    BY <1>4, <1>5, <2>1, <2>3, <2>4 DEF ThreadPC
<1>15. CASE GetRead(t)
  <2>1. CASE Return(t)
    BY <1>5, <1>7, <1>15, <2>1 DEF GetRead, historyVars
  <2>2. CASE ~Return(t)
    <3>1. /\ tpc[t] = "read" /\ Verified(tfile[t]) /\ tpc'[t] = "deliver" /\ acked' = acked
          /\ tdata'[t] = tfile[t].body /\ tchunk' = tchunk /\ tfile' = tfile
      BY <1>15, <2>2 DEF GetRead, Goto, FilesTypeOK, historyVars
    <3>2. <<tchunk[t], tfile[t].body>> \in wasPut /\ tchunk[t] \in Chunk
      BY <1>5, <3>1 DEF CallOK, GoodFile
    <3>3. tfile[t].body \in Data
      BY <3>1 DEF Verified
    <3>4. CallOK(t)'
      BY <1>1, <3>1, <3>2 DEF CallOK, PuttingPC
    <3> QED
      BY <1>4, <1>5, <3>1, <3>3, <3>4 DEF ThreadPC
  <2> QED
    BY <2>1, <2>2
<1> QED
  BY <1>6, <1>9, <1>10, <1>11, <1>12, <1>13, <1>14, <1>15 DEF CallStep

\* Rename puts a synced file in place, over whatever is there by then.
LEMMA PutRenameInv ==
  ASSUME ChunkInv, NEW t \in Thread, PutRename(t)
  PROVE  ChunkInv'
<1> USE DEF ChunkInv
<1>1. /\ tpc[t] = "rename" /\ tpc' = [tpc EXCEPT ![t] = "putacct"]
      /\ tchunk' = tchunk /\ tdata' = tdata /\ tfile' = tfile
      /\ acked' = acked /\ undone' = undone
      /\ disk' = [disk EXCEPT ![tchunk[t]] = tfile[t]]
      /\ onDisk' = [onDisk EXCEPT ![tchunk[t]] = @ \cup {tfile[t]}]
      /\ wasPut' = wasPut \cup {<<tchunk[t], tdata[t]>>}
  BY DEF PutRename, Goto
<1>2. /\ tchunk[t] \in Chunk /\ tdata[t] \in Data /\ tfile[t] = Written(tdata[t])
  BY <1>1 DEF CallOK, PuttingPC
<1>3. PICK c \in Chunk, d \in Data : c = tchunk[t] /\ d = tdata[t]
  BY <1>2
<1>4. Written(d) \in File /\ GoodFile(c, Written(d))' /\ tfile[t] = Written(d)
  BY <1>1, <1>2, <1>3, WrittenGood
<1>5. FilesTypeOK'
  BY <1>1, <1>3, <1>4 DEF FilesTypeOK, ThreadPC
<1>6. ASSUME NEW b \in Chunk
      PROVE  /\ Exists(b)' => GoodFile(b, disk[b])'
             /\ \A f \in onDisk'[b] : f = None \/ GoodFile(b, f)'
  <2>1. \A f : GoodFile(b, f) => GoodFile(b, f)'
    BY <1>1 DEF GoodFile, Verified
  <2>2. CASE b # c
    <3>1. disk'[b] = disk[b] /\ onDisk'[b] = onDisk[b]
      BY <1>1, <1>3, <2>2 DEF FilesTypeOK
    <3>2. /\ Exists(b) => GoodFile(b, disk[b])
          /\ \A f \in onDisk[b] : f = None \/ GoodFile(b, f)
      BY DEF FilesOK
    <3>3. Exists(b)' => GoodFile(b, disk[b])'
      BY <1>1, <3>1, <3>2 DEF Exists, GoodFile, Verified
    <3> QED
      BY <2>1, <3>1, <3>2, <3>3
  <2>3. CASE b = c
    <3>1. disk'[b] = Written(d) /\ onDisk'[b] = onDisk[b] \cup {Written(d)}
      BY <1>1, <1>3, <1>4, <2>3 DEF FilesTypeOK
    <3>2. \A f \in onDisk[b] : f = None \/ GoodFile(b, f)
      BY DEF FilesOK
    <3>3. GoodFile(b, disk[b])'
      BY <1>4, <2>3, <3>1 DEF GoodFile, Verified
    <3> QED
      BY <1>4, <2>1, <2>3, <3>1, <3>2, <3>3
  <2> QED
    BY <2>2, <2>3
<1>7. FilesOK'
  BY <1>6 DEF FilesOK
<1>8. ASSUME NEW u \in Thread
      PROVE  CallOK(u)'
  <2>1. CASE u # t
    BY <1>1, <2>1, CallStable DEF FilesTypeOK
  <2>2. CASE u = t
    <3>1. tpc'[t] = "putacct"
      BY <1>1 DEF FilesTypeOK
    <3> QED
      BY <1>1, <1>2, <2>2, <3>1 DEF CallOK, PuttingPC
  <2> QED
    BY <2>1, <2>2
<1> QED
  BY <1>5, <1>7, <1>8

\* Steps that change what is under the paths without putting anything:
\* calls stay good when the files do.
LEMMA FilesStepInv ==
  ASSUME ChunkInv, FilesTypeOK', FilesOK', wasPut' = wasPut,
         \A t \in Thread :
           \/ tpc'[t] = "idle"
           \/ tpc[t] # "idle" /\ tpc'[t] = "delacct" /\ tchunk'[t] = tchunk[t]
           \/ /\ tpc'[t] = tpc[t] /\ tchunk'[t] = tchunk[t]
              /\ tdata'[t] = tdata[t] /\ tfile'[t] = tfile[t]
  PROVE  ChunkInv'
<1>1. ASSUME NEW t \in Thread
      PROVE  CallOK(t)'
  <2>1. CallOK(t)
    BY DEF ChunkInv
  <2>2. CASE tpc'[t] = "idle"
    BY <2>2 DEF CallOK, PuttingPC
  <2>3. CASE tpc[t] # "idle" /\ tpc'[t] = "delacct" /\ tchunk'[t] = tchunk[t]
    BY <2>1, <2>3 DEF CallOK, PuttingPC
  <2>4. CASE /\ tpc'[t] = tpc[t] /\ tchunk'[t] = tchunk[t]
             /\ tdata'[t] = tdata[t] /\ tfile'[t] = tfile[t]
    BY <2>1, <2>4, CallStable
  <2> QED
    BY <2>2, <2>3, <2>4
<1> QED
  BY <1>1 DEF ChunkInv

\* Remove.
LEMMA DeleteRemoveInv ==
  ASSUME ChunkInv, NEW t \in Thread, DeleteRemove(t)
  PROVE  ChunkInv'
<1> USE DEF ChunkInv
<1>1. /\ tpc[t] = "remove" /\ tchunk[t] \in Chunk
      /\ disk' = [disk EXCEPT ![tchunk[t]] = None]
      /\ onDisk' = [onDisk EXCEPT ![tchunk[t]] = @ \cup {None}]
      /\ acked' \subseteq acked /\ wasPut' = wasPut /\ undone' \subseteq Thread
      /\ tpc' \in {[tpc EXCEPT ![t] = "delacct"], [tpc EXCEPT ![t] = "idle"]}
      /\ tpc'[t] = "delacct" => UNCHANGED <<tchunk, tdata, tfile>>
      /\ UNCHANGED <<tchunk, tdata, tfile>> \/ Return(t)
  BY DEF DeleteRemove, Goto, Return, CallOK, FilesTypeOK
<1>2. FilesTypeOK'
  <2>1. CASE UNCHANGED <<tchunk, tdata, tfile>>
    BY <1>1, <2>1 DEF FilesTypeOK, ThreadPC
  <2>2. CASE Return(t)
    BY <1>1, <2>2 DEF FilesTypeOK, ThreadPC, Return
  <2> QED
    BY <1>1, <2>1, <2>2
<1>3. FilesOK'
  BY <1>1 DEF FilesOK, FilesTypeOK, GoodFile, Verified, Exists
<1>4. \A u \in Thread :
           \/ tpc'[u] = "idle"
           \/ tpc[u] # "idle" /\ tpc'[u] = "delacct" /\ tchunk'[u] = tchunk[u]
           \/ /\ tpc'[u] = tpc[u] /\ tchunk'[u] = tchunk[u]
              /\ tdata'[u] = tdata[u] /\ tfile'[u] = tfile[u]
  BY <1>1 DEF FilesTypeOK, Return
<1> QED
  BY <1>1, <1>2, <1>3, <1>4, FilesStepInv

\* A directory entry reaches the disk, or a file at rest rots.
LEMMA MachineInv ==
  ASSUME ChunkInv, NEW c \in Chunk, WriteBack(c) \/ Rot(c)
  PROVE  ChunkInv'
<1> USE DEF ChunkInv
<1>1. UNCHANGED <<threadVars, historyVars>>
  BY DEF WriteBack, Rot
<1>2. CASE WriteBack(c)
  <2>1. disk' = disk /\ onDisk' = [onDisk EXCEPT ![c] = {disk[c]}]
    BY <1>2 DEF WriteBack
  <2>2. FilesTypeOK'
    BY <1>1, <2>1 DEF FilesTypeOK, threadVars, historyVars
  <2>3. FilesOK'
    BY <1>1, <2>1 DEF FilesOK, FilesTypeOK, GoodFile, Verified, Exists, historyVars
  <2> QED
    BY <1>1, <2>2, <2>3, FilesStepInv DEF threadVars, historyVars
<1>3. CASE Rot(c)
  <2>1. disk[c] \in File /\ GoodFile(c, disk[c])
    BY <1>3 DEF Rot, FilesOK, GoodFile
  <2>2. PICK f : /\ disk' = [disk EXCEPT ![c] = f]
                 /\ f \in {[disk[c] EXCEPT !.hdr = Rotten], [disk[c] EXCEPT !.body = Rotten]}
    BY <1>3 DEF Rot
  <2>3. f \in File /\ f.synced /\ f.body # Torn /\ ~Verified(f)
    BY <2>1, <2>2, ChunkStoreAssumption DEF File, GoodFile, Verified
  <2>4. GoodFile(c, f)'
    BY <2>3 DEF GoodFile, Verified
  <2>5. disk'[c] = f
    BY <2>2 DEF FilesTypeOK
  <2>6. onDisk' = [onDisk EXCEPT ![c] = {f}]
    BY <1>3, <2>5 DEF Rot
  <2>7. FilesTypeOK'
    BY <1>1, <2>2, <2>3, <2>6 DEF FilesTypeOK, threadVars, historyVars
  <2>8. FilesOK'
    BY <1>1, <2>2, <2>3, <2>5, <2>6 DEF FilesOK, FilesTypeOK, GoodFile, Verified, Exists,
                                        historyVars
  <2> QED
    BY <1>1, <2>7, <2>8, FilesStepInv DEF threadVars, historyVars
<1> QED
  BY <1>2, <1>3

\* A crash, a power loss and a restart of the process.  Every file was synced
\* before it was renamed, so a power loss tears none.
LEMMA CrashInv ==
  ASSUME ChunkInv, Crash \/ PowerLoss \/ New
  PROVE  ChunkInv'
<1> USE DEF ChunkInv
<1>1. CASE Crash
  <2>1. disk' = disk /\ onDisk' = onDisk /\ UNCHANGED historyVars /\ ReturnAll
    BY <1>1 DEF Crash
  <2>2. FilesTypeOK'
    BY <2>1 DEF FilesTypeOK, ReturnAll, ThreadPC, historyVars
  <2>3. FilesOK'
    BY <2>1 DEF FilesOK, GoodFile, Verified, Exists, historyVars
  <2> QED
    BY <2>1, <2>2, <2>3, FilesStepInv DEF ReturnAll, historyVars
<1>2. CASE PowerLoss
  <2>1. /\ disk' \in [Chunk -> UNION {UNION {Survivors(f) : f \in onDisk[c]} : c \in Chunk}]
        /\ \A c \in Chunk : \E f \in onDisk[c] : disk'[c] \in Survivors(f)
        /\ onDisk' = [c \in Chunk |-> {disk'[c]}]
        /\ acked' \subseteq acked /\ UNCHANGED <<undone, wasPut>> /\ ReturnAll
    BY <1>2 DEF PowerLoss
  <2>2. ASSUME NEW c \in Chunk
        PROVE  /\ disk'[c] \in onDisk[c]
               /\ disk'[c] = None \/ GoodFile(c, disk'[c])
    <3>1. PICK f \in onDisk[c] : disk'[c] \in Survivors(f)
      BY <2>1
    <3>2. f = None \/ GoodFile(c, f)
      BY DEF FilesOK
    <3>3. Survivors(f) = {f}
      BY <3>2 DEF Survivors, GoodFile
    <3> QED
      BY <3>1, <3>2, <3>3
  <2>3. disk' \in [Chunk -> File \cup {None}]
    <3>1. \A c \in Chunk : disk'[c] \in File \cup {None}
      BY <2>2 DEF GoodFile
    <3> QED
      BY <2>1, <3>1
  <2>4. FilesTypeOK'
    BY <2>1, <2>3 DEF FilesTypeOK, ReturnAll, ThreadPC
  <2>5. FilesOK'
    BY <2>1, <2>2 DEF FilesOK, GoodFile, Verified, Exists
  <2> QED
    BY <2>1, <2>4, <2>5, FilesStepInv DEF ReturnAll
<1>3. CASE New
  <2>1. UNCHANGED <<disk, onDisk, tpc, tchunk, tdata, tfile, undone, acked, wasPut>>
    BY <1>3 DEF New, diskVars, threadVars, historyVars
  <2>2. FilesTypeOK' /\ FilesOK'
    BY <2>1 DEF FilesTypeOK, FilesOK, GoodFile, Verified, Exists
  <2> QED
    BY <2>1, <2>2, FilesStepInv
<1> QED
  BY <1>1, <1>2, <1>3

\* ChunkInv is inductive.
LEMMA ChunkStep ==
  ChunkInv /\ [ChunkStoreNext]_chunkStoreVars => ChunkInv'
<1> SUFFICES ASSUME ChunkInv, [ChunkStoreNext]_chunkStoreVars
             PROVE  ChunkInv'
  OBVIOUS
<1>1. ASSUME NEW t \in Thread, Put(t) \/ Get(t) \/ Delete(t) \/ CallFail(t)
      PROVE  ChunkInv'
  <2>1. CallStep(t) \/ PutRename(t) \/ DeleteRemove(t)
    BY <1>1 DEF Put, Get, Delete, CallStep
  <2> QED
    BY <2>1, CallStepInv, PutRenameInv, DeleteRemoveInv
<1>2. ASSUME UNCHANGED chunkStoreVars
      PROVE  ChunkInv'
  <2>1. UNCHANGED <<disk, onDisk, tpc, tchunk, tdata, tfile, undone, acked, wasPut>>
    BY <1>2 DEF chunkStoreVars, diskVars, threadVars, historyVars
  <2>2. FilesTypeOK' /\ FilesOK'
    BY <2>1 DEF ChunkInv, FilesTypeOK, FilesOK, GoodFile, Verified, Exists
  <2> QED
    BY <2>1, <2>2, FilesStepInv
<1> QED
  BY <1>1, <1>2, MachineInv, CrashInv DEF ChunkStoreNext

\* The invariant of files and calls, for any number of writers per chunk.
THEOREM ChunkInvariant == ChunkStoreSpec => []ChunkInv
<1>1. ChunkStoreInit => ChunkInv
  BY ChunkInit
<1>2. ChunkInv /\ [ChunkStoreNext]_chunkStoreVars => ChunkInv'
  BY ChunkStep
<1> QED
  BY <1>1, <1>2, PTL DEF ChunkStoreSpec

\* No interleaving, crash or power loss leaves a torn file under a chunk's
\* path: Put syncs the temporary file before it renames it.
THEOREM NeverTorn == ChunkStoreSpec => []NoTornChunk
<1>1. ChunkInv => NoTornChunk
  BY DEF ChunkInv, FilesOK, GoodFile, NoTornChunk
<1> QED
  BY <1>1, ChunkInvariant, PTL

\* Whatever was overwritten, removed, torn or rotten meanwhile, a Get that
\* succeeds returns a payload put under that chunk id.
THEOREM ReadsAreGenuine == ChunkStoreSpec => []GetOnlyPutData
<1>1. ChunkInv => GetOnlyPutData
  BY DEF ChunkInv, CallOK, GetOnlyPutData
<1> QED
  BY <1>1, ChunkInvariant, PTL

-----------------------------------------------------------------------------
(* The usage counter *)

\* The bytes of the files in S, each with the file it is in.
ByteSet(size, S) == UNION {{x} \X (1..size[x]) : x \in S}

\* Finitely many files have finitely many bytes.
LEMMA TotalSizeType ==
  ASSUME NEW S, IsFiniteSet(S), NEW size, \A x \in S : size[x] \in Nat
  PROVE  IsFiniteSet(ByteSet(size, S)) /\ TotalSize(size, S) \in Nat
<1> DEFINE parts == {{x} \X (1..size[x]) : x \in S}
           part == [x \in S |-> {x} \X (1..size[x])]
<1>1. part \in Surjection(S, parts)
  BY DEF Surjection
<1>2. IsFiniteSet(parts)
  <2> HIDE DEF parts, part
  <2> QED
    BY <1>1, FS_Surjection
<1>3. ASSUME NEW T \in parts
      PROVE  IsFiniteSet(T)
  <2>1. PICK x \in S : T = {x} \X (1..size[x])
    OBVIOUS
  <2>2. IsFiniteSet({x}) /\ IsFiniteSet(1..size[x])
    <3>1. 1 \in Int /\ size[x] \in Int
      OBVIOUS
    <3>2. IsFiniteSet(1..size[x])
      BY <3>1, FS_Interval
    <3>3. IsFiniteSet({x})
      BY FS_Singleton
    <3> QED
      BY <3>2, <3>3
  <2> QED
    BY <2>1, <2>2, FS_Product
<1>4. IsFiniteSet(UNION parts)
  <2> HIDE DEF parts
  <2> QED
    BY <1>2, <1>3, FS_UNION
<1> QED
  BY <1>4, FS_CardinalityType DEF ByteSet, TotalSize

\* A file that replaces another, or nothing, changes the sum by the difference.
LEMMA TotalSizeExcept ==
  ASSUME NEW S, IsFiniteSet(S), NEW old, NEW new, NEW x \in S,
         \A y \in S : old[y] \in Nat /\ new[y] \in Nat,
         \A y \in S \ {x} : new[y] = old[y]
  PROVE  TotalSize(new, S) = TotalSize(old, S) - old[x] + new[x]
<1> DEFINE rest == ByteSet(old, S \ {x})
<1>1. IsFiniteSet(S \ {x})
  BY FS_Difference
<1>2. IsFiniteSet(rest) /\ Cardinality(rest) \in Nat
  BY <1>1, TotalSizeType DEF ByteSet, TotalSize
<1>3. ASSUME NEW size, \A y \in S : size[y] \in Nat, \A y \in S \ {x} : size[y] = old[y]
      PROVE  TotalSize(size, S) = Cardinality(rest) + size[x]
  <2> DEFINE own == {x} \X (1..size[x])
  <2>1. ByteSet(size, S) = rest \cup own
    <3>1. ByteSet(size, S) = (UNION {{y} \X (1..size[y]) : y \in S \ {x}}) \cup own
      BY DEF ByteSet
    <3>2. {{y} \X (1..size[y]) : y \in S \ {x}} = {{y} \X (1..old[y]) : y \in S \ {x}}
      BY <1>3
    <3> QED
      BY <3>1, <3>2 DEF ByteSet
  <2>2. rest \cap own = {}
    BY DEF ByteSet
  <2>3. IsFiniteSet(own) /\ Cardinality(own) = size[x]
    <3>1. IsFiniteSet({x}) /\ Cardinality({x}) = 1
      BY FS_Singleton
    <3>2. IsFiniteSet(1..size[x]) /\ Cardinality(1..size[x]) = size[x]
      <4>1. 1 \in Int /\ size[x] \in Int /\ size[x] >= 0
        BY <1>3
      <4>2. /\ IsFiniteSet(1..size[x])
            /\ Cardinality(1..size[x]) = IF 1 > size[x] THEN 0 ELSE size[x] - 1 + 1
        BY <4>1, FS_Interval
      <4> QED
        BY <4>1, <4>2
    <3>3. IsFiniteSet(own) /\ Cardinality(own) = Cardinality({x}) * Cardinality(1..size[x])
      BY <3>1, <3>2, FS_Product
    <3>4. Cardinality(own) = 1 * size[x]
      BY <3>1, <3>2, <3>3
    <3> QED
      BY <1>3, <3>3, <3>4
  <2>4. Cardinality(rest \cap own) = 0
    BY <2>2, FS_EmptySet
  <2> HIDE DEF rest, own
  <2>5. Cardinality(rest \cup own) = Cardinality(rest) + Cardinality(own) - Cardinality(rest \cap own)
    BY <1>2, <2>3, FS_Union
  <2> QED
    <3>1. TotalSize(size, S) = Cardinality(rest \cup own)
      BY <2>1 DEF TotalSize, ByteSet
    <3>2. size[x] \in Nat
      BY <1>3
    <3> QED
      BY <1>2, <2>3, <2>4, <2>5, <3>1, <3>2
<1> HIDE DEF rest
<1>4. TotalSize(new, S) = Cardinality(rest) + new[x] /\ TotalSize(old, S) = Cardinality(rest) + old[x]
  BY <1>3
<1> QED
  BY <1>2, <1>4

\* Empty files take no space.
LEMMA TotalSizeZero ==
  ASSUME NEW S, NEW size, \A x \in S : size[x] = 0
  PROVE  TotalSize(size, S) = 0
<1>1. UNION {{x} \X (1..size[x]) : x \in S} = {}
  OBVIOUS
<1> QED
  BY <1>1, FS_EmptySet DEF TotalSize

\* Equal sizes have equal sums.
LEMMA TotalSizeEqual ==
  ASSUME NEW S, NEW old, NEW new, \A x \in S : new[x] = old[x]
  PROVE  TotalSize(new, S) = TotalSize(old, S)
<1>1. {{x} \X (1..new[x]) : x \in S} = {{x} \X (1..old[x]) : x \in S}
  OBVIOUS
<1> QED
  BY <1>1 DEF TotalSize

\* What a Put has renamed into place and not yet accounted, what a Delete has
\* removed and not yet accounted, and what is under the paths.
PutSize == [t \in Thread |-> IF tpc[t] = "putacct" THEN Footprint(tdata[t]) ELSE 0]
DeleteSize == [t \in Thread |-> IF tpc[t] = "delacct" THEN FileSize(tfile[t]) ELSE 0]
DiskSize == [c \in Chunk |-> FileSize(disk[c])]

SizesOK ==
  /\ \A t \in Thread : PutSize[t] \in Nat /\ DeleteSize[t] \in Nat
  /\ \A c \in Chunk : DiskSize[c] \in Nat
  /\ TotalSize(PutSize, Thread) \in Nat
  /\ TotalSize(DeleteSize, Thread) \in Nat
  /\ TotalSize(DiskSize, Chunk) \in Nat

\* A payload takes a natural number of bytes.
LEMMA FootprintType == \A d \in Data : Footprint(d) \in Nat
BY ChunkStoreAssumption DEF Footprint

\* All these are sums of natural numbers.
LEMMA SizesAreNumbers == ChunkInv => SizesOK
<1> SUFFICES ASSUME ChunkInv
             PROVE  SizesOK
  OBVIOUS
<1>1. \A f \in File \cup {None} : FileSize(f) \in Nat
  BY NoneAssumption DEF FileSize, File
<1>2. \A t \in Thread : PutSize[t] \in Nat
  BY FootprintType DEF ChunkInv, CallOK, PuttingPC, PutSize
<1>3. \A t \in Thread : DeleteSize[t] \in Nat
  BY <1>1 DEF ChunkInv, FilesTypeOK, DeleteSize
<1>4. \A c \in Chunk : DiskSize[c] \in Nat
  BY <1>1 DEF ChunkInv, FilesTypeOK, DiskSize
<1>5. IsFiniteSet(Thread) /\ IsFiniteSet(Chunk)
  BY ChunkStoreAssumption
<1> QED
  BY <1>2, <1>3, <1>4, <1>5, TotalSizeType DEF SizesOK

\* The variables that count.
CounterTypeOK ==
  /\ orphans \in Nat
  /\ usedBytes \in Int
  /\ up \in BOOLEAN
  /\ faults \in 0..MaxFaults

\* What a temporary file holds is a number of bytes.
LEMMA TempBytesType ==
  ASSUME ChunkInv, NEW t \in Thread
  PROVE  TempBytes(t) \subseteq Nat
<1>1. tpc[t] \in {"write", "sync", "rename"} => Footprint(tdata[t]) \in Nat
  BY FootprintType DEF ChunkInv, CallOK, PuttingPC
<1>2. CASE tpc[t] = "write"
  BY <1>1, <1>2, ChunkStoreAssumption DEF TempBytes
<1>3. CASE tpc[t] \in {"sync", "rename"}
  BY <1>1, <1>3 DEF TempBytes
<1>4. CASE tpc[t] \notin {"write", "sync", "rename"}
  BY <1>4 DEF TempBytes
<1> QED
  BY <1>2, <1>3, <1>4

\* A crash adds what the temporary files hold.
LEMMA TempFilesType ==
  ASSUME ChunkInv, orphans \in Nat, NEW lost \in SUBSET Nat, LeaveTempFiles(lost)
  PROVE  orphans' \in Nat
<1>1. PICK left \in [Thread -> UNION {TempBytes(t) \cup lost : t \in Thread}] :
        /\ \A t \in Thread : left[t] \in TempBytes(t) \cup lost
        /\ orphans' = orphans + TotalSize(left, Thread)
  BY DEF LeaveTempFiles
<1>2. \A t \in Thread : left[t] \in Nat
  BY <1>1, TempBytesType
<1>3. IsFiniteSet(Thread)
  BY ChunkStoreAssumption
<1>4. TotalSize(left, Thread) \in Nat
  BY <1>2, <1>3, TotalSizeType
<1> QED
  BY <1>1, <1>4

\* Every step keeps the counters numbers.
LEMMA CounterStep ==
  ChunkInv /\ CounterTypeOK /\ [ChunkStoreNext]_chunkStoreVars => CounterTypeOK'
<1> SUFFICES ASSUME ChunkInv, CounterTypeOK, [ChunkStoreNext]_chunkStoreVars
             PROVE  CounterTypeOK'
  OBVIOUS
<1> USE DEF CounterTypeOK
<1>1. CASE UNCHANGED <<orphans, usedBytes, up, faults>>
  BY <1>1
<1>2. ASSUME NEW t \in Thread, PutAccount(t) \/ DeleteAccount(t)
      PROVE  CounterTypeOK'
  <2>1. CASE PutAccount(t)
    <3>1. Footprint(tdata[t]) \in Nat
      BY <2>1, FootprintType DEF PutAccount, ChunkInv, CallOK, PuttingPC
    <3> QED
      BY <2>1, <3>1 DEF PutAccount, diskVars
  <2>2. CASE DeleteAccount(t)
    <3>1. FileSize(tfile[t]) \in Nat
      BY NoneAssumption DEF ChunkInv, FilesTypeOK, FileSize, File
    <3> QED
      BY <2>2, <3>1 DEF DeleteAccount, diskVars
  <2> QED
    BY <1>2, <2>1, <2>2
<1>3. ASSUME NEW c \in Chunk, Rot(c)
      PROVE  CounterTypeOK'
  BY <1>3, ChunkStoreAssumption DEF Rot
<1>6. ASSUME NEW t \in Thread, PutFail(t)
      PROVE  CounterTypeOK'
  <2>1. usedBytes' = usedBytes /\ up' = up
    BY <1>6 DEF PutFail
  <2>2. CASE UNCHANGED <<orphans, faults>>
    BY <2>1, <2>2
  <2>3. CASE /\ faults < MaxFaults
             /\ faults' = faults + 1
             /\ \E b \in TempBytes(t) : orphans' = orphans + b
    BY <2>1, <2>3, TempBytesType, ChunkStoreAssumption
  <2> QED
    BY <1>6, <2>2, <2>3 DEF PutFail
<1>4. CASE Crash \/ PowerLoss
  <2>1. orphans' \in Nat
    BY <1>4, TempFilesType DEF Crash, PowerLoss
  <2>2. usedBytes' = 0 /\ faults < MaxFaults /\ faults' = faults + 1
    BY <1>4 DEF Crash, PowerLoss
  <2>3. faults' \in 0..MaxFaults
    BY <2>2, ChunkStoreAssumption
  <2>4. usedBytes' \in Int
    BY <2>2
  <2>5. up' \in BOOLEAN
    BY <1>4, Zenon DEF Crash, PowerLoss
  <2> QED
    BY <2>1, <2>3, <2>4, <2>5
<1>5. CASE New
  <2>1. scanUsedBytes \in Int
    BY SizesAreNumbers DEF SizesOK, scanUsedBytes, ChunkBytes, DiskSize
  <2> QED
    <3>1. usedBytes' \in Int
      BY <1>5, <2>1 DEF New
    <3>2. up' = TRUE /\ orphans' = orphans /\ faults' = faults
      BY <1>5 DEF New, diskVars
    <3> QED
      BY <3>1, <3>2
<1> QED
  BY <1>1, <1>2, <1>3, <1>4, <1>5, <1>6
     DEF ChunkStoreNext, chunkStoreVars, diskVars, Put, Get, Delete, PutStart, PutCheck, PutSame,
         PutWrite, PutSync, PutRename, GetOpen, GetRead, GetDeliver, DeleteStat,
         DeleteRemove, CallFail, WriteBack

\* Type correctness, counters included, however many calls write a chunk.
THEOREM ChunkStoreTypeCorrect == ChunkStoreSpec => []ChunkStoreTypeOK
<1>1. ChunkStoreInit => CounterTypeOK
  BY ChunkStoreAssumption DEF ChunkStoreInit, CounterTypeOK
<1>2. ChunkInv /\ CounterTypeOK => ChunkStoreTypeOK
  BY DEF ChunkInv, CounterTypeOK, ChunkStoreTypeOK
<1> QED
  BY <1>1, <1>2, CounterStep, ChunkInvariant, PTL DEF ChunkStoreSpec
-----------------------------------------------------------------------------
(* Several calls on one chunk: only what callers put is anywhere *)

\* The directory is empty and nobody has put anything.
LEMMA PutInvInit == ChunkStoreInit => PutInv
BY DEF ChunkStoreInit, PutInv, PuttingPC, Exists

\* The step of one call leaves what another one holds allowed.
LEMMA PutInvOthers ==
  ASSUME PutInv, NEW u \in Thread, tpc'[u] = tpc[u], tchunk'[u] = tchunk[u],
         tdata'[u] = tdata[u], tfile'[u] = tfile[u],
         u \notin undone' /\ Exists(tchunk[u]) => disk'[tchunk[u]] # None,
         u \notin undone' => u \notin undone
  PROVE  /\ tpc'[u] \in PuttingPC => <<tchunk'[u], tdata'[u]>> \in MayPut
         /\ tpc'[u] \in {"same", "putacct"} /\ u \notin undone' => disk'[tchunk'[u]] # None
         /\ tpc'[u] \in {"remove", "delacct"} => PutAs(tchunk'[u], tfile'[u])
BY DEF PutInv, Exists

\* The steps that touch no path: an existing file is found, or one is counted.
LEMMA PutInvCall ==
  ASSUME ChunkInv, PutInv, NEW t \in Thread, CallStep(t)
  PROVE  PutInv'
<1> USE DEF ChunkInv
<1>1. disk' = disk
  BY CallStepInv
<1>2. /\ onDisk' = onDisk /\ wasPut' = wasPut
      /\ undone' \in {undone, undone \ {t}}
      /\ \A u \in Thread : u # t => /\ tpc'[u] = tpc[u] /\ tchunk'[u] = tchunk[u]
                                    /\ tdata'[u] = tdata[u] /\ tfile'[u] = tfile[u]
  BY DEF CallStep, PutStart, PutCheck, PutSame, PutWrite, PutSync, PutAccount, PutFail,
         GetOpen, GetRead, GetDeliver, DeleteStat, DeleteAccount, CallFail, Return, Goto, diskVars,
         historyVars, FilesTypeOK
<1>3. (\A pc : Goto(t, pc) => tpc'[t] = pc) /\ (Return(t) => tpc'[t] = "idle")
  BY DEF Goto, Return, FilesTypeOK
<1>4. tpc'[t] \in PuttingPC => <<tchunk'[t], tdata'[t]>> \in MayPut
  <2>1. ASSUME NEW c \in Chunk, NEW d \in Data, PutStart(t, c, d)
        PROVE  tchunk'[t] = c /\ tdata'[t] = d /\ <<c, d>> \in MayPut
    BY <2>1 DEF PutStart, FilesTypeOK
  <2>2. CASE tpc[t] \in PuttingPC /\ UNCHANGED <<tchunk, tdata>>
    BY <2>2 DEF PutInv
  <2>3. CASE PutCheck(t) \/ PutWrite(t) \/ PutSync(t)
    BY <1>3, <2>2, <2>3 DEF PutCheck, PutWrite, PutSync, PuttingPC
  <2>4. CASE \/ PutSame(t) \/ PutAccount(t) \/ PutFail(t) \/ (\E c \in Chunk : GetOpen(t, c))
             \/ GetRead(t) \/ GetDeliver(t) \/ (\E c \in Chunk : DeleteStat(t, c))
             \/ DeleteAccount(t) \/ CallFail(t)
    BY <1>3, <2>4 DEF PutSame, PutAccount, PutFail, GetOpen, GetRead, GetDeliver, DeleteStat,
                      DeleteAccount, CallFail, PuttingPC
  <2> QED
    BY <2>1, <2>3, <2>4 DEF CallStep
<1>5. tpc'[t] \in {"same", "putacct"} => disk'[tchunk'[t]] # None
  <2>1. ASSUME tpc'[t] \in {"same", "putacct"}
        PROVE  PutCheck(t) /\ tpc'[t] = "same" /\ ~Return(t)
    BY <1>3, <2>1 DEF CallStep, PutStart, PutCheck, PutSame, PutWrite, PutSync, PutAccount,
         PutFail, GetOpen, GetRead, GetDeliver, DeleteStat, DeleteAccount, CallFail
  <2>2. ASSUME PutCheck(t), tpc'[t] = "same"
        PROVE  Exists(tchunk[t]) /\ tchunk' = tchunk
    BY <1>3, <2>2 DEF PutCheck
  <2> QED
    BY <1>1, <2>1, <2>2 DEF Exists
<1>6. tpc'[t] \in {"remove", "delacct"} => PutAs(tchunk'[t], tfile'[t])
  <2>1. ASSUME tpc'[t] \in {"remove", "delacct"}
        PROVE  \E c \in Chunk : DeleteStat(t, c)
    BY <1>3, <2>1 DEF CallStep, PutStart, PutCheck, PutSame, PutWrite, PutSync, PutAccount,
         PutFail, GetOpen, GetRead, GetDeliver, DeleteStat, DeleteAccount, CallFail
  <2>2. ASSUME NEW c \in Chunk, DeleteStat(t, c)
        PROVE  tchunk'[t] = c /\ tfile'[t] = disk[c] /\ Exists(c)
    BY <2>2 DEF DeleteStat, FilesTypeOK
  <2> QED
    BY <2>1, <2>2 DEF PutInv
<1>7. ASSUME NEW p \in acked'
      PROVE  p \in MayPut /\ disk'[p[1]] # None
  <2>1. CASE p \in acked
    BY <1>1, <2>1 DEF PutInv, Exists
  <2>2. CASE p \notin acked
    <3>1. /\ tpc[t] \in {"same", "putacct"} /\ t \notin undone /\ p = <<tchunk[t], tdata[t]>>
      BY <1>7, <2>2 DEF CallStep, PutStart, PutCheck, PutSame, PutWrite, PutSync, PutAccount,
           PutFail, GetOpen, GetRead, GetDeliver, DeleteStat, DeleteAccount, CallFail, Acknowledge,
           historyVars
    <3> QED
      BY <1>1, <3>1 DEF PutInv, Exists, PuttingPC
  <2> QED
    BY <2>1, <2>2
<1>8. ASSUME NEW u \in Thread
      PROVE  /\ tpc'[u] \in PuttingPC => <<tchunk'[u], tdata'[u]>> \in MayPut
             /\ tpc'[u] \in {"same", "putacct"} /\ u \notin undone' => disk'[tchunk'[u]] # None
             /\ tpc'[u] \in {"remove", "delacct"} => PutAs(tchunk'[u], tfile'[u])
  <2>1. CASE u = t
    BY <1>4, <1>5, <1>6, <2>1
  <2>2. CASE u # t
    BY <1>1, <1>2, <2>2, PutInvOthers DEF Exists
  <2> QED
    BY <2>1, <2>2
<1>9. ASSUME NEW c \in Chunk
      PROVE  /\ disk'[c] # None => PutAs(c, disk'[c])
             /\ \A f \in onDisk'[c] : f = None \/ PutAs(c, f)
  BY <1>1, <1>2 DEF PutInv, Exists
<1> QED
  BY <1>2, <1>7, <1>8, <1>9 DEF PutInv, Exists, PutAs

\* A rename may find a file another writer put there meanwhile; what it leaves
\* under the path is what its caller put.
LEMMA PutInvRename ==
  ASSUME ChunkInv, PutInv, NEW t \in Thread, PutRename(t)
  PROVE  PutInv'
<1> USE DEF ChunkInv
<1> DEFINE c == tchunk[t]
           f == tfile[t]
<1>1. /\ tpc[t] = "rename" /\ tpc' = [tpc EXCEPT ![t] = "putacct"]
      /\ UNCHANGED <<tchunk, tdata, tfile, acked, undone>>
      /\ wasPut' = wasPut \cup {<<c, tdata[t]>>}
      /\ disk' = [disk EXCEPT ![c] = f]
      /\ onDisk' = [onDisk EXCEPT ![c] = @ \cup {f}]
  BY DEF PutRename, Goto
<1>2. c \in Chunk /\ tdata[t] \in Data /\ f = Written(tdata[t]) /\ <<c, tdata[t]>> \in MayPut
  BY <1>1 DEF CallOK, PutInv, PuttingPC
<1>3. PutAs(c, f) /\ f # None
  <2>1. Footprint(tdata[t]) \in Nat
    BY <1>2, ChunkStoreAssumption DEF Footprint
  <2>2. Written(tdata[t]) \in File
    BY <1>2, <2>1 DEF Written, File
  <2>3. Written(tdata[t]).hdr = tdata[t] /\ Written(tdata[t]).size = Footprint(tdata[t])
    BY DEF Written
  <2> QED
    BY <1>2, <2>2, <2>3, NoneAssumption DEF PutAs
<1> HIDE DEF c, f
<1>4. \A b \in Chunk : /\ disk'[b] = IF b = c THEN f ELSE disk[b]
                       /\ onDisk'[b] = IF b = c THEN onDisk[b] \cup {f} ELSE onDisk[b]
  BY <1>1, <1>2 DEF FilesTypeOK
<1>5. \A b \in Chunk : Exists(b) => disk'[b] # None
  BY <1>3, <1>4 DEF Exists
<1>6. wasPut' \subseteq MayPut
  BY <1>1, <1>2 DEF PutInv
<1>7. \A p \in acked' : p \in MayPut /\ disk'[p[1]] # None
  <2>1. \A p \in acked : p[1] \in Chunk
    BY DEF FilesTypeOK
  <2> QED
    BY <1>1, <1>5, <2>1 DEF PutInv
<1>8. ASSUME NEW b \in Chunk
      PROVE  /\ disk'[b] # None => PutAs(b, disk'[b])
             /\ \A g \in onDisk'[b] : g = None \/ PutAs(b, g)
  <2>1. CASE b = c
    BY <1>3, <1>4, <2>1 DEF PutInv
  <2>2. CASE b # c
    BY <1>4, <2>2 DEF PutInv, Exists
  <2> QED
    BY <2>1, <2>2
<1>9. ASSUME NEW u \in Thread
      PROVE  /\ tpc'[u] \in PuttingPC => <<tchunk'[u], tdata'[u]>> \in MayPut
             /\ tpc'[u] \in {"same", "putacct"} /\ u \notin undone' => disk'[tchunk'[u]] # None
             /\ tpc'[u] \in {"remove", "delacct"} => PutAs(tchunk'[u], tfile'[u])
  <2>1. CASE u = t
    <3>1. tpc'[t] = "putacct"
      BY <1>1 DEF FilesTypeOK
    <3> QED
      BY <1>1, <1>2, <1>3, <1>4, <2>1, <3>1 DEF c
  <2>2. CASE u # t
    <3>1. tpc'[u] = tpc[u]
      BY <1>1, <2>2 DEF FilesTypeOK
    <3>2. tpc[u] \in {"same", "putacct"} => tchunk[u] \in Chunk
      BY DEF CallOK
    <3> QED
      BY <1>1, <1>5, <3>1, <3>2 DEF PutInv
  <2> QED
    BY <2>1, <2>2
<1> QED
  BY <1>6, <1>7, <1>8, <1>9 DEF PutInv, Exists, PutAs

\* A removal takes the acknowledgements of its chunk along, and marks the Puts
\* that still have to answer.
LEMMA PutInvRemove ==
  ASSUME ChunkInv, PutInv, NEW t \in Thread, DeleteRemove(t)
  PROVE  PutInv'
<1> USE DEF ChunkInv
<1> DEFINE c == tchunk[t]
<1>1. /\ tpc[t] = "remove" /\ disk' = [disk EXCEPT ![c] = None]
      /\ onDisk' = [onDisk EXCEPT ![c] = @ \cup {None}]
      /\ acked' = {p \in acked : p[1] # c} /\ wasPut' = wasPut
      /\ undone' = undone \cup {u \in Thread : tpc[u] \in {"same", "putacct"} /\ tchunk[u] = c}
      /\ tpc'[t] \in {"delacct", "idle"}
      /\ tpc'[t] = "delacct" => UNCHANGED <<tchunk, tfile>>
      /\ \A u \in Thread : u # t => /\ tpc'[u] = tpc[u] /\ tchunk'[u] = tchunk[u]
                                    /\ tdata'[u] = tdata[u] /\ tfile'[u] = tfile[u]
  BY DEF DeleteRemove, Return, Goto, FilesTypeOK
<1>2. c \in Chunk
  BY <1>1 DEF CallOK
<1> HIDE DEF c
<1>3. \A b \in Chunk : /\ disk'[b] = IF b = c THEN None ELSE disk[b]
                       /\ onDisk'[b] = IF b = c THEN onDisk[b] \cup {None} ELSE onDisk[b]
  BY <1>1, <1>2 DEF FilesTypeOK
<1>4. \A p \in acked' : p \in MayPut /\ disk'[p[1]] # None
  <2>1. \A p \in acked : p[1] \in Chunk
    BY DEF FilesTypeOK
  <2> QED
    BY <1>1, <1>3, <2>1 DEF PutInv, Exists
<1>5. ASSUME NEW b \in Chunk
      PROVE  /\ disk'[b] # None => PutAs(b, disk'[b])
             /\ \A g \in onDisk'[b] : g = None \/ PutAs(b, g)
  BY <1>3 DEF PutInv, Exists
<1>6. ASSUME NEW u \in Thread
      PROVE  /\ tpc'[u] \in PuttingPC => <<tchunk'[u], tdata'[u]>> \in MayPut
             /\ tpc'[u] \in {"same", "putacct"} /\ u \notin undone' => disk'[tchunk'[u]] # None
             /\ tpc'[u] \in {"remove", "delacct"} => PutAs(tchunk'[u], tfile'[u])
  <2>1. CASE u = t
    BY <1>1, <2>1 DEF PutInv, PuttingPC
  <2>2. CASE u # t
    <3>1. tpc[u] \in {"same", "putacct"} => tchunk[u] \in Chunk
      BY DEF CallOK
    <3>2. tpc[u] \in {"same", "putacct"} /\ u \notin undone' => tchunk[u] # c
      BY <1>1
    <3> QED
      BY <1>1, <1>3, <2>2, <3>1, <3>2 DEF PutInv, Exists
  <2> QED
    BY <2>1, <2>2
<1> QED
  BY <1>1, <1>4, <1>5, <1>6 DEF PutInv, Exists, PutAs

\* The machine: rot spoils a header but makes no other payload of it, and what
\* a power loss leaves under a path is one of the entries that may be there.
LEMMA PutInvMachine ==
  ASSUME ChunkInv, PutInv,
         (\E c \in Chunk : WriteBack(c) \/ Rot(c)) \/ Crash \/ PowerLoss \/ New
  PROVE  PutInv'
<1> USE DEF ChunkInv
<1>1. wasPut' = wasPut /\ undone' = undone
  BY DEF WriteBack, Rot, Crash, PowerLoss, New, historyVars
<1>2. ASSUME NEW c \in Chunk, WriteBack(c)
      PROVE  PutInv'
  <2>1. UNCHANGED <<disk, tpc, tchunk, tdata, tfile, acked>>
    BY <1>2 DEF WriteBack, threadVars, historyVars
  <2>2. \A b \in Chunk : onDisk'[b] = IF b = c THEN {disk[c]} ELSE onDisk[b]
    BY <1>2 DEF WriteBack, FilesTypeOK
  <2>3. ASSUME NEW b \in Chunk
        PROVE  \A g \in onDisk'[b] : g = None \/ PutAs(b, g)
    BY <2>2 DEF PutInv, Exists
  <2> QED
    BY <1>1, <2>1, <2>3 DEF PutInv, PutAs, Exists
<1>3. ASSUME NEW c \in Chunk, Rot(c)
      PROVE  PutInv'
  <2>1. disk[c] \in File /\ Exists(c)
    BY <1>3 DEF Rot, FilesOK, GoodFile
  <2>2. PICK f : /\ disk' = [disk EXCEPT ![c] = f]
                 /\ f \in {[disk[c] EXCEPT !.hdr = Rotten], [disk[c] EXCEPT !.body = Rotten]}
    BY <1>3 DEF Rot
  <2>3. f \in File /\ f.hdr \in {disk[c].hdr, Rotten} /\ f.size = disk[c].size /\ f # None
    BY <2>1, <2>2, NoneAssumption DEF File
  <2>4. UNCHANGED <<tpc, tchunk, tdata, tfile, acked>>
    BY <1>3 DEF Rot, threadVars, historyVars
  <2>5. \A b \in Chunk : disk'[b] = IF b = c THEN f ELSE disk[b]
    BY <2>2 DEF FilesTypeOK
  <2>6. \A b \in Chunk : onDisk'[b] = IF b = c THEN {disk'[c]} ELSE onDisk[b]
    BY <1>3 DEF Rot, FilesTypeOK
  <2>7. PutAs(c, f)
    BY <2>1, <2>3 DEF PutInv, PutAs
  <2>8. ASSUME NEW b \in Chunk
        PROVE  /\ disk'[b] # None => PutAs(b, disk'[b])
               /\ \A g \in onDisk'[b] : g = None \/ PutAs(b, g)
    BY <2>5, <2>6, <2>7 DEF PutInv, Exists
  <2>9. \A b \in Chunk : Exists(b) => disk'[b] # None
    BY <2>3, <2>5 DEF Exists
  <2>10. \A p \in acked' : p \in MayPut /\ disk'[p[1]] # None
    <3>1. \A p \in acked : p[1] \in Chunk
      BY DEF FilesTypeOK
    <3> QED
      BY <2>4, <2>9, <3>1 DEF PutInv
  <2>11. ASSUME NEW u \in Thread
         PROVE  /\ tpc'[u] \in PuttingPC => <<tchunk'[u], tdata'[u]>> \in MayPut
                /\ tpc'[u] \in {"same", "putacct"} /\ u \notin undone' => disk'[tchunk'[u]] # None
                /\ tpc'[u] \in {"remove", "delacct"} => PutAs(tchunk'[u], tfile'[u])
    <3>1. tpc[u] \in {"same", "putacct"} => tchunk[u] \in Chunk
      BY DEF CallOK
    <3> QED
      BY <1>1, <2>4, <2>9, <3>1 DEF PutInv
  <2> QED
    BY <1>1, <2>8, <2>10, <2>11 DEF PutInv, Exists, PutAs
<1>4. CASE Crash
  <2>1. UNCHANGED <<disk, onDisk, acked>> /\ \A t \in Thread : tpc'[t] = "idle"
    BY <1>4 DEF Crash, ReturnAll, historyVars
  <2> QED
    BY <1>1, <2>1 DEF PutInv, PutAs, Exists, PuttingPC
<1>5. CASE PowerLoss
  <2>1. \A t \in Thread : tpc'[t] = "idle"
    BY <1>5 DEF PowerLoss, ReturnAll
  <2>2. ASSUME NEW b \in Chunk
        PROVE  disk'[b] \in onDisk[b]
    <3>1. PICK f \in onDisk[b] : disk'[b] \in Survivors(f)
      BY <1>5 DEF PowerLoss
    <3>2. Survivors(f) = {f}
      BY DEF FilesOK, Survivors, GoodFile
    <3> QED
      BY <3>1, <3>2
  <2>3. ASSUME NEW b \in Chunk
        PROVE  /\ disk'[b] # None => PutAs(b, disk'[b])
               /\ \A g \in onDisk'[b] : g = None \/ PutAs(b, g)
    BY <1>5, <2>2 DEF PowerLoss, PutInv
  <2>4. ASSUME NEW p \in acked'
        PROVE  p \in MayPut /\ disk'[p[1]] # None
    <3>1. p \in acked /\ p[1] \in Chunk /\ onDisk[p[1]] = {disk[p[1]]}
      BY <1>5, <2>4 DEF PowerLoss, FilesTypeOK
    <3> QED
      BY <2>2, <3>1 DEF PutInv, Exists
  <2> QED
    BY <1>1, <2>1, <2>3, <2>4 DEF PutInv, PutAs, Exists, PuttingPC
<1>6. CASE New
  BY <1>6 DEF New, PutInv, PutAs, Exists, diskVars, threadVars, historyVars
<1> QED
  BY <1>2, <1>3, <1>4, <1>5, <1>6

\* PutInv is inductive relative to ChunkInv.
LEMMA PutInvStep ==
  ChunkInv /\ PutInv /\ [ChunkStoreNext]_chunkStoreVars => PutInv'
<1> SUFFICES ASSUME ChunkInv, PutInv, [ChunkStoreNext]_chunkStoreVars
             PROVE  PutInv'
  OBVIOUS
<1>1. ASSUME NEW t \in Thread, Put(t) \/ Get(t) \/ Delete(t) \/ CallFail(t)
      PROVE  PutInv'
  <2>1. CallStep(t) \/ PutRename(t) \/ DeleteRemove(t)
    BY <1>1 DEF Put, Get, Delete, CallStep
  <2> QED
    BY <2>1, PutInvCall, PutInvRename, PutInvRemove
<1>2. CASE UNCHANGED chunkStoreVars
  BY <1>2 DEF chunkStoreVars, diskVars, threadVars, historyVars, PutInv, PutAs, Exists
<1> QED
  BY <1>1, <1>2, PutInvMachine DEF ChunkStoreNext

\* Whatever callers put, together or apart: what is under a path, what a call
\* holds and what was acknowledged is what some caller put under that id, and
\* an acknowledged chunk exists until it is deleted.
THEOREM PutInvariant == ChunkStoreSpec => [](ChunkInv /\ PutInv)
<1>1. ChunkStoreInit => PutInv
  BY PutInvInit
<1>2. ChunkInv /\ PutInv /\ [ChunkStoreNext]_chunkStoreVars => PutInv'
  BY PutInvStep
<1> QED
  BY <1>1, <1>2, ChunkInvariant, PTL DEF ChunkStoreSpec

\* A retry of a Put whose first call is still at work, a repair that copies a
\* chunk while a client uploads it, a Put that could not open the file it
\* replaces, a Delete at any time: with any number of calls at once no
\* acknowledged Put is lost as long as the writers of a chunk agree.
THEOREM AckedPutsSurvive ==
  ASSUME OneContent
  PROVE  ChunkStoreSpec => []AckedPutSurvives
<1>1. ChunkInv /\ PutInv => AckedPutSurvives
  <2> SUFFICES ASSUME ChunkInv, PutInv, NEW p \in acked
               PROVE  Exists(p[1]) /\ disk[p[1]].hdr \in {p[2], Rotten}
    BY DEF AckedPutSurvives
  <2>1. p \in MayPut /\ p \in Chunk \X Data /\ Exists(p[1])
    BY DEF PutInv, ChunkInv, FilesTypeOK
  <2>2. PICK d \in Data : <<p[1], d>> \in MayPut /\ disk[p[1]].hdr \in {d, Rotten}
    BY <2>1 DEF PutInv, PutAs
  <2>3. <<p[1], d>>[1] = p[1] => <<p[1], d>>[2] = p[2]
    BY <2>1, <2>2 DEF OneContent
  <2> QED
    BY <2>1, <2>2, <2>3
<1> QED
  BY <1>1, PutInvariant, PTL

\* A payload some caller put under the chunk's id is all a Get hands on.
ReadsAllowed ==
  \A t \in Thread : tpc[t] = "deliver" => <<tchunk[t], tdata[t]>> \in MayPut

\* However the Puts, retries, copies and Deletes of one chunk interleave, a Get
\* that succeeds returns a payload that belongs to it.
THEOREM ReadsBelong == ChunkStoreSpec => []ReadsAllowed
<1>1. ChunkInv /\ PutInv => ReadsAllowed
  BY DEF ChunkInv, CallOK, PutInv, ReadsAllowed
<1> QED
  BY <1>1, PutInvariant, PTL

\* A path never goes from one payload to another: rot aside, its header changes
\* only when a Put renames a whole file over a rotten one.
HealsOnly ==
  \A c \in Chunk :
    Exists(c) /\ disk'[c] # None /\ faults' = faults =>
      disk'[c].hdr = disk[c].hdr \/ disk[c].hdr = Rotten

\* Concurrent writers that agree keep a chunk write-once, and a rename over a
\* rotten file is a repair.
THEOREM AgreedWriteOnce ==
  ASSUME OneContent
  PROVE  ChunkStoreSpec => [][HealsOnly]_chunkStoreVars
<1>1. ASSUME ChunkInv, PutInv, ChunkStoreTypeOK, ChunkStoreNext
      PROVE  HealsOnly
  <2>1. ASSUME disk' = disk \/ faults' # faults
        PROVE  HealsOnly
    BY <2>1 DEF HealsOnly
  <2>2. ASSUME NEW t \in Thread, Put(t) \/ Get(t) \/ Delete(t) \/ CallFail(t)
        PROVE  HealsOnly
    <3>1. CallStep(t) \/ PutRename(t) \/ DeleteRemove(t)
      BY <2>2 DEF Put, Get, Delete, CallStep
    <3>2. CASE CallStep(t)
      BY <1>1, <2>1, <3>2, CallStepInv
    <3>3. CASE PutRename(t)
      <4>1. /\ tchunk[t] \in Chunk /\ tdata[t] \in Data /\ <<tchunk[t], tdata[t]>> \in MayPut
            /\ disk' = [disk EXCEPT ![tchunk[t]] = Written(tdata[t])]
        BY <1>1, <3>3 DEF PutRename, ChunkInv, CallOK, PutInv, PuttingPC
      <4>2. Written(tdata[t]).hdr = tdata[t]
        BY DEF Written
      <4>3. ASSUME Exists(tchunk[t])
            PROVE  disk[tchunk[t]].hdr \in {tdata[t], Rotten}
        <5>1. PICK d \in Data : <<tchunk[t], d>> \in MayPut /\ disk[tchunk[t]].hdr \in {d, Rotten}
          BY <1>1, <4>1, <4>3 DEF PutInv, PutAs
        <5>2. <<tchunk[t], d>>[1] = <<tchunk[t], tdata[t]>>[1]
                => <<tchunk[t], d>>[2] = <<tchunk[t], tdata[t]>>[2]
          BY <4>1, <5>1 DEF OneContent
        <5> QED
          BY <5>1, <5>2
      <4> QED
        BY <1>1, <4>1, <4>2, <4>3 DEF HealsOnly, ChunkInv, FilesTypeOK
    <3>4. CASE DeleteRemove(t)
      <4>1. disk' = [disk EXCEPT ![tchunk[t]] = None]
        BY <3>4 DEF DeleteRemove
      <4> QED
        BY <1>1, <4>1 DEF HealsOnly, ChunkInv, FilesTypeOK
    <3> QED
      BY <3>1, <3>2, <3>3, <3>4
  <2>3. CASE (\E c \in Chunk : WriteBack(c) \/ Rot(c)) \/ Crash \/ PowerLoss \/ New
    <3>1. faults \in Int
      BY <1>1 DEF ChunkStoreTypeOK
    <3> QED
      BY <2>1, <2>3, <3>1 DEF WriteBack, Rot, Crash, PowerLoss, New, diskVars
  <2> QED
    BY <1>1, <2>2, <2>3 DEF ChunkStoreNext
<1>2. /\ ChunkInv /\ PutInv /\ ChunkStoreTypeOK
      /\ [ChunkStoreNext]_chunkStoreVars
      => [HealsOnly]_chunkStoreVars
  BY <1>1
<1> QED
  BY <1>2, PutInvariant, ChunkStoreTypeCorrect, PTL DEF ChunkStoreSpec

-----------------------------------------------------------------------------
(* The usage counter when writers agree *)

\* The inductive invariant of the counter: with what Puts still have to add it
\* is at least what is under the paths and what Deletes still have to take off.
UsageInv ==
  /\ ~up => \A t \in Thread : tpc[t] = "idle"
  /\ up => usedBytes + TotalSize(PutSize, Thread)
             >= TotalSize(DiskSize, Chunk) + TotalSize(DeleteSize, Thread)

\* The numbers before and after a step.
LEMMA SizesBothSides ==
  ChunkInv /\ [ChunkStoreNext]_chunkStoreVars => SizesOK /\ SizesOK'
<1>1. ChunkInv => SizesOK
  BY SizesAreNumbers
<1>2. ChunkInv' => SizesOK'
  BY SizesAreNumbers, PTL
<1> QED
  BY <1>1, <1>2, ChunkStep

\* A step of a call that is not about to account and is not after it leaves
\* both sums in flight alone.
LEMMA FlightSame ==
  ASSUME \A u \in Thread : \/ {tpc[u], tpc'[u]} \cap {"putacct", "delacct"} = {}
                           \/ /\ tpc'[u] = tpc[u] /\ tdata'[u] = tdata[u]
                              /\ tfile'[u] = tfile[u]
  PROVE  /\ TotalSize(PutSize, Thread)' = TotalSize(PutSize, Thread)
         /\ TotalSize(DeleteSize, Thread)' = TotalSize(DeleteSize, Thread)
<1>1. \A u \in Thread : PutSize'[u] = PutSize[u]
  BY DEF PutSize, Footprint
<1>2. \A u \in Thread : DeleteSize'[u] = DeleteSize[u]
  BY DEF DeleteSize, FileSize
<1>3. TotalSize(PutSize', Thread) = TotalSize(PutSize, Thread)
  BY <1>1, TotalSizeEqual
<1>4. TotalSize(DeleteSize', Thread) = TotalSize(DeleteSize, Thread)
  BY <1>2, TotalSizeEqual
<1>5. /\ TotalSize(PutSize, Thread)' = TotalSize(PutSize', Thread)
      /\ TotalSize(DeleteSize, Thread)' = TotalSize(DeleteSize', Thread)
  BY DEF TotalSize
<1> QED
  BY <1>3, <1>4, <1>5

\* The files keep their sizes.
LEMMA DiskSame ==
  ASSUME \A c \in Chunk : FileSize(disk'[c]) = FileSize(disk[c])
  PROVE  TotalSize(DiskSize, Chunk)' = TotalSize(DiskSize, Chunk)
<1>1. \A c \in Chunk : DiskSize'[c] = DiskSize[c]
  BY DEF DiskSize, FileSize
<1>2. TotalSize(DiskSize', Chunk) = TotalSize(DiskSize, Chunk)
  BY <1>1, TotalSizeEqual
<1> QED
  BY <1>2 DEF TotalSize

\* Put and Delete account what they left in flight.
LEMMA AccountUsage ==
  ASSUME ChunkInv, CounterTypeOK, UsageInv, SizesOK, SizesOK', NEW t \in Thread,
         PutAccount(t) \/ DeleteAccount(t)
  PROVE  UsageInv'
<1>1. /\ tpc' = [tpc EXCEPT ![t] = "idle"] /\ tchunk' = [tchunk EXCEPT ![t] = None]
      /\ tdata' = [tdata EXCEPT ![t] = None] /\ tfile' = [tfile EXCEPT ![t] = None]
      /\ disk' = disk /\ orphans' = orphans /\ up /\ up' = up
  BY DEF PutAccount, DeleteAccount, Return, Goto, diskVars
<1>2. \A u \in Thread \ {t} : /\ tpc'[u] = tpc[u] /\ tchunk'[u] = tchunk[u]
                              /\ tdata'[u] = tdata[u] /\ tfile'[u] = tfile[u]
  BY <1>1 DEF ChunkInv, FilesTypeOK
<1>3. tpc'[t] = "idle"
  BY <1>1 DEF ChunkInv, FilesTypeOK
<1>4. TotalSize(PutSize, Thread)' = TotalSize(PutSize, Thread) - PutSize[t]
  <2>1. \A u \in Thread \ {t} : PutSize'[u] = PutSize[u]
    BY <1>2 DEF PutSize, Footprint
  <2>2. PutSize'[t] = 0
    BY <1>3 DEF PutSize
  <2>3. \A u \in Thread : PutSize[u] \in Nat /\ PutSize'[u] \in Nat
    BY DEF SizesOK
  <2>4. IsFiniteSet(Thread)
    BY ChunkStoreAssumption
  <2>5. TotalSize(PutSize', Thread) = TotalSize(PutSize, Thread) - PutSize[t] + PutSize'[t]
    BY <2>1, <2>3, <2>4, TotalSizeExcept
  <2>6. TotalSize(PutSize, Thread)' = TotalSize(PutSize', Thread)
    BY DEF TotalSize
  <2> QED
    BY <2>2, <2>3, <2>5, <2>6 DEF SizesOK
<1>5. TotalSize(DeleteSize, Thread)' = TotalSize(DeleteSize, Thread) - DeleteSize[t]
  <2>1. \A u \in Thread \ {t} : DeleteSize'[u] = DeleteSize[u]
    BY <1>2 DEF DeleteSize, FileSize
  <2>2. DeleteSize'[t] = 0
    BY <1>3 DEF DeleteSize
  <2>3. \A u \in Thread : DeleteSize[u] \in Nat /\ DeleteSize'[u] \in Nat
    BY DEF SizesOK
  <2>4. IsFiniteSet(Thread)
    BY ChunkStoreAssumption
  <2>5. TotalSize(DeleteSize', Thread) = TotalSize(DeleteSize, Thread) - DeleteSize[t] + DeleteSize'[t]
    BY <2>1, <2>3, <2>4, TotalSizeExcept
  <2>6. TotalSize(DeleteSize, Thread)' = TotalSize(DeleteSize', Thread)
    BY DEF TotalSize
  <2> QED
    BY <2>2, <2>3, <2>5, <2>6 DEF SizesOK
<1>6. usedBytes' = usedBytes + PutSize[t] - DeleteSize[t]
  <2>1. CASE PutAccount(t)
    <3>1. PutSize[t] = Footprint(tdata[t]) /\ DeleteSize[t] = 0
      BY <2>1 DEF PutAccount, PutSize, DeleteSize
    <3>2. usedBytes' = usedBytes + Footprint(tdata[t])
      BY <2>1 DEF PutAccount
    <3>3. PutSize[t] \in Nat /\ usedBytes \in Int
      BY DEF SizesOK, CounterTypeOK
    <3> QED
      BY <3>1, <3>2, <3>3
  <2>2. CASE DeleteAccount(t)
    <3>1. PutSize[t] = 0 /\ DeleteSize[t] = FileSize(tfile[t])
      BY <2>2 DEF DeleteAccount, PutSize, DeleteSize
    <3>2. usedBytes' = usedBytes - FileSize(tfile[t])
      BY <2>2 DEF DeleteAccount
    <3>3. DeleteSize[t] \in Nat /\ usedBytes \in Int
      BY DEF SizesOK, CounterTypeOK
    <3> QED
      BY <3>1, <3>2, <3>3
  <2> QED
    BY <2>1, <2>2
<1>7. TotalSize(DiskSize, Chunk)' = TotalSize(DiskSize, Chunk)
  BY <1>1, DiskSame
<1>8. usedBytes' + TotalSize(PutSize, Thread)'
        >= TotalSize(DiskSize, Chunk)' + TotalSize(DeleteSize, Thread)'
  <2>1. usedBytes + TotalSize(PutSize, Thread)
          >= TotalSize(DiskSize, Chunk) + TotalSize(DeleteSize, Thread)
    BY <1>1 DEF UsageInv
  <2>2. /\ usedBytes \in Int /\ orphans \in Nat /\ PutSize[t] \in Nat /\ DeleteSize[t] \in Nat
        /\ TotalSize(PutSize, Thread) \in Nat /\ TotalSize(DeleteSize, Thread) \in Nat
        /\ TotalSize(DiskSize, Chunk) \in Nat
    BY DEF SizesOK, CounterTypeOK
  <2>3. orphans' = orphans
    BY <1>1
  <2> QED
    BY <1>4, <1>5, <1>6, <1>7, <2>1, <2>2, <2>3
<1> QED
  BY <1>1, <1>8 DEF UsageInv

\* Rename puts a file in place, of another one or not, and the Put has it to
\* account.
LEMMA RenameUsage ==
  ASSUME ChunkInv, CounterTypeOK, UsageInv, SizesOK, SizesOK', NEW t \in Thread, PutRename(t)
  PROVE  UsageInv'
<1>1. /\ up /\ up' = up /\ tpc[t] = "rename" /\ tpc' = [tpc EXCEPT ![t] = "putacct"]
      /\ tchunk' = tchunk /\ tdata' = tdata /\ tfile' = tfile
      /\ disk' = [disk EXCEPT ![tchunk[t]] = tfile[t]]
      /\ orphans' = orphans /\ usedBytes' = usedBytes
  BY DEF PutRename, Goto
<1>2. PICK c \in Chunk : c = tchunk[t]
  BY <1>1 DEF ChunkInv, CallOK
<1>3. tdata[t] \in Data /\ tfile[t] = Written(tdata[t])
  BY <1>1 DEF ChunkInv, CallOK, PuttingPC
<1>4. FileSize(tfile[t]) = Footprint(tdata[t]) /\ tfile[t] # None
  <2>1. Written(tdata[t]) \in File
    BY <1>3, FootprintType DEF Written, File
  <2>2. Written(tdata[t]).size = Footprint(tdata[t])
    BY DEF Written
  <2> QED
    BY <1>3, <2>1, <2>2, NoneAssumption DEF FileSize
<1>5. tpc'[t] = "putacct" /\ \A u \in Thread \ {t} : tpc'[u] = tpc[u]
  BY <1>1 DEF ChunkInv, FilesTypeOK
<1>6. disk'[c] = tfile[t] /\ \A b \in Chunk \ {c} : disk'[b] = disk[b]
  BY <1>1, <1>2 DEF ChunkInv, FilesTypeOK
<1>7. TotalSize(PutSize, Thread)' = TotalSize(PutSize, Thread) + Footprint(tdata[t])
  <2>1. \A u \in Thread \ {t} : PutSize'[u] = PutSize[u]
    BY <1>1, <1>5 DEF PutSize, Footprint
  <2>2. PutSize[t] = 0 /\ PutSize'[t] = Footprint(tdata[t])
    BY <1>1, <1>5 DEF PutSize, Footprint
  <2>3. \A u \in Thread : PutSize[u] \in Nat /\ PutSize'[u] \in Nat
    BY DEF SizesOK
  <2>4. IsFiniteSet(Thread)
    BY ChunkStoreAssumption
  <2>5. TotalSize(PutSize', Thread) = TotalSize(PutSize, Thread) - PutSize[t] + PutSize'[t]
    BY <2>1, <2>3, <2>4, TotalSizeExcept
  <2>6. TotalSize(PutSize, Thread)' = TotalSize(PutSize', Thread)
    BY DEF TotalSize
  <2> QED
    BY <2>2, <2>3, <2>5, <2>6 DEF SizesOK
<1>8. TotalSize(DeleteSize, Thread)' = TotalSize(DeleteSize, Thread)
  <2>1. \A u \in Thread : DeleteSize'[u] = DeleteSize[u]
    BY <1>1, <1>5 DEF DeleteSize, FileSize
  <2>2. TotalSize(DeleteSize', Thread) = TotalSize(DeleteSize, Thread)
    BY <2>1, TotalSizeEqual
  <2> QED
    BY <2>2 DEF TotalSize
<1>9. TotalSize(DiskSize, Chunk)' <= TotalSize(DiskSize, Chunk) + Footprint(tdata[t])
  <2>1. \A b \in Chunk \ {c} : DiskSize'[b] = DiskSize[b]
    BY <1>6 DEF DiskSize, FileSize
  <2>2. DiskSize'[c] = Footprint(tdata[t])
    BY <1>4, <1>6 DEF DiskSize, FileSize
  <2>3. \A b \in Chunk : DiskSize[b] \in Nat /\ DiskSize'[b] \in Nat
    BY DEF SizesOK
  <2>4. IsFiniteSet(Chunk)
    BY ChunkStoreAssumption
  <2>5. TotalSize(DiskSize', Chunk) = TotalSize(DiskSize, Chunk) - DiskSize[c] + DiskSize'[c]
    BY <2>1, <2>3, <2>4, TotalSizeExcept
  <2>6. TotalSize(DiskSize, Chunk)' = TotalSize(DiskSize', Chunk)
    BY DEF TotalSize
  <2> QED
    BY <2>2, <2>3, <2>5, <2>6 DEF SizesOK
<1>10. usedBytes' + TotalSize(PutSize, Thread)'
         >= TotalSize(DiskSize, Chunk)' + TotalSize(DeleteSize, Thread)'
  <2>1. usedBytes + TotalSize(PutSize, Thread)
          >= TotalSize(DiskSize, Chunk) + TotalSize(DeleteSize, Thread)
    BY <1>1 DEF UsageInv
  <2>2. /\ usedBytes \in Int /\ orphans \in Nat
        /\ TotalSize(PutSize, Thread) \in Nat /\ TotalSize(DeleteSize, Thread) \in Nat
        /\ TotalSize(DiskSize, Chunk) \in Nat /\ TotalSize(DiskSize, Chunk)' \in Nat
    BY DEF SizesOK, CounterTypeOK
  <2>3. Footprint(tdata[t]) \in Nat
    BY <1>3, FootprintType
  <2>4. orphans' = orphans /\ usedBytes' = usedBytes
    BY <1>1
  <2> QED
    BY <1>7, <1>8, <1>9, <2>1, <2>2, <2>3, <2>4
<1> QED
  BY <1>1, <1>10 DEF UsageInv

\* Remove finds a file of the size Stat saw, whoever put it, and the Delete has
\* it to account.
LEMMA RemoveUsage ==
  ASSUME OneContent, ChunkInv, PutInv, CounterTypeOK, UsageInv, SizesOK, SizesOK',
         NEW t \in Thread, DeleteRemove(t), Exists(tchunk[t])
  PROVE  UsageInv'
<1>1. PICK c \in Chunk : /\ c = tchunk[t] /\ disk[c] # None
                         /\ FileSize(tfile[t]) = FileSize(disk[c])
  <2>1. tpc[t] = "remove" /\ tchunk[t] \in Chunk
    BY DEF DeleteRemove, ChunkInv, CallOK
  <2>2. PICK d \in Data : <<tchunk[t], d>> \in MayPut /\ tfile[t].size = Footprint(d)
    BY <2>1 DEF PutInv, PutAs
  <2>3. PICK e \in Data : <<tchunk[t], e>> \in MayPut /\ disk[tchunk[t]].size = Footprint(e)
    BY <2>1 DEF PutInv, PutAs
  <2>4. <<tchunk[t], d>>[1] = <<tchunk[t], e>>[1] => <<tchunk[t], d>>[2] = <<tchunk[t], e>>[2]
    BY <2>2, <2>3 DEF OneContent
  <2>5. tfile[t] # None
    BY <2>1 DEF PutInv, PutAs
  <2> QED
    BY <2>1, <2>2, <2>3, <2>4, <2>5 DEF FileSize, Exists
<1>2. /\ up /\ up' = up /\ tpc[t] = "remove" /\ tpc' = [tpc EXCEPT ![t] = "delacct"]
      /\ tchunk' = tchunk /\ tdata' = tdata /\ tfile' = tfile
      /\ disk' = [disk EXCEPT ![c] = None]
      /\ orphans' = orphans /\ usedBytes' = usedBytes
  BY <1>1 DEF DeleteRemove, Goto, Exists
<1>3. tpc'[t] = "delacct" /\ \A u \in Thread \ {t} : tpc'[u] = tpc[u]
  BY <1>2 DEF ChunkInv, FilesTypeOK
<1>4. disk'[c] = None /\ \A b \in Chunk \ {c} : disk'[b] = disk[b]
  BY <1>2 DEF ChunkInv, FilesTypeOK
<1>5. TotalSize(PutSize, Thread)' = TotalSize(PutSize, Thread)
  <2>1. \A u \in Thread : PutSize'[u] = PutSize[u]
    BY <1>2, <1>3 DEF PutSize, Footprint
  <2>2. TotalSize(PutSize', Thread) = TotalSize(PutSize, Thread)
    BY <2>1, TotalSizeEqual
  <2> QED
    BY <2>2 DEF TotalSize
<1>6. TotalSize(DeleteSize, Thread)' = TotalSize(DeleteSize, Thread) + DiskSize[c]
  <2>1. \A u \in Thread \ {t} : DeleteSize'[u] = DeleteSize[u]
    BY <1>2, <1>3 DEF DeleteSize, FileSize
  <2>2. DeleteSize[t] = 0 /\ DeleteSize'[t] = DiskSize[c]
    BY <1>1, <1>2, <1>3 DEF DeleteSize, DiskSize, FileSize
  <2>3. \A u \in Thread : DeleteSize[u] \in Nat /\ DeleteSize'[u] \in Nat
    BY DEF SizesOK
  <2>4. IsFiniteSet(Thread)
    BY ChunkStoreAssumption
  <2>5. TotalSize(DeleteSize', Thread) = TotalSize(DeleteSize, Thread) - DeleteSize[t] + DeleteSize'[t]
    BY <2>1, <2>3, <2>4, TotalSizeExcept
  <2>6. TotalSize(DeleteSize, Thread)' = TotalSize(DeleteSize', Thread)
    BY DEF TotalSize
  <2> QED
    BY <2>2, <2>3, <2>5, <2>6 DEF SizesOK
<1>7. TotalSize(DiskSize, Chunk)' = TotalSize(DiskSize, Chunk) - DiskSize[c]
  <2>1. \A b \in Chunk \ {c} : DiskSize'[b] = DiskSize[b]
    BY <1>4 DEF DiskSize, FileSize
  <2>2. DiskSize'[c] = 0
    BY <1>4 DEF DiskSize, FileSize
  <2>3. \A b \in Chunk : DiskSize[b] \in Nat /\ DiskSize'[b] \in Nat
    BY DEF SizesOK
  <2>4. IsFiniteSet(Chunk)
    BY ChunkStoreAssumption
  <2>5. TotalSize(DiskSize', Chunk) = TotalSize(DiskSize, Chunk) - DiskSize[c] + DiskSize'[c]
    BY <2>1, <2>3, <2>4, TotalSizeExcept
  <2>6. TotalSize(DiskSize, Chunk)' = TotalSize(DiskSize', Chunk)
    BY DEF TotalSize
  <2> QED
    BY <2>2, <2>3, <2>5, <2>6 DEF SizesOK
<1>8. usedBytes' + TotalSize(PutSize, Thread)'
        >= TotalSize(DiskSize, Chunk)' + TotalSize(DeleteSize, Thread)'
  <2>1. usedBytes + TotalSize(PutSize, Thread)
          >= TotalSize(DiskSize, Chunk) + TotalSize(DeleteSize, Thread)
    BY <1>2 DEF UsageInv
  <2>2. /\ usedBytes \in Int /\ orphans \in Nat /\ DiskSize[c] \in Nat
        /\ TotalSize(PutSize, Thread) \in Nat /\ TotalSize(DeleteSize, Thread) \in Nat
        /\ TotalSize(DiskSize, Chunk) \in Nat
    BY DEF SizesOK, CounterTypeOK
  <2>3. orphans' = orphans /\ usedBytes' = usedBytes
    BY <1>2
  <2> QED
    BY <1>5, <1>6, <1>7, <2>1, <2>2, <2>3
<1> QED
  BY <1>2, <1>8 DEF UsageInv

\* Steps that leave counter, sizes and what is in flight alone.
LEMMA QuietUsage ==
  ASSUME UsageInv, UNCHANGED <<usedBytes, up>>,
         \A c \in Chunk : FileSize(disk'[c]) = FileSize(disk[c]),
         \A u \in Thread :
           \/ /\ {tpc[u], tpc'[u]} \cap {"putacct", "delacct"} = {}
              /\ tpc'[u] = "idle" \/ up
           \/ /\ tpc'[u] = tpc[u] /\ tdata'[u] = tdata[u] /\ tfile'[u] = tfile[u]
  PROVE  UsageInv'
<1>1. /\ TotalSize(PutSize, Thread)' = TotalSize(PutSize, Thread)
      /\ TotalSize(DeleteSize, Thread)' = TotalSize(DeleteSize, Thread)
  BY FlightSame
<1>2. TotalSize(DiskSize, Chunk)' = TotalSize(DiskSize, Chunk)
  BY DiskSame
<1>3. ~up' => \A u \in Thread : tpc'[u] = "idle"
  BY DEF UsageInv
<1> QED
  BY <1>1, <1>2, <1>3 DEF UsageInv

\* The calls' other steps are quiet; a temporary file that stays is not counted
\* and not under a path.
LEMMA CallUsage ==
  ASSUME ChunkInv, UsageInv, NEW t \in Thread, CallStep(t), ~PutAccount(t), ~DeleteAccount(t)
  PROVE  UsageInv'
<1>1. usedBytes' = usedBytes /\ up /\ up' = up
  BY DEF CallStep, PutStart, PutCheck, PutSame, PutWrite, PutSync, PutFail,
         GetOpen, GetRead, GetDeliver, DeleteStat, CallFail
<1>2. disk' = disk
  BY CallStepInv
<1>3. \A u \in Thread \ {t} : /\ tpc'[u] = tpc[u] /\ tchunk'[u] = tchunk[u]
                              /\ tdata'[u] = tdata[u] /\ tfile'[u] = tfile[u]
  BY DEF CallStep, PutStart, PutCheck, PutSame, PutWrite, PutSync, PutFail,
         GetOpen, GetRead, GetDeliver, DeleteStat, CallFail, Return, Goto, ChunkInv, FilesTypeOK
<1>4. tpc[t] \notin {"putacct", "delacct"}
  BY DEF CallStep, PutStart, PutCheck, PutSame, PutWrite, PutSync, PutFail,
         GetOpen, GetRead, GetDeliver, DeleteStat, CallFail
<1>5. tpc'[t] \notin {"putacct", "delacct"}
  <2>1. (\A pc : Goto(t, pc) => tpc'[t] = pc) /\ (Return(t) => tpc'[t] = "idle")
    BY DEF Goto, Return, ChunkInv, FilesTypeOK
  <2> QED
    BY <2>1 DEF CallStep, PutStart, PutCheck, PutSame, PutWrite, PutSync, PutFail,
         GetOpen, GetRead, GetDeliver, DeleteStat, CallFail
<1> QED
  BY <1>1, <1>2, <1>3, <1>4, <1>5, QuietUsage

\* A Delete that finds the file gone leaves everything to the one that removed it.
LEMMA GoneUsage ==
  ASSUME ChunkInv, UsageInv, NEW t \in Thread, DeleteRemove(t), ~Exists(tchunk[t])
  PROVE  UsageInv'
<1>1. /\ usedBytes' = usedBytes /\ up /\ up' = up /\ tpc[t] = "remove" /\ tchunk[t] \in Chunk
      /\ disk' = [disk EXCEPT ![tchunk[t]] = None] /\ Return(t)
  BY DEF DeleteRemove, ChunkInv, CallOK
<1>2. disk' = disk
  BY <1>1 DEF Exists, ChunkInv, FilesTypeOK
<1>3. /\ tpc'[t] = "idle"
      /\ \A u \in Thread \ {t} : /\ tpc'[u] = tpc[u] /\ tdata'[u] = tdata[u] /\ tfile'[u] = tfile[u]
  BY <1>1 DEF Return, Goto, ChunkInv, FilesTypeOK
<1> QED
  BY <1>1, <1>2, <1>3, QuietUsage

\* The machine: rot keeps the length of a file, a crash ends the calls, and
\* New counts from nothing.
LEMMA MachineUsage ==
  ASSUME ChunkInv, CounterTypeOK, UsageInv, SizesOK,
         (\E c \in Chunk : WriteBack(c) \/ Rot(c)) \/ Crash \/ PowerLoss \/ New
  PROVE  UsageInv'
<1>2. ASSUME NEW c \in Chunk, WriteBack(c) \/ Rot(c)
      PROVE  UsageInv'
  <2>1. UNCHANGED <<orphans, usedBytes, up, tpc, tchunk, tdata, tfile>>
    BY <1>2 DEF WriteBack, Rot, threadVars
  <2>2. \A b \in Chunk : FileSize(disk'[b]) = FileSize(disk[b])
    <3>1. CASE WriteBack(c)
      BY <3>1 DEF WriteBack, Exists
    <3>2. CASE Rot(c)
      <4>1. disk[c] \in File /\ Exists(c)
        BY <3>2 DEF Rot, ChunkInv, FilesOK, GoodFile
      <4>2. PICK f : /\ disk' = [disk EXCEPT ![c] = f]
                     /\ f \in {[disk[c] EXCEPT !.hdr = Rotten], [disk[c] EXCEPT !.body = Rotten]}
        BY <3>2 DEF Rot
      <4>3. f \in File /\ f.size = disk[c].size /\ f # None
        BY <4>1, <4>2, NoneAssumption DEF File
      <4> QED
        BY <4>1, <4>2, <4>3 DEF FileSize, Exists, ChunkInv, FilesTypeOK
    <3> QED
      BY <1>2, <3>1, <3>2
  <2> QED
    BY <2>1, <2>2, QuietUsage
<1>3. CASE Crash \/ PowerLoss
  <2>1. ~up' /\ \A t \in Thread : tpc'[t] = "idle"
    BY <1>3 DEF Crash, PowerLoss, ReturnAll
  <2> QED
    BY <2>1 DEF UsageInv
<1>4. CASE New
  <2>1. /\ ~up /\ up' /\ usedBytes' = orphans + TotalSize(DiskSize, Chunk)
        /\ UNCHANGED <<disk, orphans, tpc, tchunk, tdata, tfile>>
    BY <1>4 DEF New, scanUsedBytes, ChunkBytes, DiskSize, diskVars, threadVars
  <2>2. \A t \in Thread : tpc[t] = "idle"
    BY <2>1 DEF UsageInv
  <2>3. TotalSize(PutSize, Thread)' = TotalSize(PutSize', Thread)
    BY DEF TotalSize
  <2>4. TotalSize(PutSize', Thread) = 0
    <3>1. \A t \in Thread : PutSize'[t] = 0
      BY <2>1, <2>2 DEF PutSize
    <3> QED
      BY <3>1, TotalSizeZero
  <2>5. TotalSize(DeleteSize, Thread)' = TotalSize(DeleteSize', Thread)
    BY DEF TotalSize
  <2>6. TotalSize(DeleteSize', Thread) = 0
    <3>1. \A t \in Thread : DeleteSize'[t] = 0
      BY <2>1, <2>2 DEF DeleteSize
    <3> QED
      BY <3>1, TotalSizeZero
  <2>7. TotalSize(DiskSize, Chunk)' = TotalSize(DiskSize, Chunk)
    BY <2>1, DiskSame
  <2>8. usedBytes' + TotalSize(PutSize, Thread)'
          >= TotalSize(DiskSize, Chunk)' + TotalSize(DeleteSize, Thread)'
    <3>1. orphans' = orphans /\ usedBytes' = orphans + TotalSize(DiskSize, Chunk)
      BY <2>1
    <3>2. orphans \in Nat /\ TotalSize(DiskSize, Chunk) \in Nat
      BY DEF CounterTypeOK, SizesOK
    <3> QED
      BY <2>3, <2>4, <2>5, <2>6, <2>7, <3>1, <3>2
  <2> QED
    BY <2>1, <2>2, <2>8 DEF UsageInv
<1> QED
  BY <1>2, <1>3, <1>4

\* UsageInv is inductive relative to the other invariants.
LEMMA UsageStep ==
  ASSUME OneContent
  PROVE  /\ ChunkInv /\ PutInv /\ CounterTypeOK /\ UsageInv
         /\ [ChunkStoreNext]_chunkStoreVars
         => UsageInv'
<1> SUFFICES ASSUME ChunkInv, PutInv, CounterTypeOK, UsageInv, [ChunkStoreNext]_chunkStoreVars
             PROVE  UsageInv'
  OBVIOUS
<1>1. SizesOK /\ SizesOK'
  BY SizesBothSides
<1>2. ASSUME NEW t \in Thread, Put(t) \/ Get(t) \/ Delete(t) \/ CallFail(t)
      PROVE  UsageInv'
  <2>1. CallStep(t) \/ PutRename(t) \/ DeleteRemove(t)
    BY <1>2 DEF Put, Get, Delete, CallStep
  <2> QED
    BY <1>1, <2>1, CallUsage, AccountUsage, RenameUsage, RemoveUsage, GoneUsage
<1>3. CASE UNCHANGED chunkStoreVars
  <2>1. UNCHANGED <<disk, usedBytes, up, tpc, tdata, tfile>>
    BY <1>3 DEF chunkStoreVars, diskVars, threadVars
  <2> QED
    BY <2>1, QuietUsage
<1> QED
  BY <1>1, <1>2, <1>3, MachineUsage DEF ChunkStoreNext

\* storaged never reports space a chunk occupies as free: whenever no call is in
\* flight the counter behind AvailableBytes is at least what the chunks take,
\* after any crashes, failed calls and overlapping Puts and Deletes of one
\* chunk, as long as the writers of a chunk agree on its length.
THEOREM CounterCovers ==
  ASSUME OneContent
  PROVE  ChunkStoreSpec => []UsageCoversChunks
<1>1. ChunkStoreInit => CounterTypeOK /\ UsageInv
  <2> SUFFICES ASSUME ChunkStoreInit
               PROVE  CounterTypeOK /\ UsageInv
    OBVIOUS
  <2>1. CounterTypeOK
    BY ChunkStoreAssumption DEF ChunkStoreInit, CounterTypeOK
  <2>2. /\ up /\ usedBytes = 0 /\ orphans = 0
        /\ \A t \in Thread : tpc[t] = "idle"
        /\ \A c \in Chunk : disk[c] = None
    BY DEF ChunkStoreInit
  <2>3. /\ \A t \in Thread : PutSize[t] = 0 /\ DeleteSize[t] = 0
        /\ \A c \in Chunk : DiskSize[c] = 0
    BY <2>2 DEF PutSize, DeleteSize, DiskSize, FileSize
  <2>4. /\ TotalSize(PutSize, Thread) = 0 /\ TotalSize(DeleteSize, Thread) = 0
        /\ TotalSize(DiskSize, Chunk) = 0
    BY <2>3, TotalSizeZero
  <2> QED
    BY <2>1, <2>2, <2>4 DEF UsageInv
<1>2. ChunkInv /\ CounterTypeOK /\ UsageInv => UsageCoversChunks
  <2> SUFFICES ASSUME ChunkInv, CounterTypeOK, UsageInv, up, \A t \in Thread : tpc[t] = "idle"
               PROVE  usedBytes >= ChunkBytes
    BY DEF UsageCoversChunks
  <2>1. TotalSize(PutSize, Thread) = 0 /\ TotalSize(DeleteSize, Thread) = 0
    <3>1. \A t \in Thread : PutSize[t] = 0 /\ DeleteSize[t] = 0
      BY DEF PutSize, DeleteSize
    <3> QED
      BY <3>1, TotalSizeZero
  <2>2. usedBytes + 0 >= TotalSize(DiskSize, Chunk) + 0
    BY <2>1 DEF UsageInv
  <2>3. usedBytes \in Int /\ orphans \in Nat /\ TotalSize(DiskSize, Chunk) \in Nat
    BY SizesAreNumbers DEF CounterTypeOK, SizesOK
  <2>4. ChunkBytes = TotalSize(DiskSize, Chunk)
    BY DEF ChunkBytes, DiskSize
  <2> QED
    BY <2>2, <2>3, <2>4
<1>3. ChunkInv /\ PutInv /\ CounterTypeOK /\ UsageInv /\ [ChunkStoreNext]_chunkStoreVars => UsageInv'
  BY UsageStep
<1> QED
  BY <1>1, <1>2, <1>3, CounterStep, PutInvariant, PTL DEF ChunkStoreSpec

=============================================================================
