# Formal models of the distributed file system

TLA+ models of `metad` (the metadata service) and `storaged` (the storage
node), model-checked with TLC and, for the metadata service, the cluster as a
whole, the chunk store and the life of the process, proved with TLAPS. Paths
are relative to the repository. Every definition that models code is listed
with its source lines in `PROJECT.json` ("map").

## 1. The system

| component | state | operations | talks to |
|---|---|---|---|
| metadata store (`internal/metadata/store`) | SQLite tables `files`, `chunks`, `chunk_locations`, `nodes`, `upload_sessions`; one connection | statements; `WithTx` | everything in metad |
| manifest manager (`internal/metadata/manifest`) | none of its own | `PrepareUpload`, `CommitUpload`, `DeleteFile`, `GetFile`/`GetChunks`/`GetChunkLocations`, `ListFiles` | store, registry, placement |
| placement (`internal/metadata/placement`) | replication factor | `SelectReplicas` | called by the manifest manager |
| policy (`internal/metadata/policy`) | default chunk size | asked once at start | `cmd/metad/main.go` |
| ids (`internal/common/ids`) | none: a new entropy source per call | `NewRequestID` | manifest manager |
| metrics updater (`internal/metadata/metrics_updater.go`) | four gauges | `Start`: four counts at every tick | store |
| process (`cmd/metad/main.go`) | store, context, workers, two servers | start, signal, shutdown | everything in metad |
| registry (`internal/metadata/registry`) | `nodes.status`, `nodes.last_heartbeat` | `Heartbeat`, `ListHealthyNodes`, `IsNodeHealthy`, the monitor loop | store, gauge |
| metad gRPC services (`cmd/metad/server.go`) | one goroutine per request | the RPCs of MetadataService, `Heartbeat` | manifest manager, registry |
| heartbeat client (`cmd/storaged/metad_client.go`) | registered or not, one outstanding call | first heartbeat, heartbeat loop | metad |
| repair scanner (`internal/metadata/repair`) | one goroutine, the pass it is in | `scanOnce`, `repairChunk` | store, registry, node client |
| CopyChunk (`internal/node`, `cmd/storaged/node_server.go`) | none | target pulls a chunk from a source and stores it | source and target node |
| chunk store (`internal/storage/chunkstore`) | files below `baseDir`, `usedBytes` behind a mutex | `New`, `Put`, `Get`, `Delete`, `Exists` | file system |
| storage gRPC service (`cmd/storaged/server.go`) | one goroutine per request | `PutChunk`, `GetChunk`, `DeleteChunk` | chunk store |
| other metrics, authentication, errors, configuration, logging, protocol | - | - | - |

An upload: the client calls `PrepareUpload` (file, session and chunk rows are
written, a placement is returned), sends every chunk to the nodes it was
given, and calls `CommitUpload` with the nodes that have each chunk. In the
background nodes send heartbeats, the monitor marks silent nodes down, and the
repair scanner copies chunks of committed files that have too few healthy nodes.

What is hard here:

* **concurrency without transactions.** A statement, or a `WithTx`
  transaction, is atomic (`SetMaxOpenConns(1)`); most operations are several
  statements. `GetFile`, `DeleteFile`, the heartbeat's upsert, a monitor pass and
  a repair all act on what they read earlier.
* **files without locks.** The chunk store locks only its counter; checks,
  renames and removals of concurrent calls interleave.
* **failure.** Crashes of either process, power loss, bit rot, lost calls,
  lost answers, calls that break off half-way, nodes that stop and return.
* **time.** Health is a comparison of a truncated timestamp with a later clock;
  an id is ordered by a clock that may not have moved.
* **one connection for everybody.** A request that holds it must not need a
  second one, and a list of rows may break off unnoticed.
* **two stores of truth.** What the database says of a replica and what a disk
  holds are written by different processes at different times.

What makes each component correct is stated as properties in section 4;
`PROJECT.json` ("hazards") lists each hazard at its line with the properties
that would catch it, or why none does.

## 2. The modules

```
NodeTable ── FileTables ── MetaStore ── Manifest ── MCManifest
    │            │                         ├─────── SqliteTx ── MCSqliteTx
    │            │                         │          ├ (instance) Manifest
    │            │                         │          └────── SqliteTxProofs
    │            │                         │                    └ (instance) ManifestProofs
    │            │                         └─────── ManifestRefinement
    │            │                                     ├ (instance) FileService
    │            │                                     ├── ManifestProofs
    │            │                                     └── Cluster ── MCCluster
    │            │                                            └────── ClusterProofs (and ManifestProofs)
    │            ├──────── Repair ── MCRepair
    │            │             └──── RepairProofs
    │            └──────── MetricsUpdater ── MCMetad (and Lifecycle)
    │                          └──────────── MetadProofs (and Lifecycle)
    └── Registry ── MCRegistry
            └────── RegistryProofs
ChunkStore ── MCChunkStore
    └──────── ChunkStoreProofs
ChunkPlan ── MCChunkPlan
    └─────── ChunkPlanProofs
Lifecycle ── MCMetad, MetadProofs
```

Three levels describe the life of a file: `SqliteTx` implements `Manifest`,
and `Manifest`, alone and inside `Cluster`, implements `FileService`, what a client
may rely on.

**NodeTable, FileTables, MetaStore**: the database. A table is a function from
its primary key, with a value for the absent row; a statement is an operator; a
statement that can break a primary key has that as a conjunct, so the
conjunction of a transaction's statements is the whole transaction or nothing.
The three are separate because Registry needs only the nodes and Repair no
sessions.

**Manifest**: the life of a file. `PrepareUpload` is `PrepareUploadRead` (list
of healthy nodes) and `PrepareUploadTx` (placement and transaction; the random
shuffle is a choice over all results); `CommitUpload` is one transaction, with a
client that sends any replica map over the bounded lists, empty node ids and
repeated nodes included; `DeleteFile` is a read and an update; `GetFile` is one
action per statement. `HandlerError` ends any request at any point (failed
statement, cancelled context, crash of metad). `NodeHeartbeat`, `NodeTimeout` and
`RepairAdds` stand for the other writers; Registry and Repair model them in
detail. What these writers do to the tables is written once, next to the tables
(`HeartbeatMarks`, `MonitorMarks`, `RepairRecords`): Manifest takes it as a step,
and it is proved that Registry and Repair do no other (section 5).

**Registry**: heartbeats and the monitor. A storaged has one call outstanding;
the call may be lost, or its answer, and the node may stop, while the handler
carries on with the time it read when it began. The upsert is an UPDATE and, if
it met no row, an INSERT. The monitor reads the rows, then the clock, then
writes row by row, then counts and sets the gauge. Time is the age of a
timestamp in whole seconds, saturating just above the timeout; a recorded time
is truncated and the clock is not, so at exactly the timeout the comparison may
go either way (`StaleAnswers`).

**Repair**: `scanOnce` and `repairChunk` with one action per statement or
call, every error path, and the world that changes meanwhile. `Rank` is the
order in which SQLite returns rows, the same in every pass. `stored` is what the
disks hold and `chunkLocations` what the database says. A location is kept as
a source when `IsNodeHealthy` and the list read right after it both have it; the
model reads once (see the comment at `ReadHealth`). Each of the three lists the
scanner reads may be short without an error (`ScanStartShort`, `ScanNextShort`,
`ChooseTargetShort`), as `rows.Err()` is never read. A short list of locations
makes a node that is on record a target; the copy is made and the INSERT refused
(`RecordRefused`): `AddChunkLocation` is a plain INSERT, whatever its comment
("idempotent insert: ignore if already exists", `sqlite.go:288`) says.

**ChunkStore**: one action per system call that another call can observe.
`disk` is what the running system sees, `onDisk` the directory entries a power
loss may leave, `orphans` the bytes in temporary files nobody owns. SHA-256 is
taken to be injective, so a header is the payload it was computed from. Any
thread may put or delete any chunk at any time: a call that timed out, its retry,
a repair copy. `MayPut` says which payloads callers put under an id; in the run
`chunkstore` they agree (`OneContent`), which is how the system uses the store
(ids are new for every upload), in `chunkstore_worm` they do not. `Put` takes any
error of `os.Open` for an absent file, so it may always go on to write, and its
clean-up may leave the temporary file behind (an ignored error of `os.Remove`).

**FileService, ManifestRefinement**: the abstract specification. A file is
absent, uploading, published or removed; a read starts on a published file and
its answer is whole. The mapping takes the state of a file from
`files.status`, a read from a `GetFile` handler between its first statement and
its answer, and calls the answer "whole" when every chunk of the file is in the
plan with `ReplicationFactor` nodes and no chunk of another file is. A torn
answer is a value of `reply` that no step of FileService produces.

**SqliteTx**: `WithTx` and the single connection. A transaction takes `conn`,
keeps the tables of its beginning in `saved`, runs one statement per step and
commits or restores; every other statement waits for `conn`. An error, a
cancelled request or a crash may come before any statement and before the
COMMIT; the answer of `CommitUpload` is a step of its own, so that it can be
lost. The refinement mapping reads the tables a crash would leave (`Durable`)
and takes a handler inside a transaction for one that has not begun it. The rows
of `GetChunksByFileID`, or of `GetChunkLocations`, may end early in a `GetFile`,
as `rows.Err()` is never read; Manifest has no such step, so the mapping takes a
request with a broken-off list for one that has failed: everything else is
refined, and the answer it gives is the subject of `TxPlanComplete`.

**ChunkPlan**: the loop of `PrepareUpload` with integers of width `MaxInt`
(sums wrap, division rounds towards zero, `make` panics on a negative
capacity), ids as pairs of a time and entropy, and a client. The reply is built
from a map and has no index and no offset, so the client of the model sorts the
plan by chunk id, the only order it is given. The clock may stand still, go on
or be set back. `Accepts` is the limit of the chunk store and gRPC's on received
messages; the latter is chosen in the first state, so that a run can take the
default, which storaged leaves alone, and a larger one.

**Cluster**: Manifest with storage nodes (off, registered, serving) and their
disks, an uploader that commits what was acknowledged, the scanner as a copy
and a record that are two steps, and readers. It is the composition at the level
of whole calls: what happens inside the calls is the business of Registry,
Repair and ChunkStore. The client is external; it keeps to the protocol, may
give up anywhere and repeats calls.

**Lifecycle**: `main` of metad statement by statement, the goroutines it
spawns, RPCs, and `log.Fatal` (a failed start, a server that fails at once or
later) or a panic of a handler, which end the process without deferred calls.

**MetricsUpdater**: one action per count and per gauge write, while the
tables change through the operations of the other components.

History variables (`ackedDeletes`, `ackedCommits`, `wasPut`, `everHeld`, `late`;
`offered` and `acked` outside Cluster, where they are what the uploader
remembers) record what a client was told or what once was true; no guard reads
them.

## 3. Bounds

| run | bounds | why they are enough |
|---|---|---|
| `manifest` | 2 files, sessions, chunks, handlers; 3 nodes; factor 2; lists of none or two ids; files of 1 and 2 chunks | two requests race on one file while a second file exists; lists with a repeated node, with an empty id, with too few entries; a third node for repair to add. The theorems cover every size. |
| `chunkstore` | 2 threads, 2 chunks with a payload of different length each, 1 fault, `MaxDrift` 5 | two overlapping calls on one chunk (Put and retry, Put and Delete), or one on each, with a crash, power loss, rotten block or file left behind at any point; overlapping Puts are both counted, so the counter grows without bound and no call starts once it exceeds `MaxDrift`, which leaves room for one double count. The theorems have none of these bounds. |
| `chunkstore_worm` | 1 chunk, 2 payloads, no fault, `MaxDrift` 3 | two calls on one chunk that disagree |
| `registry` | 1 node, 2 handlers, timeout 3 | a late handler of an abandoned call races the one of the next call and both race the monitor; the rows of two nodes meet only in the gauge, and the properties speak of one node at a time |
| `repair` | 2 one-chunk files, 3 nodes, factor 2, 2 faults (a lost replica or a short list is one) | a pass over two chunks, a target outside the two locations; one fault makes a chunk under-replicated and a second one strikes its repair |
| `repair_stuck` | 1 chunk, 4 nodes, factor 3, 2 faults | one bad source, one good one and a free target |
| `sqlite_tx` | 1 file, 1 session, 2 chunks, 2 nodes, 2 handlers, factor 1, 1 request with a broken list at a time; a client sends one node, once or twice | a transaction of several inserts while another request waits for the connection; a repeated row that refuses the second insert; a retried commit; a node for repair to add |
| `sqlite_broken` | 1 node | two chunks are the fewest of which a part can be missing |
| `chunkplan` | `MaxInt` 15, chunk size 3, every size from -16 to 15, 2 values of entropy, 3 values of the clock, a limit equal to the chunk size (as in the program) and one that lets a full chunk pass | every residue of size modulo chunk size, every size at which the sum wraps, a plan of several chunks, two ids in one millisecond in either order |
| `chunkplan_order` | the same, with the program's limit | two chunks are enough |
| `cluster` | 1 file of 1 chunk, 3 nodes, factor 2, 2 handlers, 2 stops | a stop before and after the commit, a repair onto the third node, an old plan next to a newer one; the theorems cover every size |
| `metad` | 2 RPCs, the 3 workers; 1 file, 1 chunk, 2 nodes | one RPC in flight and one that comes in during the shutdown; both values of every count move between the count and the gauge write, and one statement fails for ever. Lifecycle and MetricsUpdater share no variable: the first state of the run says which of them moves (`MCMetad`). The theorems cover every number. |

`FailureTimeout = 3` is the smallest value at which one second early, at the
timeout and after it are different and a heartbeat can still be in time.

## 4. Runs and what they show

**manifest** (542,841 states). A committed file has chunks with
`ReplicationFactor` different nodes (`CommittedFullyReplicated`): `CommitUpload`
counts list entries only, and the primary key of `chunk_locations` does the rest.
Pending files have no locations (`UncommittedHasNoLocations`), session and file
agree (`SessionFileAgreement`), an acknowledged delete is final although a
commit may arrive later (`AckedDeleteIsFinal`), the multi-statement reply of
`GetFile` is complete (`GetFilePlanComplete`), what was offered stays
committable (`OfferedPlacementCommits`), files move only forward
(`LifecycleForward`).

**chunkstore** (620,088 states). No torn chunk under a path and only genuine
payloads delivered; with callers that agree on what belongs under an id, an
acknowledged Put is found until a Delete, whatever Puts, retries and Deletes of
the chunk overlap and although an Open that fails makes `Put` write over a chunk
that is there (`AckedPutSurvives`), and the counter never falls below the bytes of
the chunks between calls (`UsageCoversChunks`). It may be above them for good:
Puts that overlap, or that write over a chunk, are all counted, and temporary
files left behind are counted by the next scan. Durability is claimed for
directory entries that were written back: `Put` does not sync the directory, so a
power loss right after the answer may undo it, and the model lets it.

**registry** (521,340 states). A node whose
heartbeats stay younger than the timeout, in the table and in the monitor's
snapshot, is never marked down; once the network behaves a running node ends up
healthy for good, a stopped one not healthy, and the gauge at the true count,
although verdicts from an old snapshot overwrite fresh rows on the way.

**repair** (907,064 states). A location is recorded only for a node that was
given the chunk (`RecordedWasStored`); the copy is read from a node on record
that is not the target, whichever lists are short (`CopyFromRecorded`); pending
uploads are left alone (`PendingUntouched`); an under-replicated chunk whose
recorded replicas are on their disks is healed (`HealedUnlessLost`). The
condition is needed: the scanner counts healthy nodes and never asks them for
the chunk, so a file that is gone from a live node's disk is never noticed.

**sqlite_tx** (155,989 states). Whatever fails between two statements, the
database goes through Manifest's atomic steps (`ImplementsManifest`); a
`CommitUpload` that was answered with success is in the database a crash would
leave (`AckedCommitIsDurable`), also when the answer is the short cut for a
repeated request; the references between tables hold without the
`foreign_keys` pragma (`DurableForeignKeys`), which is set on the first connection
of the pool only; and whoever has the only connection can go on
(`HolderNeverWaits`): a statement inside a transaction that asked the pool for a
second one would block everybody for ever.

**chunkplan** (182,028 states). A plan covers the file exactly although the
count is computed in wrapping arithmetic: where it wraps, the count is negative
and `make` panics, never a wrong plan (`PlanCoversFile`). A reader gets every
piece of the file once, and two pieces the wrong way round only if the clock did
not go on between their ids (`ReadBackByTime`); see `chunkplan_order` for ids of one
millisecond. Which files can be uploaded depends on their size and the limits of
the storage nodes, never on the order of the chunks (`SizeDecidesUpload`): with the
chunk size and the limit the program has, no file of a full chunk or more, since
the default chunk size (`policy.go:27`) is gRPC's default limit on a received
message and a message holds more than the data.

**cluster** (537,958 states). With a client that commits what was acknowledged
every recorded replica is on its node's disk (`RecordedIsHeld`), and a reader with
a plan, however old, reaches every chunk as long as fewer than
`ReplicationFactor` nodes are not serving (`ReadSurvivesFailures`). Clients see the
service of FileService (`ImplementsFileService`): publication of all chunks at one
moment, no resurrection, and no torn answer although `GetFile` is several
statements without a transaction.

**metad** (212,469 states, 3,259 of them of Lifecycle). A shutdown by signal cuts
no RPC off and closes the store after the last one (`RpcsDrained`), and it comes to
an end although requests keep coming (`ShutdownCompletes`). The background workers
are not awaited: the store may be closed under a pass, whose statements then fail.
The totals the metrics updater shows never run ahead of the tables
(`GaugesNotAhead`) and each gauge converges even if another's statement fails for
ever (`GaugesConverge`).

Runs that end in a violation, each a disagreement between the code and what
the repository says of it ("findings"):

* **chunkstore_worm**: two Puts of different data under one id both get past the
  check, because they overlap or because Open fails for the second, and the later
  rename wins; the docs promise write-once chunks.
* **repair_stuck**: `healthyReplicas[0]` is the source in every pass; if that
  node has lost the file, the chunk is never healed although another replica is
  intact.
* **sqlite_broken**: an error in the middle of `GetChunksByFileID`'s rows looks
  like their end, and `GetFile` answers with a part of the file.
* **chunkplan_order**: `NewRequestID` makes a new monotonic source for every call,
  so two ids of one millisecond are in random order and a client that goes by
  them stores two pieces the wrong way round; `docs/internal-packages.md:127` and
  `:132` promise the order.

Deadlock is checked in every run but those of ChunkPlan and `metad`, which
model one upload and one life of a process and end; elsewhere a node can always
be heard of and a handler, a scanner or a ticker can always go on.

### Fairness

`RegistrySpec`: weak fairness of each handler, of sending by a running node
(the ticker of `startHeartbeat` fires for ever and a failure is only logged), of
the monitor (its ticker) and of time. `RepairSpec`: weak fairness of the
scanner's steps and of the status column catching up with a node's state, which
is what `registry` shows of the registry. Both assume that a call between
running nodes returns: neither `Heartbeat` nor `CopyChunk` has a deadline, and a
call that hangs stops its loop ("hazards"). Misbehaviour is confined by `stable`:
the liveness properties speak of behaviours in which nodes and network settle.
`LifecycleSpec`: weak fairness of `main` and of a running
RPC (an RPC of metad waits for the database only, see `sqlite_tx`); nothing is
assumed of the workers, which main does not wait for. `UpdaterSpec`: weak fairness
of the updater's goroutine and ticker. Manifest, SqliteTx, Cluster, ChunkPlan and
ChunkStore have no liveness properties and no fairness.

## 5. Proofs

TLAPS proves, for every value of the constants that satisfies the named
assumptions (`NodeAssumption`, `FileTablesAssumption`, `ManifestAssumption`,
`SqliteTxAssumption`, `ClusterAssumption`, `RegistryAssumption`,
`RepairAssumption`, `ChunkPlanAssumption`, `ChunkStoreAssumption`,
`NoneAssumption`; TLC evaluates them in every run that
extends the modules), every safety property the runs check but one. They say
that the sets are finite, that the values for "none" are not members of them
and that sizes, counts and bounds are numbers. The strongest are that a chunk
size is at most half of the largest int64 (`DetermineChunkSize` returns a few
MiB) and, as a hypothesis of some theorems about ChunkStore, `OneContent`.

* **ManifestProofs**: all properties of the run `manifest`. The inductive
  invariant `ManifestInv` adds to them the foreign keys, `OneSessionPerFile`
  (otherwise committing one session would disturb another's file) and
  `HandlerInv`: what a request may still rely on between two statements. For a
  `GetFile` in flight that is `EverCommitted`: the file was committed when it
  was read and its locations can only have grown, even if it has been deleted
  since; so each chunk read already has enough nodes in the plan. The proof has a
  lemma per action; the counting facts (an injective list of length k has k
  elements; a superset is not smaller) rest on FiniteSetTheorems. `SettledChunks` is
  what Repair relies on (see below).
  `Refinement`: `ManifestSpec` implies `ImplementsFileService`.
  Each action maps to the step of FileService one expects (the transaction of
  `PrepareUpload` to `Create`, of `CommitUpload` to `Publish`, the update of
  `DeleteFile` to `Remove`) or to a stutter. The mapping of `reply` depends on
  tables that other requests change while a handler is about to answer; that
  none of these steps changes it follows from `ManifestInv`, which makes every
  plan about to be sent whole, so the mapped value is "whole" before and after.
* **ChunkStoreProofs**: `NeverTorn` and `ReadsAreGenuine` for any number of
  threads on the same chunk and any number of faults, from `ChunkInv`: every file
  that is, or after a power loss may be, under a path was synced before it got
  there, and if it passes the checksum it was put under that id; the same of the
  file a `Get` has open. `PutInvariant`: whatever calls overlap, only what callers
  may put under an id is anywhere, and an acknowledged chunk has a file.
  `ReadsBelong` follows for any callers. The other theorems are about callers that
  agree on the content of a chunk (`OneContent`), and have no other hypothesis: any
  number of Puts, retries, repair copies and Deletes of one chunk may overlap,
  and `Put` may get past its check although the file is there. Then an
  acknowledged Put stays until a Delete (`AckedPutsSurvive`), a path changes, rot
  aside, only from a rotten file to a whole one (`AgreedWriteOnce`), and the counter
  is never below the chunks (`CounterCovers`). For the last one the invariant
  counts: `usedBytes`, with what calls have renamed and not yet added and without
  what they have removed and not yet subtracted, covers the files under the
  paths; a rename over a file that is there adds to the left side only. A sum of
  sizes is `TotalSize`, the number of bytes in the files, so that theorems about
  cardinalities replace an induction over the files. Without `OneContent` the first
  two are false, as `chunkstore_worm` shows.
* **ClusterProofs**: `ClusterTypeOK`, `RecordedIsHeld` and `ReadSurvivesFailures`
  for any number of files, chunks, nodes, stops and requests. `ClusterInv` is
  `ManifestInv` (its lemmas are reused action by action), `HeldInv` (what is
  recorded, acknowledged or copied and not yet recorded is on a disk),
  `PlansRecorded` (a reader's plan is a part of `chunk_locations`, which only
  grows), `OfferedLists` and `NodesOK`. `ReadSurvivesFailures` then counts: a chunk
  of the plan has at least `ReplicationFactor` nodes and fewer are not serving, so
  one serves. `ClusterRefinement` reuses the step lemmas of the refinement: steps of
  nodes, uploads and repairs are invisible to clients.
* **SqliteTxProofs**: `TransactionsAtomic`, that the transactions with all their
  failures implement Manifest, and from it `AckedCommitIsDurable` and
  `DurableForeignKeys`. `SqliteInv` is about two databases, the one the holder
  of the connection sees and the one a crash would leave (`Durable`):
  `PrepareTxOK` and `CommitTxOK` say, for every statement a transaction has come
  to, by exactly which rows the two differ, so that the commit is the one step
  of Manifest and a rollback, error or crash at any point none. What Manifest
  promises is said of `Durable` by the instance `MP` of ManifestProofs, whose
  lemmas are cited; a request whose list of chunks broke off (`broken`) counts
  as failed there. The same instance joins the levels: `DurableRefinement`, the
  statements implement FileService on the database a crash would leave, and
  `DurableLifecycle`, no rollback or crash takes back what was committed.
  `HolderGoesOn` is the part of `HolderNeverWaits` that is about states: the
  condition of the holder's next statement (`StatementReady`) holds, or that of
  its refusal. It needs that a list of INSERTs is empty exactly when the
  transaction is past it, and that a list not yet empty has a first row.
* **RegistryProofs**: `RegistryTypeOK` and `PunctualNeverDown`, for any timeout
  and any number of handlers. The verdict is written long after the row and the
  clock were read, so `RegistryInv` follows the chain back: the rows of a node
  that was never late, in the table and in the monitor's snapshot, are younger
  than the timeout (`PunctualIsYoung`), and a verdict "down" still to be written
  is about a late node (`VerdictOnlyOnLate`). `RegistryWritesAsAssumed`: whatever
  handlers, monitor and faults do, a change of the status column is one of the
  two Manifest allows (a heartbeat marks a node healthy, the monitor marks a
  healthy node down), although the monitor writes what it concluded from an
  older snapshot.
* **RepairProofs**: `RepairTypeOK`, `RecordedWasStored`, `CopyFromRecorded` and
  `PendingUntouched`. The scanner holds no lock between the list of locations
  and the INSERT, and its lists may be short. `RepairInv` says what it may rely on
  all the same: what it lists or holds belongs to a file that is past its upload
  (`ScanSettled`), no file becomes pending again and locations are never dropped,
  so what was read is still on record (`LocationsCurrent`) and a source is one of
  these (`SourcesAreLocations`) and not the target. That the target is not on
  record yet is not among them: it is false when the list of locations was short.
* **ChunkPlanProofs**: `PlanCoversFile`, `ReadBackByTime` and `SizeDecidesUpload`, for
  every width of the integers, chunk size, file size, clock, source of ids and
  limit of the storage nodes. `CountChunksSound`: a sum that wraps gives a negative
  count, never a wrong positive one. `PlacesComplete` and `PlacesFollowIds`: sorting
  the ids gives every chunk a place of its own, in the order of the ids.
  `LongestDecides`: the first piece is the longest one, and who takes it takes the
  others. `PlanInv` adds that the ids differ and that what is stored under a chunk
  is the piece at its place and was accepted.
* **MetadProofs**, first part: `LifecycleTypeOK` and `RpcsDrained` for any number of
  RPCs and workers. `LifecycleInv` adds which resources exist at each point of
  `main`: no RPC runs once the drain is over, the store is open until then, and
  the server is not yet started while `main` is before it.
* **MetadProofs**, second part: `GaugesNotAhead`. `GaugesInv` adds that a count
  that was read and is not yet set is within the bound too; no other user of
  the database takes a row away (`RowsStay`), so no bound ever falls.

The components are joined in both directions. Manifest, Cluster and SqliteTx let
a repair record a replica in one step; `RepairWritesAsAssumed` shows that the
scanner of Repair, with every read, failure and restart in between, writes
nothing but such a step. Repair in turn assumes of the other writers that a
chunk of a committed file stays in its file and gets locations from a repair
only; `SettledChunks` shows this of every step of Manifest.

TLC finds each of these invariants true on the instance of its run, too.
Only model-checked: all liveness (`RunningBecomesHealthy`, `StoppedBecomesDown`,
`GaugeConverges`, `HealedUnlessLost`, `ShutdownCompletes`, `GaugesConverge`) and
`HolderNeverWaits`, which is about ENABLED; the provers do neither. (That
`StatementReady` is the same as ENABLED is read off the actions of `TxStep`, which
determine every primed variable.) The four
properties that are violated (section 4) are false and have no proof.

## 6. Not modelled

* Authentication (a stateless filter before the handlers that relies on a
  cryptographic library; a rejected call changes nothing), error wrapping and
  error codes, configuration, logging, generated protocol code, certificates,
  scripts. None of these keeps state that an operation changes.
* Names, addresses and creation times: the reply of `PrepareUpload` puts node ids
  into the address field, which no property here is about.
* Calls that never return: `Heartbeat` and `CopyChunk` have no deadline; a model of
  a call that hangs would only repeat that its loop stops ("hazards").
* Limits the code does not enforce: the capacity of a node, the age of a
  session that is never committed, the chunks of deleted files, which nobody
  collects. No promise of the code is about them.
* Broken-off rows (`rows.Err()`) where they are not in SqliteTx (the two lists of
  `GetFile`) or Repair (the three of the scanner). `CommitUpload` reads
  `GetChunksByFileID` inside its transaction: with a short list a complete replica
  map is refused, and a map that lacks the very chunks the list lacks would be
  accepted, so `CommittedFullyReplicated` holds as long as that list is whole.
  `PrepareUpload` would place on fewer nodes or fail; the monitor would look at
  the nodes it missed at its next pass. `ListFiles` would answer with fewer files.
* A COMMIT that fails and leaves its transaction open: `WithTx` returns the error
  without a `Rollback`. The model takes a failed COMMIT for one that has ended the
  transaction without effect, which is database/sql's and the driver's part.
* All metrics but the gauges of MetricsUpdater and `healthy_nodes`; they are
  counters nobody reads.
* `main` of storaged in detail: it has the shape of metad's, and its order of
  registration and listening is in Cluster.
* `RegisterNode`, `UpdateNodeHeartbeat` and `ListAllChunks`, which nothing calls,
  and the session status `aborted` of a comment in `store.go`, which nothing
  writes.

## 7. Plan

Done: the tables; Manifest, its abstract specification and its transactions;
ChunkStore; Registry; Repair; the composition in Cluster; ChunkPlan; Lifecycle;
MetricsUpdater; proofs of every safety property of these but `HolderNeverWaits`,
whose guards are proved; the steps between the components; chunks with several
writers; short lists in `GetFile` and in the scanner. Next:

1. The safety part of healing: that a pass which meets no fault leaves a chunk
   with more healthy replicas than before.
2. Broken-off rows (`rows.Err()`) in `CommitUpload` and in the monitor.
