----------------------------- MODULE Lifecycle -----------------------------
(***************************************************************************)
(* The life of the metad process (cmd/metad/main.go): main opens the       *)
(* store, starts the background workers, the gRPC server and the metrics   *)
(* server, waits for a signal and takes everything down again.  What main  *)
(* starts runs in goroutines of its own that main does not wait for,       *)
(* except for the RPCs, which GracefulStop waits for.  log.Fatal, and a    *)
(* signal before signal.Notify, end the process on the spot: no deferred   *)
(* call runs.                                                              *)
(***************************************************************************)
CONSTANTS
  Rpc,      \* requests, each of which may come again and again
  Worker    \* the metrics updater, the health monitor, the repair scanner

VARIABLES
  main,       \* what main does next
  db,         \* the metadata store: "none", "open" or "closed"
  cancelled,  \* the root context is cancelled
  worker,     \* the goroutine of each worker
  serve,      \* the goroutine that calls Serve
  stopping,   \* GracefulStop was called
  metrics,    \* the goroutine of the metrics server
  rpc         \* "idle", "running" or "cut" (ended by the end of the process)

lifecycleVars == <<main, db, cancelled, worker, serve, stopping, metrics, rpc>>

StartPC == {"openStore", "startWorkers", "listen", "spawnServe", "spawnMetrics", "notify"}
StopPC == {"cancel", "gracefulStop", "drain", "shutdownMetrics", "closeStore", "return"}
Alive == main \notin {"exited", "killed"}

LifecycleInit ==
  /\ main = "openStore"
  /\ db = "none"
  /\ cancelled = FALSE
  /\ worker = [w \in Worker |-> "none"]
  /\ serve = "none"
  /\ stopping = FALSE
  /\ metrics = "none"
  /\ rpc = [r \in Rpc |-> "idle"]

\* log.Fatal, a panic or an unhandled signal: whatever runs is cut off.
Fatal ==
  /\ main' = "killed"
  /\ rpc' = [r \in Rpc |-> IF rpc[r] = "running" THEN "cut" ELSE rpc[r]]
  /\ UNCHANGED <<db, cancelled, worker, serve, stopping, metrics>>

-----------------------------------------------------------------------------
(* Start *)

\* Mutant: the error of NewSQLite is only logged.
OpenStoreLogged ==
  /\ main = "openStore"
  /\ main' = "startWorkers"
  /\ db' \in {"open", "failed"}
  /\ UNCHANGED <<cancelled, worker, serve, stopping, metrics, rpc>>

OpenStore ==
  /\ main = "openStore"
  /\ main' = "startWorkers"
  /\ db' = "open"
  /\ UNCHANGED <<cancelled, worker, serve, stopping, metrics, rpc>>

\* The updater begins with a round of its own, the others wait for a tick.
StartWorkers ==
  /\ main = "startWorkers"
  /\ main' = "listen"
  /\ worker' = [w \in Worker |-> IF w = "updater" THEN "busy" ELSE "waiting"]
  /\ UNCHANGED <<db, cancelled, serve, stopping, metrics, rpc>>

\* The listener and the certificates.
Listen ==
  /\ main = "listen"
  /\ main' = "spawnServe"
  /\ UNCHANGED <<db, cancelled, worker, serve, stopping, metrics, rpc>>

SpawnServe ==
  /\ main = "spawnServe"
  /\ main' = "spawnMetrics"
  /\ serve' = "spawned"
  /\ UNCHANGED <<db, cancelled, worker, stopping, metrics, rpc>>

SpawnMetrics ==
  /\ main = "spawnMetrics"
  /\ main' = "notify"
  /\ metrics' = "spawned"
  /\ UNCHANGED <<db, cancelled, worker, serve, stopping, rpc>>

Notify ==
  /\ main = "notify"
  /\ main' = "waitSignal"
  /\ UNCHANGED <<db, cancelled, worker, serve, stopping, metrics, rpc>>

\* The store cannot be opened, the port is taken, a certificate is missing.
StartFails == main \in {"openStore", "listen"} /\ Fatal

-----------------------------------------------------------------------------
(* Stop *)

Signal ==
  \/ /\ main = "waitSignal"
     /\ main' = "cancel"
     /\ UNCHANGED <<db, cancelled, worker, serve, stopping, metrics, rpc>>
  \/ main \in StartPC /\ Fatal

\* Mutant: main waits for the workers before it cancels their context.
CancelAfterWorkers ==
  /\ main = "cancel"
  /\ \A w \in Worker : worker[w] = "ended"
  /\ main' = "gracefulStop"
  /\ cancelled' = TRUE
  /\ UNCHANGED <<db, worker, serve, stopping, metrics, rpc>>

Cancel ==
  /\ main = "cancel"
  /\ main' = "gracefulStop"
  /\ cancelled' = TRUE
  /\ UNCHANGED <<db, worker, serve, stopping, metrics, rpc>>

GracefulStop ==
  /\ main = "gracefulStop"
  /\ main' = "drain"
  /\ stopping' = TRUE
  /\ UNCHANGED <<db, cancelled, worker, serve, metrics, rpc>>

\* Mutant: Stop, which does not wait for the requests.
StopAtOnce ==
  /\ main = "drain"
  /\ main' = "shutdownMetrics"
  /\ serve' = IF serve = "serving" THEN "returned" ELSE serve
  /\ UNCHANGED <<db, cancelled, worker, stopping, metrics, rpc>>

\* GracefulStop returns when the last request has its answer.
Drained ==
  /\ main = "drain"
  /\ \A r \in Rpc : rpc[r] # "running"
  /\ main' = "shutdownMetrics"
  /\ serve' = IF serve = "serving" THEN "returned" ELSE serve
  /\ UNCHANGED <<db, cancelled, worker, stopping, metrics, rpc>>

\* Shutdown gives up after DefaultNodeTimeout, and main goes on either way.
ShutdownMetrics ==
  /\ main = "shutdownMetrics"
  /\ main' = "closeStore"
  /\ metrics' = "ended"
  /\ UNCHANGED <<db, cancelled, worker, serve, stopping, rpc>>

\* The deferred Close.
CloseStore ==
  /\ main = "closeStore"
  /\ main' = "return"
  /\ db' = "closed"
  /\ UNCHANGED <<cancelled, worker, serve, stopping, metrics, rpc>>

Exit ==
  /\ main = "return"
  /\ main' = "exited"
  /\ rpc' = [r \in Rpc |-> IF rpc[r] = "running" THEN "cut" ELSE rpc[r]]
  /\ UNCHANGED <<db, cancelled, worker, serve, stopping, metrics>>

-----------------------------------------------------------------------------
(* Goroutines *)

\* Serve on a server that was stopped before fails with ErrServerStopped.
ServeRuns ==
  /\ Alive
  /\ serve = "spawned"
  /\ IF stopping
     THEN Fatal
     ELSE /\ serve' = "serving"
          /\ UNCHANGED <<main, db, cancelled, worker, stopping, metrics, rpc>>

\* The listener fails while the server runs: Serve returns the error, and its
\* goroutine ends the process some time later.
ServeBreaks ==
  /\ Alive
  /\ serve = "serving"
  /\ ~stopping
  /\ serve' = "broken"
  /\ UNCHANGED <<main, db, cancelled, worker, stopping, metrics, rpc>>

ServeFatal == Alive /\ serve = "broken" /\ Fatal

\* ListenAndServe of the metrics server fails, at once or later, or it serves.
MetricsRuns ==
  /\ Alive
  /\ \/ metrics \in {"spawned", "serving"} /\ Fatal
     \/ /\ metrics = "spawned"
        /\ metrics' = "serving"
        /\ UNCHANGED <<main, db, cancelled, worker, serve, stopping, rpc>>

Accept(r) ==
  /\ Alive
  /\ serve = "serving"
  /\ ~stopping
  /\ rpc[r] = "idle"
  /\ rpc' = [rpc EXCEPT ![r] = "running"]
  /\ UNCHANGED <<main, db, cancelled, worker, serve, stopping, metrics>>

Answer(r) ==
  /\ Alive
  /\ rpc[r] = "running"
  /\ rpc' = [rpc EXCEPT ![r] = "idle"]
  /\ UNCHANGED <<main, db, cancelled, worker, serve, stopping, metrics>>

\* A handler panics; no interceptor recovers.
Panic(r) == Alive /\ rpc[r] = "running" /\ Fatal

SetWorker(w, state) ==
  /\ worker' = [worker EXCEPT ![w] = state]
  /\ UNCHANGED <<main, db, cancelled, serve, stopping, metrics, rpc>>

\* A tick; select may take it although the context is done as well.
WorkerWakes(w) == Alive /\ worker[w] = "waiting" /\ SetWorker(w, "busy")

\* The pass ends, with an error in every statement once the context is done.
PassEnds(w) == Alive /\ worker[w] = "busy" /\ SetWorker(w, "waiting")

WorkerEnds(w) ==
  Alive /\ worker[w] = "waiting" /\ cancelled /\ SetWorker(w, "ended")

MainStep ==
  \/ OpenStore \/ StartWorkers \/ Listen \/ SpawnServe \/ SpawnMetrics \/ Notify
  \/ Cancel \/ GracefulStop \/ Drained \/ ShutdownMetrics \/ CloseStore \/ Exit

LifecycleNext ==
  \/ MainStep
  \/ StartFails
  \/ Signal
  \/ ServeRuns
  \/ ServeBreaks
  \/ ServeFatal
  \/ MetricsRuns
  \/ \E r \in Rpc : Accept(r) \/ Answer(r) \/ Panic(r)
  \/ \E w \in Worker : WorkerWakes(w) \/ PassEnds(w) \/ WorkerEnds(w)

\* main and a running request go on: no RPC of metad waits for anything but
\* its turn on the database.
LifecycleSpec ==
  /\ LifecycleInit
  /\ [][LifecycleNext]_lifecycleVars
  /\ WF_lifecycleVars(MainStep)
  /\ \A r \in Rpc : WF_lifecycleVars(Answer(r))

-----------------------------------------------------------------------------
(* Properties *)

\* Every variable has the type the code gives it.
LifecycleTypeOK ==
  /\ main \in StartPC \cup {"waitSignal"} \cup StopPC \cup {"exited", "killed"}
  /\ db \in {"none", "open", "closed"}
  /\ cancelled \in BOOLEAN
  /\ worker \in [Worker -> {"none", "waiting", "busy", "ended"}]
  /\ serve \in {"none", "spawned", "serving", "broken", "returned"}
  /\ stopping \in BOOLEAN
  /\ metrics \in {"none", "spawned", "serving", "ended"}
  /\ rpc \in [Rpc -> {"idle", "running", "cut"}]

\* A shutdown by signal finishes the RPCs in flight: none runs without an open
\* store and none is cut off unless the process is killed.
RpcsDrained ==
  \A r \in Rpc :
    /\ rpc[r] = "running" => db = "open"
    /\ rpc[r] = "cut" => main = "killed"

\* A shutdown comes to its end although requests keep coming in.
ShutdownCompletes == main = "cancel" ~> ~Alive

=============================================================================
