------------------------------ MODULE MCMetad ------------------------------
(***************************************************************************)
(* Model-checking instance of Lifecycle and of MetricsUpdater.  They share *)
(* no variable, so one run takes both: the first state says which of the   *)
(* two moves, and the other one stays as it is.                            *)
(***************************************************************************)
EXTENDS Lifecycle, MetricsUpdater

VARIABLE moves

MetadInit ==
  /\ LifecycleInit
  /\ UpdaterInit
  /\ moves \in {"process", "updater"}

ProcessMoves(A) == moves = "process" /\ A /\ UNCHANGED <<updaterVars, moves>>
UpdaterMoves(A) == moves = "updater" /\ A /\ UNCHANGED <<lifecycleVars, moves>>

MetadNext ==
  \/ ProcessMoves(LifecycleNext)
  \/ UpdaterMoves(UpdaterNext)

\* The fairness of LifecycleSpec and of UpdaterSpec.
MetadSpec ==
  /\ MetadInit
  /\ [][MetadNext]_<<lifecycleVars, updaterVars, moves>>
  /\ WF_lifecycleVars(ProcessMoves(MainStep))
  /\ \A r \in Rpc : WF_lifecycleVars(ProcessMoves(Answer(r)))
  /\ WF_updaterVars(UpdaterMoves(Updater))

=============================================================================
