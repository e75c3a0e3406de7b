------------------------------- MODULE DataPlane -------------------------------
(***************************************************************************)
(* The ProxiFyre backend driven by the rest of Core: CoreState's            *)
(* configuration transaction (mutate_config and apply_config: reload, save, *)
(* publish, or reload the previous configuration), the process watcher with *)
(* the snapshot it takes on every tick, the shutdown handler, and the Core   *)
(* process itself, which may die at any point and starts again from the     *)
(* saved configuration.  Firewall rules outlive the process; ProxiFyre,     *)
(* bound to a job object, does not.                                         *)
(***************************************************************************)
EXTENDS ProxifyreBackend

CONSTANTS
  Default,        \* the configuration first found on disk
  Disturbances    \* bound: requests, crashes, changes outside and failures

ASSUME DefaultAssumption == Default \in Configs
ASSUME DisturbancesAssumption == Disturbances \in Nat

VARIABLES
  core,       \* "down", "booting", "up", or "exiting" once stop was called
  config,     \* CoreState.config
  disk,       \* the configuration file
  tx,         \* where the configuration transaction is
  next,       \* the configuration it tries
  watch,      \* where the watcher's tick is
  snap,       \* the watcher's config_snapshot
  scan,       \* the processes it saw (as apps)
  stale,      \* history: the watcher acted on a snapshot older than what
              \* the engine had last been given
  budget      \* how many disturbances may still come

state == <<core, config, disk, tx, next>>
watcher == <<watch, snap, scan>>
dvars == <<vars, state, watcher, stale, budget>>

ASSUME ThreadNames == Threads = {"api", "watcher", "shutdown"}

CoreOK ==
  /\ core \in {"down", "booting", "up", "exiting"}
  /\ {config, disk, next, snap} \subseteq Configs
  /\ tx \in {"idle", "reload", "save", "publish", "rollback"}
  /\ watch \in {"idle", "maintain", "maintaining", "reconcile", "reconciling"}
  /\ {scan, stale} \subseteq BOOLEAN
  /\ budget \in 0..Disturbances

DTypeOK == TypeOK /\ CoreOK

DInit ==
  /\ Init
  /\ core = "down"
  /\ config = Default /\ disk = Default /\ next = Default /\ snap = Default
  /\ tx = "idle"
  /\ watch = "idle" /\ scan = FALSE
  /\ stale = FALSE
  /\ budget = Disturbances

\* a step that disturbs the system, one that does not
Disturbing == budget > 0 /\ budget' = budget - 1
Free == UNCHANGED budget

-----------------------------------------------------------------------------
(* The Core process *)

\* a new CoreState from the file, and EngineManager.start
Boot ==
  /\ core = "down"
  /\ core' = "booting"
  /\ config' = disk
  /\ Start("api", disk)
  /\ UNCHANGED <<disk, tx, next, watcher, stale, budget>>

\* started or not, the watcher and the API come up
BootDone ==
  /\ core = "booting"
  /\ core' = "up"
  /\ Return("api")
  /\ UNCHANGED <<config, disk, tx, next, watcher, stale, budget>>

\* the process is gone, with its child and its memory; a crash, or the exit
\* 150 ms after the shutdown request
ProcessGone ==
  /\ \/ core \in {"booting", "up"} /\ Disturbing
     \/ core = "exiting" /\ pc["shutdown"] = "ok" /\ Free
  /\ core' = "down"
  /\ running' = FALSE /\ desired' = FALSE
  /\ child' = "none" /\ reach' = "unknown"
  /\ lastError' = FALSE /\ restartNeeded' = FALSE
  /\ failClosed' = FALSE /\ strictReq' = FALSE /\ directOnly' = FALSE
  /\ fp' = NoPrint
  /\ lock' = NoThread
  /\ pc' = [t \in Threads |-> "idle"]
  /\ arg' = [t \in Threads |-> OffConfig]
  /\ applied' = OffConfig /\ lateApply' = FALSE /\ lostRestart' = FALSE
  /\ tx' = "idle" /\ watch' = "idle"
  /\ next' = Default /\ snap' = Default /\ config' = Default /\ scan' = FALSE
  /\ stale' = FALSE
  /\ installed' = {}
  /\ UNCHANGED <<fw, leftover, environment, disk>>

Shutdown ==
  /\ core = "up"
  /\ core' = "exiting"
  /\ StopBegin("shutdown")
  /\ Disturbing
  /\ UNCHANGED <<config, disk, tx, next, watcher, stale>>

-----------------------------------------------------------------------------
(* The configuration transaction; config_transaction allows one at a time *)

TxBegin(cfg) ==
  /\ core \in {"up", "exiting"}
  /\ tx = "idle"
  /\ cfg # config
  /\ next' = cfg
  /\ tx' = "reload"
  /\ Reload("api", cfg)
  /\ Disturbing
  /\ UNCHANGED <<core, config, disk, watcher, stale>>

\* mutant of TxReloaded: the file is saved while the engine still loads
TxReloadedEarly ==
  /\ tx = "reload"
  /\ pc["api"] # "err"
  /\ tx' = "save"
  /\ UNCHANGED <<vars, core, config, disk, next, watcher, stale, budget>>

\* reload_rules succeeded: the file is saved
TxReloaded ==
  /\ tx = "reload"
  /\ pc["api"] = "ok"
  /\ tx' = "save"
  /\ Return("api")
  /\ UNCHANGED <<core, config, disk, next, watcher, stale, budget>>

\* ... or failed: the previous configuration is loaded again
TxReloadFailed ==
  /\ tx = "reload"
  /\ pc["api"] = "err"
  /\ tx' = "rollback"
  /\ Return("api")
  /\ UNCHANGED <<core, config, disk, next, watcher, stale, budget>>

TxSaved ==
  /\ tx = "save"
  /\ disk' = next
  /\ tx' = "publish"
  /\ UNCHANGED <<vars, core, config, next, watcher, stale, budget>>

\* mutant of TxSaveFailed: the engine keeps what could not be saved
TxSaveFailedReturns ==
  /\ tx = "save"
  /\ tx' = "idle"
  /\ next' = Default
  /\ Disturbing
  /\ UNCHANGED <<vars, core, config, disk, watcher, stale>>

TxSaveFailed ==
  /\ tx = "save"
  /\ tx' = "rollback"
  /\ Disturbing
  /\ UNCHANGED <<vars, core, config, disk, next, watcher, stale>>

TxRollback ==
  /\ tx = "rollback"
  /\ Reload("api", config)
  /\ UNCHANGED <<state, watcher, stale, budget>>

\* the rollback's own failure is only reported
TxRolledBack ==
  /\ tx = "rollback"
  /\ tx' = "idle"
  /\ next' = Default
  /\ Return("api")
  /\ UNCHANGED <<core, config, disk, watcher, stale, budget>>

\* only now do readers see the new configuration
TxPublish ==
  /\ tx = "publish"
  /\ config' = next
  /\ tx' = "idle"
  /\ next' = Default
  /\ UNCHANGED <<vars, core, disk, watcher, stale, budget>>

-----------------------------------------------------------------------------
(* The process watcher: scan, snapshot, maintain, reconcile_processes *)

Tick ==
  /\ core \in {"up", "exiting"}
  /\ watch = "idle"
  /\ watch' = "maintain"
  /\ snap' = config
  /\ scan' = apps
  /\ UNCHANGED <<vars, state, stale, budget>>

\* maintain begins with a call of status
MaintainReaps ==
  /\ watch = "maintain"
  /\ child = "dead"
  /\ Status
  /\ child' = "none"
  /\ UNCHANGED <<state, watcher, stale, budget>>

MaintainCall ==
  /\ watch = "maintain"
  /\ child # "dead"
  /\ MaintainRestart("watcher", snap) \/ MaintainProbe("watcher", snap)
  /\ watch' = "maintaining"
  /\ UNCHANGED <<state, snap, scan, stale, budget>>

\* not running, disabled, nothing to do, or too early after the last attempt
MaintainIdle ==
  /\ watch = "maintain"
  /\ child # "dead"
  /\ watch' = "reconcile"
  /\ UNCHANGED <<vars, state, snap, scan, stale, budget>>

MaintainDone ==
  /\ watch = "maintaining"
  /\ Return("watcher")
  /\ watch' = "reconcile"
  /\ UNCHANGED <<state, snap, scan, stale, budget>>

ReconcileCall ==
  /\ watch = "reconcile"
  /\ ReconcileStrict("watcher", snap) \/ ReconcilePolicy("watcher", snap, scan)
  /\ IF pc'["watcher"] = "ok" THEN Free ELSE Disturbing
  /\ watch' = "reconciling"
  /\ stale' = (stale \/ snap # applied)
  /\ UNCHANGED <<state, snap, scan>>

\* the tick is over; a snapshot that is not used again is forgotten
TickDone ==
  /\ watch' = "idle"
  /\ snap' = Default
  /\ scan' = FALSE
  /\ UNCHANGED <<state, stale, budget>>

ReconcileIdle ==
  /\ watch = "reconcile"
  /\ lock = NoThread
  /\ ~RefreshDue(snap) /\ ~PolicyDue(snap, scan)
  /\ TickDone
  /\ UNCHANGED vars

ReconcileDone ==
  /\ watch = "reconciling"
  /\ Return("watcher")
  /\ TickDone

-----------------------------------------------------------------------------
(* A call goes on, the environment moves *)

\* netsh, the file system and the child's start succeed; a cleanup leaves no
\* rule that an earlier one had not left
NoFault(t) ==
  /\ leftover' \subseteq leftover
  /\ pc'[t] = "recover" => Built(arg[t]) = "error"
  /\ pc[t] = "harden" => pc'[t] = "finish"
  /\ pc[t] = "recover" /\ arg[t].strict => installed' = BlockRules(arg[t])

BackendStep(t) ==
  /\ Step(t)
  /\ IF NoFault(t) THEN Free ELSE Disturbing
  /\ stale' = (IF pc[t] # "apply" THEN stale
               ELSE t = "watcher" /\ (stale \/ arg[t] # applied))
  /\ UNCHANGED <<state, watcher>>

Observe ==
  /\ Status
  /\ IF child' = "none" THEN Free ELSE Disturbing
  /\ UNCHANGED <<state, watcher, stale>>

Disturb ==
  /\ Environment
  /\ Disturbing
  /\ UNCHANGED <<state, watcher, stale>>

Transaction ==
  \/ \E cfg \in Configs : TxBegin(cfg)
  \/ TxReloaded \/ TxReloadFailed
  \/ TxSaved \/ TxSaveFailed
  \/ TxRollback \/ TxRolledBack
  \/ TxPublish

Watcher ==
  \/ Tick
  \/ MaintainReaps \/ MaintainCall \/ MaintainIdle \/ MaintainDone
  \/ ReconcileCall \/ ReconcileIdle \/ ReconcileDone

DNext ==
  \/ Boot \/ BootDone \/ ProcessGone \/ Shutdown
  \/ Transaction
  \/ Watcher
  \/ \E t \in Threads : BackendStep(t)
  \/ Observe
  \/ Disturb

\* The threads run; the watcher's interval fires; a restart is attempted
\* again and again, its backoff being at most a minute.
Fairness ==
  /\ \A t \in Threads : WF_dvars(BackendStep(t))
  /\ WF_dvars(Tick) /\ WF_dvars(MaintainReaps) /\ WF_dvars(MaintainIdle)
  /\ SF_dvars(MaintainCall)
  /\ WF_dvars(MaintainDone) /\ WF_dvars(ReconcileCall)
  /\ WF_dvars(ReconcileIdle) /\ WF_dvars(ReconcileDone)
  /\ WF_dvars(BootDone)
  /\ WF_dvars(TxReloaded) /\ WF_dvars(TxReloadFailed)
  /\ WF_dvars(TxSaved \/ TxSaveFailed) /\ WF_dvars(TxPublish)
  /\ WF_dvars(TxRollback) /\ WF_dvars(TxRolledBack)

DSpec == DInit /\ [][DNext]_dvars
FairDSpec == DSpec /\ Fairness

-----------------------------------------------------------------------------
(* Properties *)

Quiescent ==
  /\ core = "up"
  /\ tx = "idle"
  /\ LockFree
  /\ \A t \in Threads : pc[t] = "idle"

\* a caller waits for the engine's answer before it goes on
CallersWait ==
  /\ pc["api"] # "idle" => core = "booting" \/ tx \in {"reload", "rollback"}
  /\ pc["watcher"] # "idle" => watch \in {"maintaining", "reconciling"}
  /\ pc["shutdown"] # "idle" => core = "exiting"

\* before it is up, Core has no transaction and no tick; shutdown only stops
Phases ==
  /\ core \in {"down", "booting"} => tx = "idle" /\ watch = "idle"
  /\ core = "down" => ~running
  /\ pc["shutdown"] # "apply"

\* the file holds what Core publishes
Stored == core # "down" => disk = (IF tx = "publish" THEN next ELSE config)

\* what the API thread asked the engine for, and what the engine was given
Asked == pc["api"] = "apply" => arg["api"] = (IF tx = "reload" THEN next ELSE config)

Given ==
  running /\ ~stale =>
    /\ core \in {"up", "exiting"} /\ tx = "idle" => applied = config
    /\ core = "booting" /\ pc["api"] # "apply" => applied = config
    /\ tx = "reload" /\ pc["api"] # "apply" => applied = next
    /\ tx \in {"save", "publish"} => applied = next
    /\ tx = "rollback" /\ pc["api"] \notin {"idle", "apply"} => applied = config

\* a disabled runtime has nothing, not even something to reconcile
Disabled == child = "none" /\ fw \subseteq leftover /\ ~failClosed /\ ~strictReq

\* ... once the apply that disables it is through
Pausing ==
  \A t \in Threads : pc[t] \in Locked /\ ~arg[t].enabled =>
    \/ pc[t] = "build" /\ ~failClosed /\ ~strictReq
    \/ pc[t] = "finish" /\ Disabled

Paused ==
  running /\ ~stale /\ LockFree /\ ~applied.enabled
    /\ (core = "booting" => pc["api"] # "apply") => Disabled

\* A configuration is neither saved nor published before the engine has
\* accepted it, the watcher makes one call at a time, and every step of a
\* transaction, a tick or an apply hands on what the properties below need:
\* DInv is preserved by every step.
DInv ==
  /\ DTypeOK /\ CallersWait
  /\ LockDiscipline /\ HolderApplies
  /\ Phases /\ Stored /\ Asked /\ Given
  /\ Pausing /\ Paused

\* Between transactions the engine, the file and the memory agree on the
\* configuration, whatever failed, crashed or was rolled back: unless the
\* watcher applied a snapshot older than the last transaction.
OneConfiguration ==
  Quiescent =>
    /\ disk = config
    /\ running /\ ~stale => applied = config

\* A runtime the user disabled is quiet: no child, no rule in the firewall, not
\* even one that an earlier process left.  The exception is a rule that a
\* cleanup tried to remove and could not: apply_config only logs that failure.
DisabledIsQuiet ==
  Quiescent /\ running /\ ~config.enabled /\ ~stale =>
    child = "none" /\ fw \subseteq leftover /\ ~failClosed

\* A backend whose runtime is disabled reports Paused, as the tests of the
\* status and of the API's snapshot assert.  Refuted: the watcher may apply the
\* snapshot it took before the user's request was published.
DisabledIsPaused ==
  Quiescent /\ running /\ ~config.enabled => Phase = "Paused"

\* Once up, Core can load a new configuration, whatever start-up met
\* ("keeps the engine in a reloadable state").  Refuted: rules that need a
\* proxy, saved while none is enabled, make start fail before running is set.
EngineStaysReloadable ==
  core = "up" => running

\* A due restart is carried out, and tried again until it works: in the end
\* the child lives or its endpoint is known to be down, unless the user turned
\* the runtime off or its rules lost their proxies, Core ended, ClearRestart
\* dropped the request, or the watcher applied a snapshot already replaced.
Restarted ==
  LockFree /\ ~restartNeeded /\ (child = "alive" \/ reach = "down")

RestartIsServed ==
  (core = "up" /\ running /\ restartNeeded /\ tx = "idle" /\ config.plan = "proxies")
  ~> (Restarted \/ ~config.enabled \/ config.plan # "proxies" \/ core # "up"
      \/ lostRestart \/ stale)

\* While strict protection is required, a program that appears later is
\* blocked too, during restart backoff included.
NewProgramsAreBlocked ==
  (core = "up" /\ running /\ strictReq /\ apps /\ tx = "idle"
     /\ config.enabled /\ config.plan # "none")
  ~> (<<"block", "seen">> \in fw \/ ~strictReq \/ ~apps)

\* The register that the configuration's files implement (ConfigFile).  What is
\* stored and what is served are sets of one configuration, or of none.
Register == INSTANCE ConfigRegister WITH
  Configurations <- {{cfg} : cfg \in Configs}, former <- {{cfg} : cfg \in Configs},
  Nothing <- {}, Foreign <- {}, Fallback <- {NoThread},
  stored <- {disk}, serving <- IF core = "down" THEN {} ELSE {config}

\* The transaction, its rollbacks, crashes and starts use the file as that
\* register allows: what Core publishes is what the file holds by then, a
\* start serves what is stored, and nothing but a save changes it.
KeepsRegister ==
  Register!Init /\ [][Register!Commit \/ Register!Serve \/ Register!Stop]_(Register!vars)
=============================================================================
