---------------------------- MODULE EngineSwitch ----------------------------
(***************************************************************************)
(* EngineManager (core/engine/mod.rs) with the sing-box engine             *)
(* (core/engine/sing_box.rs), driven by the configuration transaction and  *)
(* the process watcher.  The engine in place is behind a read-write lock:  *)
(* reload, maintain and status share it, switch_mode has it alone.  The    *)
(* sing-box engine has no lock of its own, so the watcher's maintain and   *)
(* the transaction's reload interleave.  ProxiFyre is here only what the   *)
(* manager sees of it, calls that succeed or fail; ProxifyreBackend is the *)
(* detailed model.                                                         *)
(***************************************************************************)
EXTENDS Integers, FiniteSets

CONSTANTS
  Configs,     \* [mode, enabled, plan]; plan is "routes" or "none"
  Default,     \* the configuration found on disk
  Nobody,      \* no process
  NoSnap,      \* no configuration
  MaxFaults    \* refused calls, exits of the child and crashes

ASSUME EngineAssumption ==
  /\ Configs \subseteq [mode : {"proxifyre", "sing_box"}, enabled : BOOLEAN,
                        plan : {"routes", "none"}]
  /\ Default \in Configs
  /\ MaxFaults \in Nat

Callers == {"api", "watcher"}

ASSUME NobodyAssumption == Nobody \notin Callers

VARIABLES
  engine,    \* the engine in place: mode and running; desired_enabled and
             \* last_error of a sing-box one
  startup,   \* EngineManager::startup_error is set
  proc,      \* the sing-box process a caller spawned last
  made,      \* the configuration it was made from
  handle,    \* SingBoxEngine::child, named by who spawned it
  job,       \* SingBoxEngine::job, the guard that kills what it is bound to
  runtime,   \* what sing-box.json, with its credentials, was made from, or NoSnap
  pc, arg,   \* where a caller's apply is, and its configuration
  config, disk,
  tx,        \* the configuration transaction: at, next
  old,       \* the engine mode a switch came from
  snap,      \* the watcher's configuration, NoSnap between ticks
  stale,     \* the watcher's apply overlapped or followed a transaction (history)
  stuck,     \* a rollback has failed (history)
  faults

engineVars == <<engine, proc, made, handle, job, runtime>>
vars == <<engine, startup, proc, made, handle, job, runtime, pc, arg, config, disk,
          tx, old, snap, stale, stuck, faults>>

NewEngine(mode) == [mode |-> mode, running |-> FALSE, desired |-> FALSE, error |-> FALSE]
NoTx == [at |-> "idle", next |-> Default]

Init ==
  /\ engine = NewEngine(Default.mode)
  /\ startup = FALSE
  /\ proc = [t \in Callers |-> "none"] /\ made = [t \in Callers |-> Default]
  /\ handle = Nobody /\ job = Nobody
  /\ runtime \in {NoSnap, Default}
  /\ pc = [t \in Callers |-> "idle"] /\ arg = [t \in Callers |-> Default]
  /\ config = Default /\ disk = Default
  /\ tx = [at |-> "boot", next |-> Default]
  /\ old = Default.mode
  /\ snap = NoSnap
  /\ stale = FALSE /\ stuck = FALSE
  /\ faults = 0

Fault == faults < MaxFaults /\ faults' = faults + 1
NoFault == UNCHANGED faults

\* switch_mode has the write lock from the stop of the old engine on.
Writing == tx.at \in {"switch", "restart", "switchback"}
SingBox == engine.mode = "sing_box"

\* Killing the child whose handle or job guard is given up.
Killed(which) == [t \in Callers |-> IF t \in which /\ proc[t] = "alive" THEN "dead" ELSE proc[t]]

Goto(t, label) == pc' = [pc EXCEPT ![t] = label]

----------------------------------------------------------------------------
(* SingBoxEngine::apply.                                                    *)

\* stop_child and cleanup_runtime_config.
StopChild ==
  /\ proc' = Killed({handle, job})
  /\ handle' = Nobody /\ job' = Nobody
  /\ runtime' = NoSnap
  /\ UNCHANGED made

\* In an apply they may be apart: the child is ended first,
Begin(t) ==
  /\ pc[t] = "begin" /\ SingBox
  /\ engine' = [engine EXCEPT !.desired = arg[t].enabled]
  /\ proc' = Killed({handle}) /\ handle' = Nobody
  /\ Goto(t, "clean")
  /\ NoFault
  /\ UNCHANGED <<made, job, runtime>>

\* and then the job object is given up and the file removed.
Clean(t) ==
  /\ pc[t] = "clean"
  /\ proc' = Killed({job}) /\ job' = Nobody
  /\ runtime' = NoSnap
  /\ engine' = [engine EXCEPT !.error = FALSE]
  /\ Goto(t, IF arg[t].enabled THEN "prepare" ELSE "ok")
  /\ NoFault
  /\ UNCHANGED <<made, handle>>

\* The executable, the plan, the subnet, the file and sing-box's own check.
Prepare(t) ==
  /\ pc[t] = "prepare"
  /\ \/ /\ arg[t].plan = "routes"
        /\ runtime' = arg[t]
        /\ Goto(t, "spawn")
        /\ NoFault /\ UNCHANGED engine
     \/ /\ arg[t].plan = "none"
        /\ engine' = [engine EXCEPT !.error = TRUE]
        /\ Goto(t, "err")
        /\ NoFault /\ UNCHANGED runtime
     \/ /\ Fault
        /\ \E told \in BOOLEAN : engine' = [engine EXCEPT !.error = @ \/ told]
        /\ runtime' = NoSnap
        /\ Goto(t, "err")
  /\ UNCHANGED <<proc, made, handle, job>>

\* The child runs what the file holds by now; without one it exits at once.
Spawn(t) ==
  /\ pc[t] = "spawn"
  /\ \/ /\ proc' = [proc EXCEPT ![t] = IF runtime = NoSnap THEN "dead" ELSE "alive"]
        /\ made' = [made EXCEPT ![t] = IF runtime = NoSnap THEN arg[t] ELSE runtime]
        /\ Goto(t, "ready")
        /\ NoFault /\ UNCHANGED runtime
     \/ /\ Fault
        /\ runtime' = NoSnap
        /\ Goto(t, "err")
        /\ UNCHANGED <<proc, made>>
  /\ UNCHANGED <<engine, handle, job>>

\* wait_for_process_ready: an exit within the window is an error.
Ready(t) ==
  /\ pc[t] = "ready"
  /\ \/ proc[t] = "alive" /\ Goto(t, "store") /\ UNCHANGED <<proc, runtime>>
     \/ /\ proc[t] = "dead" /\ Goto(t, "err")
        /\ proc' = [proc EXCEPT ![t] = "none"] /\ runtime' = NoSnap
  /\ NoFault
  /\ UNCHANGED <<engine, made, handle, job>>

\* The handle of another caller's child is dropped, which does not end it.
Store(t) ==
  /\ pc[t] = "store"
  /\ handle' = t
  /\ Goto(t, "bind")
  /\ NoFault
  /\ UNCHANGED <<engine, proc, made, job, runtime>>

\* ... mutant whose job object does not kill what it held.
BindLeaking(t) ==
  /\ pc[t] = "bind"
  /\ job' = t
  /\ Goto(t, "ok")
  /\ NoFault
  /\ UNCHANGED <<engine, proc, made, handle, runtime>>

\* The job guard of another caller's child is dropped, which ends it.
Bind(t) ==
  /\ pc[t] = "bind"
  /\ proc' = Killed({job} \ {t})
  /\ job' = t
  /\ Goto(t, "ok")
  /\ NoFault
  /\ UNCHANGED <<engine, made, handle, runtime>>

\* A call of ProxiFyre succeeds or fails; a start whose rules need a proxy
\* that none provides fails before the engine runs.
Starting(t) == t = "api" /\ tx.at \in {"boot", "switch", "restart", "switchback"}

ProxifyreCall(t) ==
  /\ pc[t] = "begin" /\ ~SingBox
  /\ \/ Goto(t, "ok") /\ NoFault /\ UNCHANGED engine
     \/ Goto(t, "err") /\ Fault /\ UNCHANGED engine
     \/ /\ Starting(t) /\ Goto(t, "err") /\ Fault
        /\ engine' = [engine EXCEPT !.running = FALSE]
  /\ UNCHANGED <<proc, made, handle, job, runtime>>

Apply(t) ==
  /\ \/ Begin(t) \/ Clean(t) \/ Prepare(t) \/ Spawn(t) \/ Ready(t) \/ Store(t) \/ Bind(t)
     \/ ProxifyreCall(t)
  /\ UNCHANGED <<startup, arg, config, disk, tx, old, snap, stale, stuck>>

\* status reaps a child that has exited; its job guard goes with it.
Reaped ==
  IF handle # Nobody /\ proc[handle] = "dead"
  THEN /\ proc' = [Killed({job}) EXCEPT ![handle] = "none"]
       /\ handle' = Nobody /\ job' = Nobody
       /\ engine' = [engine EXCEPT !.error = TRUE]
       /\ UNCHANGED <<made, runtime>>
  ELSE UNCHANGED engineVars

Status ==
  /\ ~Writing /\ tx.at # "boot"
  /\ handle # Nobody /\ proc[handle] = "dead"
  /\ Reaped
  /\ UNCHANGED <<startup, pc, arg, config, disk, tx, old, snap, stale, stuck, faults>>

----------------------------------------------------------------------------
(* The configuration transaction: apply_config, reload_rules, switch_mode.   *)

Call(t, cfg) == Goto(t, "begin") /\ arg' = [arg EXCEPT ![t] = cfg]
Return(t) == Goto(t, "idle") /\ arg' = [arg EXCEPT ![t] = Default]

\* EngineManager::start when Core comes up.
Boot ==
  /\ tx.at = "boot" /\ pc["api"] = "idle"
  /\ engine' = [engine EXCEPT !.running = TRUE]
  /\ Call("api", config)
  /\ UNCHANGED <<startup, proc, made, handle, job, runtime, config, disk, tx, old, snap,
                 stale, stuck, faults>>

Booted ==
  /\ tx.at = "boot" /\ pc["api"] \in {"ok", "err"}
  /\ startup' = (pc["api"] = "err")
  /\ tx' = NoTx /\ Return("api")
  /\ UNCHANGED <<engineVars, config, disk, old, snap, stale, stuck, faults>>

\* reload_rules, refused when the engine is not running.
CallReload(cfg) ==
  /\ IF engine.running THEN Call("api", cfg)
                       ELSE Goto("api", "err") /\ arg' = [arg EXCEPT !["api"] = cfg]
  /\ stale' = (pc["watcher"] # "idle")
  /\ UNCHANGED engineVars

\* ... mutant of Exclusive: the engine is switched under the readers' lock.
Shared == TRUE

\* The write lock is free once nobody is in a call.
Exclusive == pc["watcher"] = "idle"

\* switch_mode: the old engine is stopped, a new one started.
CallSwitch(cfg) ==
  /\ Exclusive
  /\ engine' = [NewEngine(cfg.mode) EXCEPT !.running = TRUE]
  /\ IF SingBox THEN StopChild ELSE UNCHANGED <<proc, made, handle, job, runtime>>
  /\ old' = engine.mode
  /\ Call("api", cfg)
  /\ stale' = FALSE

Submit(cfg) ==
  /\ tx.at = "idle" /\ cfg # config
  /\ \/ /\ cfg.mode = config.mode
        /\ tx' = [at |-> "reload", next |-> cfg]
        /\ CallReload(cfg) /\ UNCHANGED old
     \/ /\ cfg.mode # config.mode /\ engine.mode # cfg.mode
        /\ tx' = [at |-> "switch", next |-> cfg]
        /\ CallSwitch(cfg)
     \* the engine in place is already of that mode: nothing is done
     \/ /\ cfg.mode # config.mode /\ engine.mode = cfg.mode
        /\ tx' = [at |-> "save", next |-> cfg]
        /\ UNCHANGED <<engineVars, pc, arg, old, stale>>
  /\ UNCHANGED <<startup, config, disk, snap, stuck, faults>>

\* The engine runs the new configuration; it is saved next.
Accepted ==
  /\ tx.at \in {"reload", "switch"} /\ pc["api"] = "ok"
  /\ startup' = FALSE
  /\ tx' = [tx EXCEPT !.at = "save"]
  /\ Return("api")
  /\ UNCHANGED <<engineVars, config, disk, old, snap, stale, stuck, faults>>

\* ... mutant of ReloadRefused that does not load the previous configuration.
ReloadRefusedOnly ==
  /\ tx.at = "reload" /\ pc["api"] = "err"
  /\ startup' = TRUE
  /\ tx' = NoTx
  /\ Return("api")
  /\ UNCHANGED <<engineVars, config, disk, old, snap, stale, stuck, faults>>

\* The reload failed: the previous configuration is loaded again.
ReloadRefused ==
  /\ tx.at = "reload" /\ pc["api"] = "err"
  /\ startup' = TRUE
  /\ tx' = [tx EXCEPT !.at = "rollback"]
  /\ CallReload(config)
  /\ UNCHANGED <<config, disk, old, snap, stuck, faults>>

\* The new engine did not start: the old one is started again with the
\* configuration it had.  Nothing else is rolled back.
SwitchRefused ==
  /\ tx.at = "switch" /\ pc["api"] = "err"
  /\ engine' = [NewEngine(old) EXCEPT !.running = TRUE]
  /\ tx' = [tx EXCEPT !.at = "restart"]
  /\ Call("api", config)
  /\ UNCHANGED <<startup, proc, made, handle, job, runtime, config, disk, old, snap,
                 stale, stuck, faults>>

\* Saved and published.
Save ==
  /\ tx.at = "save"
  /\ disk' = tx.next /\ config' = tx.next
  /\ tx' = NoTx
  /\ UNCHANGED <<engineVars, startup, pc, arg, old, snap, stale, stuck, faults>>

\* The file cannot be written: the previous configuration is loaded, or the
\* previous engine switched back to.
SaveRefused ==
  /\ tx.at = "save" /\ Fault
  /\ \/ /\ tx.next.mode = config.mode
        /\ tx' = [tx EXCEPT !.at = "rollback"]
        /\ CallReload(config) /\ UNCHANGED old
     \/ /\ tx.next.mode # config.mode /\ engine.mode # config.mode
        /\ tx' = [tx EXCEPT !.at = "switchback"]
        /\ CallSwitch(config)
     \/ /\ tx.next.mode # config.mode /\ engine.mode = config.mode
        /\ tx' = NoTx
        /\ UNCHANGED <<engineVars, pc, arg, old, stale>>
  /\ UNCHANGED <<startup, config, disk, snap, stuck>>

\* The switch back failed: the new engine is started again.
SwitchBackRefused ==
  /\ tx.at = "switchback" /\ pc["api"] = "err"
  /\ engine' = [NewEngine(old) EXCEPT !.running = TRUE]
  /\ tx' = [tx EXCEPT !.at = "restart"]
  /\ Call("api", tx.next)
  /\ stuck' = TRUE
  /\ UNCHANGED <<startup, proc, made, handle, job, runtime, config, disk, old, snap,
                 stale, faults>>

\* A rollback ends, well or not; the request is refused either way.
RolledBack ==
  /\ \/ tx.at \in {"rollback", "restart"} /\ pc["api"] \in {"ok", "err"}
     \/ tx.at = "switchback" /\ pc["api"] = "ok"
  /\ startup' = (pc["api"] = "err" \/ tx.at = "restart")
  /\ stuck' = (stuck \/ pc["api"] = "err")
  /\ tx' = NoTx
  /\ Return("api")
  /\ UNCHANGED <<engineVars, config, disk, old, snap, stale, faults>>

----------------------------------------------------------------------------
(* The watcher: a snapshot of the configuration, maintain, reconcile.        *)

Tick ==
  /\ tx.at # "boot" /\ snap = NoSnap
  /\ snap' = config
  /\ UNCHANGED <<engineVars, startup, pc, arg, config, disk, tx, old, stale, stuck, faults>>

\* ... mutant that leaves an engine alone that has reported an error.
MaintainUnlessFailed ==
  /\ snap # NoSnap /\ pc["watcher"] = "idle" /\ ~Writing
  /\ SingBox /\ engine.running /\ snap.enabled
  /\ Reaped
  /\ IF handle' = Nobody /\ ~engine'.error
     THEN /\ Call("watcher", snap)
          /\ stale' = (stale \/ snap # config \/ tx.at # "idle")
          /\ UNCHANGED snap
     ELSE snap' = NoSnap /\ UNCHANGED <<pc, arg, stale>>
  /\ UNCHANGED <<startup, config, disk, tx, old, stuck, faults>>

\* maintain of sing-box: no child, while one is wanted, is an apply.
Maintain ==
  /\ snap # NoSnap /\ pc["watcher"] = "idle" /\ ~Writing
  /\ SingBox /\ engine.running /\ snap.enabled
  /\ Reaped
  /\ IF handle' = Nobody
     THEN /\ Call("watcher", snap)
          /\ stale' = (stale \/ snap # config \/ tx.at # "idle")
          /\ UNCHANGED snap
     ELSE snap' = NoSnap /\ UNCHANGED <<pc, arg, stale>>
  /\ UNCHANGED <<startup, config, disk, tx, old, stuck, faults>>

\* Nothing to maintain; a ProxiFyre engine recovers, fails, or is as it was,
\* and its reconciliation of processes may fail.
MaintainOther ==
  /\ snap # NoSnap /\ pc["watcher"] = "idle" /\ ~Writing
  /\ \/ SingBox /\ ~(engine.running /\ snap.enabled) /\ NoFault /\ UNCHANGED startup
     \/ ~SingBox /\ startup' \in {startup, FALSE} /\ NoFault
     \/ ~SingBox /\ startup' = TRUE /\ Fault
  /\ snap' = NoSnap
  /\ UNCHANGED <<engineVars, pc, arg, config, disk, tx, old, stale, stuck>>

Maintained ==
  /\ pc["watcher"] \in {"ok", "err"}
  /\ startup' = (pc["watcher"] = "err")
  /\ snap' = NoSnap
  /\ Return("watcher")
  /\ UNCHANGED <<engineVars, config, disk, tx, old, stale, stuck, faults>>

----------------------------------------------------------------------------
ChildExits ==
  /\ Fault
  /\ \E t \in Callers : proc[t] = "alive" /\ proc' = [proc EXCEPT ![t] = "dead"]
  /\ UNCHANGED <<engine, startup, made, handle, job, runtime, pc, arg, config, disk, tx,
                 old, snap, stale, stuck>>

\* Core dies: the job objects end its children, sing-box.json stays.
Crash ==
  /\ Fault
  /\ engine' = NewEngine(disk.mode) /\ startup' = FALSE
  /\ proc' = [t \in Callers |-> "none"] /\ made' = [t \in Callers |-> Default]
  /\ handle' = Nobody /\ job' = Nobody
  /\ pc' = [t \in Callers |-> "idle"] /\ arg' = [t \in Callers |-> Default]
  /\ config' = disk /\ tx' = [at |-> "boot", next |-> Default] /\ old' = disk.mode
  /\ snap' = NoSnap /\ stale' = FALSE /\ stuck' = FALSE
  /\ UNCHANGED <<runtime, disk>>

Next ==
  \/ \E t \in Callers : Apply(t)
  \/ Status
  \/ Boot \/ Booted
  \/ \E cfg \in Configs : Submit(cfg)
  \/ Accepted \/ ReloadRefused \/ SwitchRefused
  \/ Save \/ SaveRefused \/ SwitchBackRefused \/ RolledBack
  \/ Tick \/ Maintain \/ MaintainOther \/ Maintained
  \/ ChildExits \/ Crash

Spec == Init /\ [][Next]_vars

\* Callers go on, the watcher's interval fires, a transaction comes to its end.
Fairness ==
  /\ \A t \in Callers : WF_vars(Apply(t))
  /\ WF_vars(Boot) /\ WF_vars(Booted)
  /\ WF_vars(Accepted) /\ WF_vars(ReloadRefused) /\ WF_vars(SwitchRefused)
  /\ WF_vars(Save \/ SaveRefused) /\ WF_vars(SwitchBackRefused) /\ WF_vars(RolledBack)
  /\ WF_vars(Tick) /\ SF_vars(Maintain) /\ SF_vars(MaintainOther) /\ WF_vars(Maintained)

FairSpec == Spec /\ Fairness

----------------------------------------------------------------------------
(* Properties.                                                              *)

\* The configuration that the transaction is about.
Aim == IF tx.at \in {"reload", "switch", "save"} THEN tx.next ELSE config

\* sing-box is as cfg asks: a child was made from it, a disabled one is gone.
Fits(cfg) ==
  /\ engine.desired = cfg.enabled
  /\ \A t \in Callers : proc[t] = "alive" => made[t] = cfg
  /\ ~cfg.enabled => runtime = NoSnap /\ \A t \in Callers : proc[t] # "alive"

\* once Core is up a sing-box engine runs, and a save stores what it publishes
Going ==
  /\ disk = config
  /\ SingBox => engine.running \/ (tx.at = "boot" /\ pc["api"] = "idle")

\* a watcher that is not stale applies the configuration, and alone
Alone == ~stuck /\ ~stale /\ pc["watcher"] # "idle" => tx.at = "idle" /\ arg["watcher"] = config

\* the engine in place is of the mode that the transaction is about
Aimed ==
  ~stuck => /\ engine.mode = Aim.mode
            /\ pc["api"] # "idle" => arg["api"] = Aim
            /\ tx.at = "reload" => tx.next.mode = config.mode
            /\ tx.at = "switch" => old = config.mode

\* how far sing-box's apply is, and what it leaves
Stage(t) ==
  /\ engine.desired = arg[t].enabled
  /\ pc[t] # "clean" => Fits(arg[t])
  /\ pc[t] \in {"prepare", "spawn", "ready", "store", "bind"} => arg[t].enabled
  /\ pc[t] \in {"prepare", "spawn"} => \A u \in Callers : proc[u] # "alive"
  /\ pc[t] = "spawn" => runtime = arg[t]

Applying ==
  \A t \in Callers : ~stuck /\ ~stale /\ SingBox /\ pc[t] \notin {"idle", "begin"} => Stage(t)

Quiet == tx.at = "idle" /\ \A t \in Callers : pc[t] = "idle"

\* nobody applies: sing-box is as the transaction is about to say, or has said
Resting ==
  ~stuck /\ ~stale /\ SingBox /\ tx.at \in {"idle", "save"} /\ (\A t \in Callers : pc[t] = "idle")
    => Fits(Aim)

\* Types; a call is in progress exactly while its caller waits for it, while
\* an engine is switched nobody else is inside one, and every apply of the
\* transaction, its rollback and the watcher leaves what it was given.
EInv ==
  /\ {config, disk, tx.next} \subseteq Configs
  /\ engine.mode \in {"proxifyre", "sing_box"}
  /\ \A t \in Callers : proc[t] \in {"none", "alive", "dead"}
  /\ {handle, job} \subseteq Callers \cup {Nobody}
  /\ pc["api"] # "idle" => tx.at \notin {"idle", "save"}
  /\ pc["watcher"] # "idle" => snap # NoSnap
  /\ Writing => pc["watcher"] = "idle"
  /\ faults \in 0..MaxFaults
  /\ Going /\ Alone /\ Aimed /\ Applying /\ Resting

\* Whatever overlaps, no sing-box process escapes: outside of a spawn it is
\* the engine's child or bound to the engine's job object, and an engine
\* that was switched away leaves none.
NoStrayChild ==
  /\ \A t \in Callers :
       proc[t] = "alive" => \/ pc[t] \in {"ready", "store", "bind"} \/ t \in {handle, job}
  /\ engine.mode = "proxifyre" /\ Quiet => \A t \in Callers : proc[t] # "alive"

\* Between transactions the engine in place is the configured one, memory
\* and file agree, and what sing-box runs was made from the configuration:
\* after refusals, rollbacks, switches and crashes.  A disabled runtime
\* runs nothing.  Excepted are a failed rollback and a stale watcher.
EngineServesConfig ==
  Quiet /\ ~stuck =>
    /\ engine.mode = config.mode /\ disk = config
    /\ SingBox /\ ~stale =>
         /\ engine.desired = config.enabled
         /\ \A t \in Callers : proc[t] = "alive" => made[t] = config
         /\ ~config.enabled => runtime = NoSnap /\ \A t \in Callers : proc[t] # "alive"

\* An enabled sing-box engine whose child has gone gets a new one, by itself.
Wanted == tx.at = "idle" /\ SingBox /\ config.mode = "sing_box" /\ config.enabled
          /\ config.plan = "routes"
Served == \E t \in Callers : proc[t] = "alive"
EngineRecovers == Wanted /\ ~Served ~> Served \/ ~Wanted
=============================================================================
