# ProxyDuck: TLA+ models

These modules model the control logic of ProxyDuck (`src/`): the Rust Core that
compiles per-application proxy rules, drives a data plane (a ProxiFyre or
sing-box child process plus Windows firewall block rules), supervises it, and
keeps its configuration and its secrets consistent. All paths below are under
`src/`; `core/` abbreviates `smartflow-core/src/`.

## 1. Inventory

| component | state | operations | interacts with |
|---|---|---|---|
| Firewall reconciliation (`core/engine/proxifyre.rs` 700-990, 1186-1271, 1365-1407) | rules installed in Windows (OS), `installed_firewall_specs` | apply_firewall_delta, remove_firewall_rules, crash | backend, `netsh`/PowerShell (external) |
| ProxiFyre backend (`core/engine/proxifyre.rs`) | running, desired_enabled, child+job, runtime config file and marker, last_error, restart_needed/failures, proxy_reachable, fail_closed_active, strict_fail_closed_required, direct_only_active, fingerprint | start, stop, reload (apply_config), status, maintain, reconcile_processes | watcher thread, API threads, firewall |
| sing-box engine (`core/engine/sing_box.rs`) | running, desired_enabled, child, runtime config, last_error | start/stop/reload/status/maintain | EngineManager |
| EngineManager (`core/engine/mod.rs`) | active engine (RwLock), startup_error | start, stop, reload_rules, status, maintain, reconcile, switch_mode | CoreState |
| Config transaction (`core/state.rs` 384-547) | config in memory, config on disk, last_transition_at, health map | mutate_config, try_mutate_config, replace_imported_config, apply_config and its rollbacks | EngineManager, config file, SecretStore |
| Config file (`core/config.rs`) | config.json5, .bak, .tmp | load_or_init, save, atomic_write, migrate | crash/restart |
| Secrets (`core/state.rs` 225-277, 569-616; `core/config.rs` 92-147; `core/api/mod.rs` 3118-3320) | SecretStore map, password_ref/password in config | create/update/delete proxy, import, cleanup and restore after a failed update | config transaction |
| Process watcher (`core/watcher.rs`) | observed_matches, observed_processes | 2 s tick: scan, maintain, reconcile, record matches | backend, CoreState |
| Health supervisor (`core/health.rs`) | proxy_health map | 15 s tick: mark_checking, probe tasks, record_probe, stabilized_state | config transaction (reset_changed_proxy_health) |
| Core lifecycle (`core/lib.rs`, `core/api/mod.rs` 70-88, 3478-3493) | process up/down, recovery flag | bootstrap, shutdown by API, by signal | everything |
| API (`core/api/mod.rs`) | none of its own | ~70 handlers: rules, profiles, quick bar, templates, proxies, import | CoreState |
| IPC (`core/ipc.rs`, `proxyduck-common/src/ipc.rs`) | pipe instances, frames, deadlines | accept, authorise, dispatch, reply | API router |
| Windows service (`proxyduck-service/src/main.rs`) | SCM state, readiness, stop channel | install, start, stop, run_service | Core |
| Routing plan and rule matching (`core/routing_plan.rs`, `core/process.rs`, `core/policy/`, `core/validation.rs`) | pure | compile, match, simulate, analyse | backend, watcher, API |
| Network repair (`core/network/repair.rs`, `snapshot.rs`) | registered plans, snapshots | build plan, execute once, snapshot, rollback | API, OS |
| Endpoint groups, discovery (`core/endpoint/`) | group member choice | select | API |
| Config studio (`core/config_studio/`) | foreign config files, fingerprint | inspect, patch, save | API |
| Timeline, observability (`core/timeline/`, `core/observability/`) | bounded ring, connection view | record, query | API |
| CLI (`smartflow-cli/`), desktop UI (`smartflow-ui/`), updater, installer, scripts | client state | calls the API | Core |

## 2. What is hard, and what makes each part correct

ProxyDuck is small in state and rich in interleavings. Several threads call one
backend object whose operations hold `firewall_transaction_lock` only for part
of their work; every firewall rule is a separate `netsh` process that may fail;
rules outlive Core while the record of them, the child process and all flags do
not; the watcher works with a snapshot it took earlier; a configuration change
touches engine, file, memory and secret files, each of which can refuse. The
hazards are listed one by one, at their lines, in `PROJECT.json`.

| component | correct means |
|---|---|
| Firewall reconciliation | the old or the new rule set is in force between any two `netsh` calls; a rule in both never disappears; no rule is forgotten; `Ok` means installed (refuted) |
| ProxiFyre backend | strict protection is never abandoned (refuted in one race); reported states are true; no block without an owner; `stop` leaves nothing (the last three but for rules a failed cleanup left); the cached fingerprint is honest |
| Data plane | engine, file and memory agree after any failure or crash; a disabled runtime is quiet (refuted for the watcher's stale snapshot); Core stays reloadable (refuted for one start-up failure); due restarts and new programs are served |
| Secrets | a committed credential is never lost to another request's cleanup or rollback; nothing is left behind; a restart reads the same credentials |
| Engine manager, sing-box | no sing-box process escapes whatever overlaps; between transactions the configured engine is in place and runs the configuration, after refused switches, rollbacks and crashes; a child that ended is replaced |
| Health supervisor | one tick after the last change every entry is a result of the endpoint now configured; no single probe flips a state |
| Configuration file | two files behave as one register through crashes, refusals and damage; what is served is in the file, and a restart reads the same but for child inheritance of disabled rules; passwords of legacy files end up in neither; migrations move no traffic |
| Service, IPC, desktop | the pipe listens again whatever clients do; the window finds a core again; a damaged configuration can be repaired over the pipe (refuted) |
| Routing plan, matching, policy edits | plan, generated rules, evaluation and analysis agree where they claim to (with the exceptions of section 6); a rule the quick launch bar or a template manages matches its owner, as long as no whole configuration brings one that does not |
| Repair and snapshots | the proxies repairs take from the user can be got back (WinHTTP's bypass list cannot); a rollback that reports success has restored its recovery point |

## 3. Modules

    FirewallRules            one apply_firewall_delta, netsh call by netsh call
    FirewallRulesProofs
    ProxifyreBackend         the backend object, any number of threads
    ProxifyreBackendProofs
    DataPlane                EXTENDS ProxifyreBackend: Core around the backend
    DataPlaneProofs          EXTENDS ProxifyreBackendProofs too
    ProxySecrets             the SecretStore and the transactions that use it
    ProxySecretsProofs
    EngineSwitch             EngineManager and the sing-box engine
    ProxyHealth              the health supervisor and its probes
    ControlProofs            of EngineSwitch and of ProxyHealth
    PipeIpc                  the named pipe, server and clients
    ServiceHost              the Windows service and its installer
    Desktop                  EXTENDS ServiceHost: the window's choice of a core
    ConfigDocument           a configuration as a value: migrations, validation
    ConfigFile               EXTENDS ConfigDocument: its files, call by call
    ConfigRegister           what ConfigFile implements
    ConfigFileProofs         its invariant and the refinement
    RoutingPlan              pure: plan, matching, generated rules, analysis
    RulePolicy               EXTENDS RoutingPlan: the API's edits
    RulePolicyProofs
    NetworkDiagnosis         pure: observations, issues, recommended actions
    NetworkRepair            EXTENDS NetworkDiagnosis: plans, repairs, rollbacks
    HostProofs               of NetworkRepair, of Desktop and of PipeIpc
    MCControl                EngineSwitch + ProxyHealth + PipeIpc + Desktop
    MCWindows                FirewallRules + NetworkRepair
    MCDocuments              ConfigFile + RulePolicy
    MC*.tla, *.cfg           instances for TLC

Definitions written as `... mutant ...` in a comment are altered copies of an
operation that show a property is sensitive to it; `Next` never uses them.

**FirewallRules** (`core/engine/proxifyre.rs` 796-833, 926-990, 1186-1271,
1388-1407). `os` is what Windows has, `installed` is
`installed_firewall_specs`, `changed`, `applied` and `stale` are the local
lists of `apply_firewall_delta`. One step is one `netsh` call, so a crash or a
refusal comes between any two; that the many steps have the effect of one is
`AllOrNothing`. Rule names are hashes of their contents
(external); rule and name are one value. `RollbackRule` ignores its result, as
the code does. `lacking` and `leaking` are history variables that say which
promise an environment's refusal has taken away.

**ProxifyreBackend** (same file, 38-359, 477-535, 700-937). A thread is at a
point `pc[t]`; a step is what happens between two points where another thread,
the child or the network could be noticed. `apply_config` is `ApplyBegin`,
`Build*`, `SpawnChild`, `Probe*`, `Harden*`, `FailClosed`, `Recover`, `Finish`,
`ClearRestart`; `Finish` and `ClearRestart` are two because the child's mutex is
released between them. `Status` takes no transaction lock and may run anywhere.
A configuration is reduced to what `apply_config` distinguishes (`ConfigType`).
A reconciliation of the rules (`Reconciled`) is one step here: it installs the
wanted set or, its additions rolled back, changes nothing, and its deletions
succeed (`FirewallRulesProofs!ReconciliationIsAllOrNothing` proves it so);
refused deletions of a reconciliation are the business of FirewallRules. A
cleanup (`Cleaned`, remove_firewall_rules) empties the record `installed` in any
case and may leave any of the rules in Windows, since the code only logs the
failure: the history variable `leftover` holds those, `Accounted` says that the
firewall is the record and the leftovers, and a reconciliation or a later cleanup
takes leftovers up again by name. The properties about blocks, reports, `stop`
and a disabled runtime except leftovers and say so. Rules left by an earlier
process are the business of DataPlane. The runtime configuration file and its
marker are left out.

**DataPlane** (`core/state.rs` 384-497, `core/watcher.rs`, `core/lib.rs`,
`core/engine/mod.rs` 77-156) runs that backend under its three callers: the
transaction (`Tx*`: reload, save, publish, or roll back), the watcher (`Tick`
takes the snapshot, `Maintain*` and `Reconcile*` use it) and the shutdown
handler, with `ProcessGone` (a crash or the exit after a shutdown: firewall
rules stay, the job object ends the child) and `Boot`. A call that
fails, a cleanup that leaves something new included, uses up a disturbance
(`NoFault`). `stale` records that
the watcher applied a snapshot older than what the engine was last given.
`KeepsRegister` at its end states how it uses the configuration file: as the
register that `ConfigFile` implements.

**ProxySecrets** (`core/state.rs` 216-277, 384-497, 569-616; `core/config.rs`
16-65, 95-147; `core/api/mod.rs` 1276-1300, 3022-3074, 3118-3320, 3565-3621;
`proxyduck-common/src/lib.rs` 52-162). A request passes through `look` (what it
reads before the lock), `put` and `apply` and `sweep` (under the transaction
lock), then `undo` or `tidy` (its second transaction). `store` is the directory
of secret files, indexed by the identifier a reference is derived from. Refused
store calls, torn files and crashes are steps; `spoiled` and `leaked` record
which references an earlier refusal or crash put in doubt, so that properties
speak about all the others. Abstracted: encryption, hardening of paths,
collisions of the 64-bit reference hash, what a proxy has besides its password,
and the engine, whose acceptance is a choice (`Commit` or `Reject`). The
candidate of `PUT /config` is any document whose references are absent or its
own (`Documents`), and with `Renames` one that moves a proxy to another
identifier.

**EngineSwitch** (`core/engine/mod.rs` 77-214, 287-294, `core/engine/sing_box.rs`
32-421, `core/engine/job.rs`, `core/state.rs` 442-497, `core/watcher.rs` 24-72).
The engine behind the read-write lock is `engine`; `proc`, `handle`, `job` and
`runtime` are the sing-box processes, the engine's child, its job guard and what
the generated file with credentials holds. `apply` is `Begin`, `Clean`, `Prepare`,
`Spawn`, `Ready`, `Store`, `Bind`, for two callers at once, so that one may run the
file the other wrote or removed: the sing-box engine has no lock, only
`switch_mode` (the steps between `Writing`) excludes the watcher. The
transaction is `Submit` to `Save`, with `ReloadRefused`, `SwitchRefused`,
`SaveRefused`, `SwitchBackRefused` for its rollbacks. ProxiFyre is only what the
manager sees of it: calls that succeed or fail, a refused start that may leave
it not running (finding 4), and no process of its own in `proc`; what it reports
of itself is ProxifyreBackend's. `startup` is `startup_error`.

**ProxyHealth** (`core/health.rs`, `core/proxy_test.rs`, `core/state.rs`
384-395, 488-546). A tick is `TickRead` (the snapshot), `TickStart` (mark_checking
and the probes), a `Record` per probe in any order, `TickEnd`; a transaction
resets (`Reset`) before it publishes (`Publish`), as the code does. `Candidate` is
what the SOCKS5 probe finds on a server that is down, mute, open, locked or
without UDP; `of` in an entry is the profile it was found for (history).

**PipeIpc** (`core/ipc.rs`, `proxyduck-common/src/ipc.rs`). The listener creates
an instance, waits for a client, hands it over and creates the next one; a
handler identifies the client, reads a length and a payload, decides
(`Verdict`), calls the router and writes, each read and write with a deadline.
Clients may stop at any point and never come back. `Refused` and `Routed` divide
the answers into those of the checks and those only the router gives.

**ServiceHost**, **Desktop** (`proxyduck-service/src/main.rs`;
`smartflow-ui/src-tauri/src/main.rs` 372-607, `smartflow-ui/dist/app.js`
107-125, 805-887, 1804-1808, 1950-2005). `scm` is the service as its manager
knows it; `recovery` which of the two calls that configure restarts have been
made; the commands of an administrator are cut into the calls between which a
crash leaves a half-made installation. `run_service` is `Prepare`, `Boot`,
`FirstConfig`, `Ready`, `End`. `shared` says whose the shared configuration is
(the defaults, the user's, one that was PUT) and whether it can be read; the last
look for it and its save are two steps of the installer (`Migrate`, `MigrateSave`;
`InstallPrepare`, `InstallCopy`) as of a first start (`Boot`, `FirstConfig`), and
`raced` records that both wrote.

The desktop looks whether the service is installed (`Look`), else probes and
spawns a core of its own (`Probe`), loads (`Loaded`, `NotLoaded`) and sets timers.
A core of the user's has no recovery mode and ends when the user's configuration
cannot be read (`PortableUp`). The user's own refresh (`Refresh`, `Refreshed`), the
retry button, other buttons that load live data and reported errors (`Complaint`)
interleave with the attempts: while such a refresh is under way an attempt's
returns at once as if it had loaded everything (`Skipped`). The document is never
hidden.

**ConfigDocument**, **ConfigFile**, **ConfigRegister** (`core/config.rs`,
`core/validation.rs`, `core/lib.rs` 57-141, `core/state.rs` 442-497). A document
is a record of what migrations and validation look at. `file` maps the names
config, backup and their temporaries to documents, `Torn` or `Absent`; a load or
save is the sequence `CopyStarts`, `CopyEnds`, `WriteStarts`, `WriteEnds`,
`Replace`, `Publish`, each of which may fail or be the last before a crash, and
`Damage` tears a file. What a transaction saves passed `validate_config`, but
was not normalised: a disabled rule may keep `auto_bind_children`
(`core/validation.rs` 120), which the next load clears (`core/config.rs`
302-306), so that what is served (`mem`) and what a restart makes of the file
(`Stored`) are two things. `ConfigFile` implements `ConfigRegister` under the
mapping stated at its end: `Stored`, what a start would make of the files, is
the register, which holds and serves configurations in the form a start gives
them; `ConfigFile!ImplementsRegister` is checked as a property. This is why
DataPlane, which uses the same register (`DataPlane!KeepsRegister`), may treat a
save as one step.

**RoutingPlan**, **RulePolicy** (`core/routing_plan.rs`, `core/process.rs`,
`core/policy/`, `core/proxy_import.rs`, `core/engine/sing_box.rs` 529-812,
`core/api/mod.rs` 1276-1300, 1650-2900, 2977-3320, 3404-3456). A rule is a set
of selectors (name, path, pattern, process) with a priority, an action,
protocols and limits to domains, addresses and ports. Each part of the code has
a test of its own for those: the simulations want every limited dimension hit
(`DestinationMatches`, `CheckDestination`), a rule generated for sing-box takes
a domain or an address (`Admits`), and the analysis compares domains and ports
where both rules have them and never looks at addresses (`DestinationCovered`).
`Planned` are the selectors the plan leaves a rule, `Generated` the sing-box
rules in their order, `EvaluatedOutbound` what the evaluation answers,
`Shadowed` and `Duplicates` what the analysis reports, `StudioSelects` what the
studio's simulation does. The actions are the handlers that edit rules, quick
launch items, profiles, templates, proxies, engine and runtime, and the two that
put a whole configuration in place of the one there is: `PUT /config`
(`PutConfig`, any of `Proposals`) and the import of proxies (`ImportProxies`,
which acts on a copy it took before). Six of them look (`Look*`) before their
transaction and act on `held` afterwards. `foreign` records that a configuration
whose managed rules do not fit came as a whole. A new rule's identifier is a
UUID in the code; here it is a number that nothing names, neither a rule in
force, nor one of a profile, nor the request that is held.

**NetworkDiagnosis**, **NetworkRepair** (`core/network/`, `core/api/mod.rs`
371-497). A raw observation is a record of what the probes and commands
returned; `Issues` and `Recommended` are the orchestrator and the planner. A
request is a job that passes `capture`, `write`, `act`, or `wininet`, `winhttp`,
`hosts`, `report`; `Captured` is what the queries make of the settings
(WinHTTP's bypass list lost, unreadable values taken for absent); several run at
once, without a lock. `orig` and `since` are history: the proxies before the
present repairs and the recovery points made since.

**MCControl**, **MCWindows**, **MCDocuments.** The parts of these share no state. A
behaviour chooses one part and the others rest in one of their initial states,
so the state space is the sum of the parts, not their product, and a property
of a part is checked exactly on the behaviours of that part.

## 4. Runs

| run | instance | shows |
|---|---|---|
| `windows` | firewall: 3 rules, symmetric; network: 2 requests at once, symmetric, 3 in all, 2 recovery points, 2 plans, 1 change or misreading | `Inv`, `OldOrNewInForce`, `NoForgottenRule`, `KeptRulesNeverFlicker`; `UserSettingsRecoverable`, `RollbackRestores` |
| `firewall_refused_delete` | 3 rules, symmetric | `OkMeansInForce` fails after a refused deletion (finding) |
| `backend` | 2 threads, 5 configurations (strict, availability without policy, direct, invalid, off), any outcome of a cleanup | `Inv`, `StrictProtected`, `BlockIsOwned`, `FailClosedIsReal`, `RunningIsTruthful`, `PolicyInForce`, `QuietAfterStop` |
| `backend_lost_restart` | same | `StrictNeverAbandoned` fails: `ClearRestart` races `Status` (finding) |
| `dataplane` | 3 callers, 4 configurations (strict, availability, orphan, off), 4 disturbances, fair | `DInv`, `OneConfiguration`, `DisabledIsQuiet`, `RestartIsServed`, `NewProgramsAreBlocked` |
| `dataplane_stale_snapshot` | same | `DisabledIsPaused` fails (finding) |
| `dataplane_refused_start` | same | `EngineStaysReloadable` fails (finding) |
| `secrets` | 2 requests, 2 proxies, 2 passwords, 1 fault, symmetric | `SInv`, `CredentialIntact`, `NothingLeftBehind`, `StartKeepsCredentials` |
| `secrets_renamed` | 1 request, 2 proxies, no faults, `Renames` | `CredentialIntact` fails when an import renames a proxy (finding) |
| `control` | engine: 4 configurations, 2 faults; health: 1 proxy, 4 profiles, 5 servers, 2 changes; pipe: 2 clients, 2 instances, 5 requests; desktop: 2 commands, 1 fault, 2 attempts, the user without a configuration or with one that cannot be read | `EInv`, `NoStrayChild`, `EngineServesConfig`, `EngineRecovers`; `HealthSettles`, `HealthIsStable`; `PipeRecovers`; `DesktopReconnects` |
| `documents` | file: 3 identifiers, legacy documents of schemas 3 and 5, a candidate that a load changes, 2 faults; policy: 2 programs, 2 destinations, 10 payloads, 3 rules, 2 edits, 2 whole configurations | `FInv`, `ServedIsStored`, `PlaintextGone`, `MigrationKeepsRoutes`, `NoRawBackup`, `ImplementsRegister`; `ManagedRulesMatch`, `StrictLeavesNothingOut`, `SingBoxFollowsEvaluation`, `ShadowedNeverWins` |
| `service_recovery` | 2 commands, 1 fault, fair | `RecoveryReachable` fails (finding) |

*Bounds.* Three rules are enough for a set with a kept, an added and a dropped
member at once. Two threads realise every race of the backend, because every
step reads shared state only and at most one thread holds the lock; the proofs
then cover any number. `Disturbances` bounds requests, failures, crashes,
child exits and changes outside Core in one behaviour, not the length of the
behaviour: four admit a request that fails and whose rollback fails while the
child dies. Two requests, proxies and passwords give the overlap of one
request with the cleanup of another, of the same or a different proxy;
`MaxFaults` 1 admits one refused call or crash, 2 has been run and passes too
(4.8 million states). Symmetry is used only where no property or action names
a member. Deadlock is checked in every run but `control`, `windows`,
`documents` and `service_recovery`, where a behaviour may use up its commands, edits or faults,
or come to a service that is left down, and rightly stop.

Two faults in the engine part give a refused reload whose rollback is refused
too; in the file part a crash in the rewrite that follows a recovery from a
crash. One proxy suffices for health, because results are kept by identifier
and never compared; two changes give a deletion and a re-creation around one
probe. Two clients fill both instances. Two edits are a request that looked
and one that overtakes it, and the initial policies put one usual
rule before each of the ten payloads and another after it, under either engine,
and pair three rules that differ in what they limit with each other, so that pairwise order, overlap
and shadowing all occur. Two retained recovery points and three requests reach the retention.
A diagnosis shows at most one of the fourteen faults; since only the two proxy
resets change what the properties speak of, a repair of anything else is a
snapshot.

*Fairness*, `dataplane`. Weak fairness of each thread's next step,
of the transaction's steps and of the watcher's tick: OS threads run, the lock
is released, and the watcher is an interval timer that fires for as long as
Core lives. Strong fairness of `MaintainCall`: `maintain` may find the
backoff not elapsed, which disables the restart again and again, but the backoff
is at most a minute (`core/engine/proxifyre.rs` 318-340) and elapses. Nothing is
assumed of the environment, and no call is assumed to succeed; disturbances
are finite in number, which is the usual "once the faults stop".

*Fairness*, `control`. Engine: the calls and the transaction take their next
step, the watcher ticks, and strong fairness of `Maintain`, which a transaction
that is just under way disables again and again but not for ever: requests are
finite in number and `maintain` waits for a lock. Pipe: the server's tasks run
and its timers fire; nothing is assumed of clients. Desktop: the window's timers
and a started core run, and the installer and the service take their steps;
nobody is assumed to start a service that was stopped, which is what `LeftDown`
says, or to repair the user's own configuration, which is what `NoCoreStarts`
says; a core that was started comes up or ends. `service_recovery`: the same
fairness of the service's host.

## 5. What is proved

Every invariant and every safety property of the passing runs is a theorem, for
all values of the constants. TLC shows the same on the instances of section 4.

| theorem | says |
|---|---|
| `FirewallRulesProofs!InvHolds` | `Inv`, any set of rules |
| `...!OldOrNewAlwaysInForce`, `NothingForgotten`, `KeptRulesStay` | the three properties of the firewall in run `windows` |
| `...!RecordMatchesFirewall`, `ReconciliationIsAllOrNothing` | `RecordIsExact`, `AllOrNothing`: between calls the record is exact, and a call has the effect of one step |
| `ProxifyreBackendProofs!InvHolds` | `Inv`, any threads and configurations |
| `...!StrictStaysProtected`, `FailClosedIsAlwaysReal`, `StopIsQuiet`, `BlocksAreOwned`, `RunningIsAlwaysTruthful`, `PolicyStaysInForce` | the six properties of run `backend` |
| `DataPlaneProofs!DataPlaneInvariant` | `DInv`, any configurations and disturbances |
| `...!OneConfigurationServed`, `DisabledStaysQuiet` | `OneConfiguration`, `DisabledIsQuiet` |
| `...!CoreKeepsTheRegister` | `KeepsRegister` and `ConfigRegister!Spec`: Core uses its file as the register that ConfigFile implements |
| `ProxySecretsProofs!SecretsInvariant` | `SInv`, any proxies, passwords, requests and faults, without `Renames` |
| `...!CredentialsSurvive`, `CleanupsAreComplete`, `RestartsKeepCredentials` | `CredentialIntact`, `NothingLeftBehind`, `StartKeepsCredentials`, likewise |
| `ControlProofs!EngineInvariant` | `EInv`, any configurations and number of faults |
| `...!NoProcessEscapes`, `EngineRunsTheConfiguration` | `NoStrayChild`, `EngineServesConfig`, likewise |
| `...!HealthInvariant` | `HInv`, any proxies, profiles, servers and changes |
| `...!HealthAlwaysSettles`, `HealthStaysStable` | `HealthSettles`, `HealthIsStable`, likewise |
| `ConfigFileProofs!FileInvariant` | `FInv`, any documents, legacy files and faults |
| `...!ServesWhatIsStored`, `PasswordsLeaveTheFiles`, `MigrationMovesNoTraffic`, `BackupStaysClean` | `ServedIsStored`, `PlaintextGone`, `MigrationKeepsRoutes`, `NoRawBackup` |
| `...!FilesAreARegister` | `ImplementsRegister`: every step of the files is a step of ConfigRegister or none |
| `RulePolicyProofs!PolicyInvariant` | `PInv`, any requests, items, templates and policies loaded |
| `...!ManagedRulesAlwaysMatch` | `ManagedRulesMatch`, likewise |
| `...!StrictIsComplete`, `SingBoxAgrees`, `ShadowedRulesLose` | `StrictLeavesNothingOut`, `SingBoxFollowsEvaluation`, `ShadowedNeverWins` |
| `HostProofs!RepairInvariant` | `NInv`, any requests, settings, plans and retained points |
| `...!RepairsAreRecoverable`, `RollbacksRestore` | `UserSettingsRecoverable`, `RollbackRestores` |
| `...!PipeInvariant` | `PipeInv`, any clients, requests and number of instances |
| `...!OnlyPermittedRequestsRouted`, `RequestsAnsweredOnce` | `WithinInstances` and `OnlyPermittedRouted`, `OneAnswer`, likewise |
| `...!DesktopInvariant` | `DesktopInv`, any number of faults, commands and attempts: the manager and the process agree, a writer of the shared file saw none, no timer is left online |
| `...!WindowKeepsTrying` | `TriesUntilOnline`: once the window tries to connect it goes on, by an attempt or a timer, until it is online |
| `...!ServiceStartsOnce` | `ServiceAgrees`, `NeverStartedTwice`: at most two automatic restarts, none of a removed service, no start over a process |
| `...!SharedConfigKept` | `SharedIsKept`: no installation, migration or start writes over a shared configuration, a readable one included, but where two that saw none write one after the other |

*Assumptions.* Those of the modules, named where the constants are declared.
Most say only that the values for "nothing" (`None`, `Absent`, `NoThread`,
`Nobody`, `NoProxy`, `NoDoc`, `Empty`) are not among the things they stand apart
from, that configurations and payloads are of the code's types, and that bounds
are natural numbers. `FileAssumption` says that what a transaction saves passed
the validation, carries the present schema and holds no password, and that the
defaults need no migration; it does not say that a load leaves what was saved as
it is. `LegacyAssumption` says that of the files an earlier version left, if one
holds a password, then the document a start reads is readable and still to be
upgraded; files of an earlier version's interrupted load, upgraded with the raw
backup left, are outside it. `PolicyAssumption` says that the policies loaded,
and those put in place of the whole, are of the API's types; that they are
validated and accepted by their engine is a guard, as in the code, and nothing
is said of their managed rules. `RestartsKeepCredentials` and its fellows have
`~Renames` as their hypothesis, and run `secrets_renamed` shows why. The pipe's
clients are finitely many (`PipeAssumption`).

*Firewall.* `OldOrNewInForce` is not inductive: it says nothing of the work
lists, and a step that deletes a rule may do so only because the list holds
nothing of the new set. `DeltaOK` adds what is left of the lists, `Protected`
and `Accounted` which set is safe at which point. The two together pin the
firewall down to a single set where a call returns, which is `AllOrNothing`.

*Backend.* `LockDiscipline` makes a call under way the only writer of the rules;
`HolderApplies` ties it to `applied`; `ProtectedAt` says how far a call has got
towards protecting a strict configuration, which is what lets the last step
return without looking; `BlockedWhenClosed` and `Quiet` carry the flags and the
rules across `stop`, which clears `running` before it has the lock. `Accounted`
divides the firewall into what the record names and what a failed cleanup left, so
that the other parts can speak of the record alone. The three
properties of reports (`BlockIsOwned`, `RunningIsTruthful`, `PolicyInForce`)
need to know at each point of a call what its answer will be: that a block laid
has an owner, that a child was started only after its probe, and that the
fingerprint is written after the rules it stands for.

*Data plane.* A step of DataPlane is a step of the backend or the loss of the
process, after which the backend is new but for the firewall (`BackendMoves`);
so the backend's lemmas carry over. `Phases` and `Stored` say which of the three
copies a transaction has already changed, `Asked` and `Given` which
configuration the engine was last asked to take, and by whom, `Pausing` and
`Paused` what a disabled one leaves. `CoreKeepsTheRegister` maps what is stored
and served to sets of one configuration, or of none while Core is down; each
step of DataPlane, crash and start is then a commit, a serve or a stop of the
register, or none (`FileMoves`, `FileMaps`). `FilesAreARegister` proves the same
specification of the files below, so the two models meet in it.

*Secrets.* `CredentialIntact` at a commit rests on `CandidateIntact`: what is
about to be published agrees with the files, because they were written under
the same lock (`OneTransaction`) and no cleanup runs without it. It rests on
`OwnRefs` too: references are made from identifiers, so two proxies never share
a file. That is what `Renames` breaks, and why the theorem assumes it away and
run `secrets_renamed` finds the violation. `OneProxy` says a request changes
one proxy; without it a commit could publish another proxy's stale password.
`StillPrevious` in the exemption `Overwriting` is what makes a rollback that
comes late give up: a credential committed meanwhile is not in doubt. For
`NothingLeftBehind` every file must have somebody who will see to it
(`Accounted`): the configuration, or a request whose `Duty` it still is.
`Referred` and `CandidateKeeps` show that a commit takes no file's last owner
away, `DownIntact` that a crash leaves to the next start what a start needs.

*Engine.* `NoStrayChild` lets a process be held by the engine's handle alone, and
the next caller's `Store` would drop it. `JobHolds` says that outside of a spawn
the job object holds it, which no handle can change. A switch to ProxiFyre ends
what there is because the watcher is outside then (`CallsMatch`): `SwitchIsClean`
carries that to the end of the switch, `ProxifyreIsBare` beyond it, also when the
switch is refused and ProxiFyre comes back. `EngineServesConfig` needs a
statement of every step before it: `Aim` is the configuration the transaction
is working towards, forwards or back; `Aimed` and `Alone` say that whoever
applies, applies that one and alone; `Applying` how far it has got, and
`Resting` that with nobody inside the engine has what was aimed at.

*Health.* A late result is harmless because a probe belongs to the snapshot of
its tick (`ProbesOfSnapshot`); `Settling` says of the first tick without a
change that its snapshot is the configuration published. `HealthIsStable` needs
`RunsCounted`: the counter of the other kind is zero, so that it takes more than
one result to flip a state.

*Configuration file.* `Working` ties the write under way to the core's phase and
to the document it came from, `Writing` says what the files hold between two of
its calls, `Kept` that whatever is readable in them is a configuration that was
stored, and `Sealed` where a password may still be. They rest on lemmas about
the migrations: an upgrade of an upgraded document is that document, it holds no
password, rules keep where they led, and of a document that passed the
validation an upgrade changes the child inheritance of its rules and nothing
else. The refinement then compares `Stored` before and after each step: only
`Replace`, and a tear of the main file, may change it, and what they change it
to is what ConfigRegister allows.

*Policy.* What is said of the plan, of sing-box and of the analysis is proved of
any list of rules, apart from how the list came about. The operators are
recursive functions over lists; induction along a list is stated once, for sets
of positions (`AlongTheList`), from the well-foundedness of `<`, since no
theorem with an operator as parameter can be cited. `ClaimedIsPlanned` says that
a selector a rule claims is in the plan of that rule or of an earlier one; with it
`SingBoxAgrees` finds the same first rule on both sides (`SameFirst`).
`ManagedRulesMatch` is not inductive, because a profile may bring back any list
of rules and items and a request may act on what it saw before. `MInv` adds that
each profile satisfies the same (`Matching`), that a rule has the same manager
wherever it is (`Agreeing`), that what a request holds is unmanaged everywhere and
that the copy an import works on is in order itself (`HeldFree`). All of it holds
until a configuration that breaks it comes as a whole, which `foreign` remembers.
`ShadowedNeverWins` is proved dimension by dimension: where the rule above is
limited so is the one below (`AsExplicit`), and what the analysis compared is
then what the studio tests.

*Repairs.* `Guarded` says that no job touches anything before a recovery point
with the user's proxies is complete, or while those proxies are still in force,
for as long as no more newer points were made than are retained; `Numbered`
that identifiers are not used twice, and `RestoredSoFar` what a rollback has
brought back at each of its steps.

*Pipe.* `InstanceOK` ties what an instance does to its request and its answer:
a step past a check is only reached by a request that passes it. Taking over
the listening instance moves it from one side of the count to the other, so
only `Create` can grow it (`HeldChanges`).

*Service and window.* `ServiceAgrees` is inductive only with what the running
command is entitled to: whoever configures, updates or awaits a service has
one, since the install mutex keeps `--uninstall` away. `SeenNone` says that whoever
is about to write a shared configuration saw none, so that one that is there all
the same was written in between. `TriesUntilOnline` is a property of single steps:
a timer that fires during an attempt has no effect, and an attempt that a refresh
of the user's ends early leaves a timer unless the window is online.

`MInv`, `PInv`, `HInv`, `NInv`, `PipeInv`, `DesktopInv`, and the formulas of
`RecordMatchesFirewall`, `ReconciliationIsAllOrNothing`, `CoreKeepsTheRegister`,
`RequestsAnsweredOnce`, `ServiceStartsOnce` and `SharedConfigKept` are not listed
by a run, being there for the proofs; TLC has checked each of them on the
instance of its run (the desktop with two faults).

*Only model-checked:* the five liveness properties `RestartIsServed`,
`NewProgramsAreBlocked`, `EngineRecovers`, `PipeRecovers` and
`DesktopReconnects`. They rest on fairness, hence on ENABLED, which the proof
system does not handle.

## 6. Findings

1. A refused deletion leaves `installed_firewall_specs` naming rules already
   deleted; a later reconciliation answers `Ok` without them.
2. `status` between `apply_config`'s look at the child and the reset of
   `restart_needed` loses the restart of a strict configuration.
3. The watcher's snapshot may re-enable a runtime that the user disabled while
   the tick was under way.
4. A saved configuration without an enabled proxy makes `start` fail before
   `running` is set; every later reload is refused.
5. An import that keeps a reference under a new identifier shares its file with
   the next proxy created under the old one.
6. The service refuses a damaged configuration that names a password before
   Core's recovery mode is reached; it is restarted twice and then stays down.

Behaviours that are part of the models and contradict no statement of the
repository; the properties are stated so as to except them, and say so:

- `remove_firewall_rules` empties its record and only logs that the deletion
  failed: block rules may then survive `stop`, a disabled runtime and the return of
  an endpoint, while the status says Stopped, Paused or Running (`leftover`);
- a direct-only strict configuration whose hardening fails reports Running while
  blocked, and a strict block after one transient `netsh` failure stays until the
  next apply;
- an error of a reconciliation stays in `startup_error` after the next one
  succeeded, and so does that of a refused switch although the old engine runs;
- a switch back that fails leaves an engine of another mode than the
  configuration's (`stuck`);
- health is reset before the new configuration is published, so that a tick in
  between probes the old one; it is right one tick later;
- `migrate_to_v6_debranding` leaves references in quick launch items as they
  were;
- a crash between the rewrite of a legacy file and `write_sanitized_backup`
  leaves the password in the backup, and a save after a recovery copies the
  damaged file over the good backup;
- a disabled rule may keep `auto_bind_children`, which is served as it was saved and
  cleared by the next load: restarting Core changes the configuration
  (`ServedIsStored` compares up to that);
- `PUT /config` and a loaded file may bring managed rules that do not fit their
  items, and two items of one identifier (`foreign`);
- an import of proxies puts a copy it took before its transaction in place of the
  configuration, and takes back what other requests changed in between;
- of a rule that names both domains and addresses, sing-box takes what goes to
  either (`core/engine/sing_box.rs` 750-770), the simulation wants both
  (`core/api/mod.rs` 1722-1747), although `README.en.md` 32 offers it to "test
  routing decisions before applying"; without `OneHost` TLC refutes
  `SingBoxFollowsEvaluation` at an initial state;
- the analysis says of a rule that it never hits when the rule above is limited to
  domains, ports or protocols and it is not, or is limited to addresses: its tests
  are vacuous there (`core/policy/analysis.rs` 298-331, against its comment in 291)
  and the studio selects such a rule; without `AsExplicit` TLC refutes
  `ShadowedNeverWins` at an initial state;
- `netsh winhttp reset proxy` drops the bypass list together with the server, and
  `WinhttpSnapshotData` has no field for it: a repair takes it for good.
  `UserSettingsRecoverable` speaks of what a recovery point has room for
  (`ProxySettings`); with the bypass list in it TLC refutes it;
- a value of WinINET's that cannot be read is saved as absent
  (`core/network/proxy.rs` 142-181), and a rollback then removes it;
- the desktop's shutdown request to a core that is still starting fails unnoticed
  (`smartflow-ui/src-tauri/src/main.rs` 596-607): that core survives its window;
- a first start of the service and an installer that both saw no shared
  configuration write one after the other, and the later one stays (`raced`);
- sing-box's rules ignore the numeric priority, rules of mixed kinds of
  selectors are ordered differently by the plan and the evaluation, and a rule
  claims its selectors for every protocol (`core/routing_plan.rs` 278-288), so
  that a later rule for more protocols never reaches sing-box for the rest of
  them (`SingBoxFollowsEvaluation` assumes away all three: one kind, one
  priority, `ClaimsFit`);
- a rollback whose point is retired under it skips the hosts file and may still
  report success; recovery points are retired by age, those of repairs included.

## 7. Plan

1. A composition of EngineSwitch with ProxifyreBackend instead of its summary,
   and of ConfigFile with DataPlane in one run; that they meet in ConfigRegister
   is proved from both sides.
2. **EndpointGroup** (`core/endpoint/group.rs`): selection and circuit breaker;
   the configuration studio's fingerprinted save of a foreign file.

## 8. Not modelled

Of the desktop UI only its connection; rendering, the CLI, the updater,
packaging and scripts are clients of the API or no core logic. Timeline and
observability are views with bounded buffers; the configuration studio edits
foreign files; endpoint discovery reads and recommends. Read-only handlers,
authentication and event streams of the API are left out. The text that
commands print, address and pattern parsing, wording, logging, paths and
encodings are abstracted to their outcomes, as are the contents of ProxiFyre's
configuration file beyond whether it has proxies. Durations (backoff,
readiness waits, deadlines) are nondeterministic choices. A second program that
removes ProxyDuck's firewall rules is not modelled, and neither is sing-box or
ProxiFyre itself: a child runs or has ended. That Windows refuses a job object,
of which the code only warns, is left out: a crash would then leave the child.
