--------------------------- MODULE ProxifyreBackend ---------------------------
(***************************************************************************)
(* ProxifyreBackend: one object that owns the ProxiFyre child process and   *)
(* the Windows firewall rules, called by several threads.  start, reload    *)
(* (apply_config), stop and reconcile_processes serialize on                *)
(* firewall_transaction_lock; status does not, and neither do the checks    *)
(* that reload, maintain and stop make before they take it.                 *)
(*                                                                          *)
(* A step is what happens between two points where another thread, the      *)
(* child process or the network can be noticed.  FirewallRules models the   *)
(* reconciliation of the rules call by call; here a reconciliation either   *)
(* installs the wanted set or rolls its additions back.  A cleanup that     *)
(* fails only warns: the record is cleared first, so that the rules it      *)
(* leaves belong to nobody until a later cleanup, or until a reconciliation *)
(* wants the same ones.                                                     *)
(***************************************************************************)
EXTENDS Naturals

CONSTANTS
  Threads,    \* API workers, the process watcher, the shutdown handler
  NoThread,   \* holds the lock when nobody does
  Configs     \* configurations a caller may pass

\* what apply_config distinguishes in a configuration:
\*   plan  "proxies"  some enabled rule is routed to an enabled SOCKS5 proxy
\*         "direct"   only direct rules
\*         "none"     no enabled rule
\*         "invalid"  a rule ProxiFyre cannot express (block, PID, wildcard)
\*         "orphan"   rules need a proxy and no proxy is enabled
Plans == {"proxies", "direct", "none", "invalid", "orphan"}
ConfigType == [enabled : BOOLEAN, strict : BOOLEAN, policy : BOOLEAN, plan : Plans]

ASSUME ThreadsAssumption == NoThread \notin Threads
ASSUME ConfigsAssumption == Configs \subseteq ConfigType

OffConfig == [enabled |-> FALSE, strict |-> FALSE, policy |-> FALSE, plan |-> "none"]

VARIABLES
  running,        \* between start and stop
  desired,        \* desired_enabled
  child,          \* "none", "alive", or "dead": exited and not yet noticed
  lastError,      \* is last_error Some?
  restartNeeded,
  reach,          \* proxy_reachable: "unknown", "up" or "down"
  failClosed,     \* fail_closed_active
  strictReq,      \* strict_fail_closed_required
  directOnly,     \* direct_only_active
  fp,             \* firewall_process_fingerprint: NoPrint, or paths it hashes
  fw,             \* the rules in force: pairs of a kind and a path
  installed,      \* installed_firewall_specs: those the backend knows of
  leftover,       \* history: rules in force that a failed cleanup left
  lock,           \* firewall_transaction_lock
  pc,             \* where each thread is in the backend
  arg,            \* the configuration each thread passed
  up,             \* environment: does a proxy endpoint accept connections?
  apps,           \* environment: is a matching program running?
  applied,        \* history: what apply_config began on last, since start
  lateApply,      \* history: apply_config began after stop had set running
  lostRestart     \* history: apply_config cleared a fresh restart request

flags == <<running, desired, lastError, restartNeeded, failClosed, strictReq, directOnly>>
firewall == <<fw, installed, leftover>>
plane == <<child, reach, fp, firewall>>
control == <<lock, pc, arg>>
environment == <<up, apps>>
history == <<applied, lateApply, lostRestart>>
vars == <<flags, plane, control, environment, history>>

Kinds == {"policy", "block"}
Paths == {"exe", "seen"}
NoPrint == {"no_fingerprint"}

Points == {"idle", "apply", "build", "spawn", "probe", "harden",
           "failClosed", "recover", "finish", "clear", "stopping", "ok", "err"}
Locked == {"build", "spawn", "probe", "harden", "failClosed",
           "recover", "finish", "clear"}

FlagsOK ==
  /\ running \in BOOLEAN /\ desired \in BOOLEAN
  /\ lastError \in BOOLEAN /\ restartNeeded \in BOOLEAN
  /\ failClosed \in BOOLEAN /\ strictReq \in BOOLEAN /\ directOnly \in BOOLEAN
  /\ up \in BOOLEAN /\ apps \in BOOLEAN
  /\ lateApply \in BOOLEAN /\ lostRestart \in BOOLEAN

TypeOK ==
  /\ FlagsOK
  /\ child \in {"none", "alive", "dead"}
  /\ reach \in {"unknown", "up", "down"}
  /\ fp \in {NoPrint} \union SUBSET Paths
  /\ fw \subseteq Kinds \X Paths
  /\ installed \subseteq Kinds \X Paths
  /\ leftover \subseteq Kinds \X Paths
  /\ lock \in Threads \union {NoThread}
  /\ pc \in [Threads -> Points]
  /\ arg \in [Threads -> Configs \union {OffConfig}]
  /\ applied \in Configs \union {OffConfig}

Init ==
  /\ running = FALSE /\ desired = FALSE
  /\ child = "none" /\ reach = "unknown"
  /\ lastError = FALSE /\ restartNeeded = FALSE
  /\ failClosed = FALSE /\ strictReq = FALSE /\ directOnly = FALSE
  /\ fp = NoPrint /\ fw = {} /\ installed = {} /\ leftover = {}
  /\ lock = NoThread
  /\ pc = [t \in Threads |-> "idle"]
  /\ arg = [t \in Threads |-> OffConfig]
  /\ up \in BOOLEAN /\ apps \in BOOLEAN
  /\ applied = OffConfig /\ lateApply = FALSE /\ lostRestart = FALSE

-----------------------------------------------------------------------------
(* What the configuration and the processes determine *)

NeedsProtection(cfg) ==
  cfg.enabled /\ cfg.strict /\ cfg.plan \in {"proxies", "invalid", "orphan"}

\* build_runtime_config: an error, some proxies, only excludes, or nothing
Built(cfg) ==
  CASE cfg.plan = "invalid" -> "error"
    [] cfg.plan = "orphan"  -> IF cfg.strict THEN "error" ELSE "none"
    [] OTHER                -> cfg.plan

\* rule_executable_paths: validate_config makes strict rules name their
\* executable; any rule also covers the matching processes it can see
RulePaths(cfg, seen) ==
  IF cfg.plan = "none" THEN {}
  ELSE {p \in Paths : IF p = "exe" THEN cfg.strict ELSE seen}

PolicyRules(cfg, seen) == {"policy"} \X RulePaths(cfg, seen)
BlockRules(cfg) == {"block"} \X RulePaths(cfg, apps)

\* what a rollback may take along: it deletes its additions by name, and a
\* rule of that name may be in force that nobody had recorded
Unrecorded(wanted) == (fw \intersect wanted) \ installed

\* apply_firewall_delta: what is wanted replaces what is recorded (and what a
\* rolled back attempt before it took along is gone) ...
Reconciled(wanted, gone) ==
  /\ fw' = (fw \ (installed \union gone)) \union wanted
  /\ installed' = wanted
  /\ leftover' = leftover \ (wanted \union gone)

\* ... or the additions made before a netsh call failed are deleted again
RolledBack(wanted) ==
  /\ \E gone \in SUBSET Unrecorded(wanted) :
       fw' = fw \ gone /\ leftover' = leftover \ gone
  /\ UNCHANGED installed

\* mutant of Cleaned: nothing is deleted, the record goes all the same
CleanedOnPaper ==
  /\ installed' = {}
  /\ UNCHANGED <<fw, leftover>>

\* remove_firewall_rules: the record is cleared, then PowerShell, or netsh,
\* deletes every rule of the product; whatever they leave is only logged
Cleaned ==
  /\ fw' \in SUBSET fw
  /\ installed' = {}
  /\ leftover' = fw'

\* has_reachable_proxy_endpoint, encoded
Reachability == IF up THEN "up" ELSE "down"

-----------------------------------------------------------------------------
(* Steps of a call *)

Go(t, point) == pc' = [pc EXCEPT ![t] = point]

\* mutant of Leave: the guard outlives the call
LeaveHolding(t, result) ==
  /\ Go(t, result)
  /\ UNCHANGED lock
  /\ arg' = [arg EXCEPT ![t] = OffConfig]

\* the guard is dropped and the call returns
Leave(t, result) ==
  /\ Go(t, result)
  /\ lock' = NoThread
  /\ arg' = [arg EXCEPT ![t] = OffConfig]

\* apply_strict_fail_closed, the rules installed or rolled back
StrictInstalled(cfg, gone) ==
  /\ strictReq' = TRUE
  /\ Reconciled(BlockRules(cfg), gone)
  /\ failClosed' = (BlockRules(cfg) # {})

StrictRefused(cfg) ==
  /\ strictReq' = TRUE
  /\ RolledBack(BlockRules(cfg))
  /\ UNCHANGED failClosed

\* start: validate_clash_profile refuses rules that need a proxy when none is
\* enabled, before running is set.  EngineManager starts an engine before the
\* other threads exist, or under its write lock.
Start(t, cfg) ==
  /\ \A u \in Threads : pc[u] = "idle"
  /\ IF cfg.plan = "orphan"
     THEN Go(t, "err") /\ UNCHANGED <<running, arg, applied, lateApply>>
     ELSE /\ Go(t, "apply")
          /\ arg' = [arg EXCEPT ![t] = cfg]
          /\ running' = TRUE
          /\ applied' = OffConfig
          /\ lateApply' = FALSE
  /\ UNCHANGED <<desired, lastError, restartNeeded, failClosed, strictReq,
                 directOnly, plane, lock, environment, lostRestart>>

\* reload: running is read before the lock is taken
Reload(t, cfg) ==
  /\ pc[t] = "idle"
  /\ IF running
     THEN Go(t, "apply") /\ arg' = [arg EXCEPT ![t] = cfg]
     ELSE Go(t, "err") /\ UNCHANGED arg
  /\ UNCHANGED <<flags, plane, lock, environment, history>>

\* mutant of ApplyBegin: fail_closed_active is not reset
ApplyBeginKeepsFailClosed(t) ==
  /\ pc[t] = "apply"
  /\ lock = NoThread
  /\ lock' = t
  /\ Go(t, "build")
  /\ desired' = arg[t].enabled
  /\ applied' = arg[t]
  /\ lateApply' = (lateApply \/ ~running)
  /\ lastError' = FALSE /\ restartNeeded' = FALSE
  /\ strictReq' = FALSE /\ directOnly' = FALSE
  /\ lostRestart' = FALSE
  /\ UNCHANGED <<running, failClosed, plane, arg, environment>>

\* apply_config: the lock is taken, the flags of the previous run are reset
ApplyBegin(t) ==
  /\ pc[t] = "apply"
  /\ lock = NoThread
  /\ lock' = t
  /\ Go(t, "build")
  /\ desired' = arg[t].enabled
  /\ lastError' = FALSE
  /\ restartNeeded' = FALSE
  /\ failClosed' = FALSE
  /\ strictReq' = FALSE
  /\ directOnly' = FALSE
  /\ applied' = arg[t]
  /\ lateApply' = (lateApply \/ ~running)
  /\ lostRestart' = FALSE
  /\ UNCHANGED <<running, plane, arg, environment>>

\* mutant of BuildPaused: the rules stay
BuildPausedKeepsRules(t) ==
  /\ pc[t] = "build"
  /\ ~arg[t].enabled
  /\ Go(t, "finish")
  /\ child' = "none"
  /\ UNCHANGED <<flags, reach, fp, firewall, lock, arg, environment, history>>

\* the runtime is disabled: child, configuration file and rules go
BuildPaused(t) ==
  /\ pc[t] = "build"
  /\ ~arg[t].enabled
  /\ Go(t, "finish")
  /\ child' = "none"
  /\ Cleaned
  /\ UNCHANGED <<flags, reach, fp, lock, arg, environment, history>>

\* build_runtime_config, resolve_proxifyre_dir or write_proxifyre_config
\* fails; the old child, if any, goes on
BuildFails(t) ==
  /\ pc[t] = "build"
  /\ arg[t].enabled
  /\ Built(arg[t]) \in {"error", "proxies"}
  /\ Go(t, "recover")
  /\ UNCHANGED <<flags, plane, lock, arg, environment, history>>

\* no proxy entry: nothing to run; direct rules still get their policy rules
BuildNoProxies(t) ==
  /\ pc[t] = "build"
  /\ arg[t].enabled
  /\ Built(arg[t]) \in {"direct", "none"}
  /\ child' = "none"
  /\ Cleaned
  /\ directOnly' = (Built(arg[t]) = "direct")
  /\ IF directOnly' THEN Go(t, "harden") /\ UNCHANGED lastError
                    ELSE Go(t, "finish") /\ lastError' = TRUE
  /\ UNCHANGED <<running, desired, restartNeeded, failClosed, strictReq,
                 reach, fp, lock, arg, environment, history>>

\* the configuration is written; restart_child kills and forgets the old child
BuildProxies(t) ==
  /\ pc[t] = "build"
  /\ arg[t].enabled
  /\ Built(arg[t]) = "proxies"
  /\ Go(t, "spawn")
  /\ child' = "none"
  /\ UNCHANGED <<flags, reach, fp, firewall, lock, arg, environment, history>>

\* the new one is kept once it has survived wait_for_process_ready
SpawnChild(t) ==
  /\ pc[t] = "spawn"
  /\ \/ Go(t, "probe") /\ child' = "alive"
     \/ Go(t, "recover") /\ UNCHANGED child
  /\ UNCHANGED <<flags, reach, fp, firewall, lock, arg, environment, history>>

ProbeReachable(t) ==
  /\ pc[t] = "probe"
  /\ up
  /\ Go(t, "harden")
  /\ reach' = "up"
  /\ failClosed' = FALSE
  /\ Cleaned
  /\ UNCHANGED <<running, desired, lastError, restartNeeded, strictReq,
                 directOnly, child, fp, lock, arg, environment, history>>

\* unreachable: Availability stops the child, Strict blocks the programs
ProbeUnreachable(t) ==
  /\ pc[t] = "probe"
  /\ ~up
  /\ reach' = "down"
  /\ IF arg[t].strict
     THEN Go(t, "failClosed") /\ UNCHANGED <<child, firewall, lastError>>
     ELSE Go(t, "finish") /\ child' = "none" /\ Cleaned /\ lastError' = TRUE
  /\ UNCHANGED <<running, desired, restartNeeded, failClosed, strictReq,
                 directOnly, fp, lock, arg, environment, history>>

\* mutant of Harden: the fingerprint is not recorded
HardenUnrecorded(t) ==
  /\ pc[t] = "harden"
  /\ Go(t, "finish")
  /\ IF arg[t].policy THEN Reconciled(PolicyRules(arg[t], apps), {}) ELSE UNCHANGED firewall
  /\ lastError' = (IF directOnly THEN FALSE ELSE lastError)
  /\ UNCHANGED <<running, desired, restartNeeded, failClosed, strictReq,
                 directOnly, child, reach, fp, lock, arg, environment, history>>

\* apply_firewall_rules: nothing to do without a policy
Harden(t) ==
  /\ pc[t] = "harden"
  /\ Go(t, "finish")
  /\ IF arg[t].policy
     THEN Reconciled(PolicyRules(arg[t], apps), {}) /\ fp' = RulePaths(arg[t], apps)
     ELSE UNCHANGED <<firewall, fp>>
  /\ lastError' = (IF directOnly THEN FALSE ELSE lastError)
  /\ UNCHANGED <<running, desired, restartNeeded, failClosed, strictReq,
                 directOnly, child, reach, lock, arg, environment, history>>

\* ... and apply_firewall_rules_with_recovery when a netsh call fails
HardenFails(t) ==
  /\ pc[t] = "harden"
  /\ arg[t].policy
  /\ Go(t, IF arg[t].strict THEN "failClosed" ELSE "recover")
  /\ RolledBack(PolicyRules(arg[t], apps))
  /\ UNCHANGED <<flags, child, reach, fp, lock, arg, environment, history>>

\* mutant of FailClosed: the block is not reported as an error
FailClosedSilently(t) ==
  /\ pc[t] = "failClosed"
  /\ \/ Go(t, "finish") /\ StrictInstalled(arg[t], {})
     \/ Go(t, "recover") /\ StrictRefused(arg[t])
  /\ UNCHANGED <<running, desired, restartNeeded, lastError, directOnly, child,
                 reach, fp, lock, arg, environment, history>>

\* a direct-only policy clears the message even when it was just fail-closed
FailClosed(t) ==
  /\ pc[t] = "failClosed"
  /\ \/ Go(t, "finish") /\ StrictInstalled(arg[t], {}) /\ lastError' = ~directOnly
     \/ Go(t, "recover") /\ StrictRefused(arg[t]) /\ UNCHANGED lastError
  /\ UNCHANGED <<running, desired, restartNeeded, directOnly, child, reach,
                 fp, lock, arg, environment, history>>

\* mutant of Recover: no restart is asked for
RecoverGivesUp(t) ==
  /\ pc[t] = "recover"
  /\ lastError' = TRUE
  /\ IF arg[t].strict THEN StrictInstalled(arg[t], {}) \/ StrictRefused(arg[t])
                      ELSE UNCHANGED <<strictReq, firewall, failClosed>>
  /\ Leave(t, "err")
  /\ UNCHANGED <<running, desired, restartNeeded, directOnly, child, reach, fp,
                 environment, history>>

\* the error path of apply_config
Recover(t) ==
  /\ pc[t] = "recover"
  /\ restartNeeded' = TRUE
  /\ lastError' = TRUE
  /\ IF arg[t].strict THEN StrictInstalled(arg[t], {}) \/ StrictRefused(arg[t])
                      ELSE UNCHANGED <<strictReq, firewall, failClosed>>
  /\ Leave(t, "err")
  /\ UNCHANGED <<running, desired, directOnly, child, reach, fp, environment,
                 history>>

\* success: the child mutex is locked, looked into and unlocked ...
Finish(t) ==
  /\ pc[t] = "finish"
  /\ IF child = "none" THEN Leave(t, "ok")
                       ELSE Go(t, "clear") /\ UNCHANGED <<lock, arg>>
  /\ UNCHANGED <<flags, plane, environment, history>>

\* ... then the restart request is cleared
ClearRestart(t) ==
  /\ pc[t] = "clear"
  /\ restartNeeded' = FALSE
  /\ lostRestart' = (restartNeeded /\ child = "none")
  /\ Leave(t, "ok")
  /\ UNCHANGED <<running, desired, lastError, failClosed, strictReq,
                 directOnly, plane, environment, applied, lateApply>>

-----------------------------------------------------------------------------
(* The other operations *)

\* stop: the two flags fall before the lock is asked for
StopBegin(t) ==
  /\ pc[t] = "idle"
  /\ Go(t, "stopping")
  /\ running' = FALSE
  /\ desired' = FALSE
  /\ UNCHANGED <<lastError, restartNeeded, failClosed, strictReq, directOnly,
                 plane, lock, arg, environment, history>>

\* ... everything is taken down under the lock; a failed cleanup is not reported
StopFinish(t) ==
  /\ pc[t] = "stopping"
  /\ lock = NoThread
  /\ Go(t, "ok")
  /\ child' = "none" /\ Cleaned
  /\ lastError' = FALSE /\ restartNeeded' = FALSE
  /\ reach' = "unknown"
  /\ failClosed' = FALSE /\ strictReq' = FALSE /\ directOnly' = FALSE
  /\ fp' = NoPrint
  /\ UNCHANGED <<running, desired, lock, arg, environment, history>>

\* mutant of Status: an exited child is reaped and that is all
StatusReapsOnly ==
  /\ child = "dead"
  /\ child' = "none"
  /\ lastError' = TRUE
  /\ UNCHANGED <<running, desired, restartNeeded, failClosed, strictReq,
                 directOnly, reach, fp, firewall, control, environment, history>>

\* status, called by anybody at any time: it takes only the child's mutex.
\* An exited child is reaped; a child that cannot be inspected is kept.
Status ==
  /\ child # "none"
  /\ child' \in {child, "none"}
  /\ child' = "none" => child = "dead"
  /\ lastError' = TRUE
  /\ restartNeeded' = TRUE
  /\ UNCHANGED <<running, desired, failClosed, strictReq, directOnly, reach, fp,
                 firewall, control, environment, history>>

\* mutant of MaintainRestart: a fail-closed backend is left alone
MaintainRestartUnlessBlocked(t, cfg) ==
  /\ running
  /\ cfg.enabled
  /\ restartNeeded /\ ~failClosed
  /\ Reload(t, cfg)

\* maintain, after its own call of status: restart if asked to and the
\* backoff has elapsed, or reload when the endpoint's reachability changed
MaintainRestart(t, cfg) ==
  /\ running
  /\ cfg.enabled
  /\ restartNeeded
  /\ Reload(t, cfg)

MaintainProbe(t, cfg) ==
  /\ running
  /\ cfg.enabled
  /\ ~restartNeeded
  /\ Built(cfg) = "proxies"
  /\ reach # Reachability
  /\ Reload(t, cfg)

\* mutant of RefreshDue: once blocked, nothing more is done
RefreshDueOnce(cfg) == running /\ cfg.enabled /\ strictReq /\ ~failClosed

\* what reconcile_processes finds to do, once it has the lock; fp is the
\* fingerprint of the paths it would install policy rules for
RefreshDue(cfg) == running /\ cfg.enabled /\ (strictReq \/ failClosed)
PolicyDue(cfg, seen) ==
  /\ running /\ cfg.enabled /\ cfg.policy
  /\ ~strictReq /\ ~failClosed
  /\ fp # RulePaths(cfg, seen)

\* reconcile_processes while strict protection is on: block what runs now
ReconcileStrict(t, cfg) ==
  /\ pc[t] = "idle"
  /\ lock = NoThread
  /\ RefreshDue(cfg)
  /\ \/ StrictInstalled(cfg, {}) /\ lastError' = TRUE /\ Go(t, "ok")
     \/ StrictRefused(cfg) /\ UNCHANGED lastError /\ Go(t, "err")
  /\ UNCHANGED <<running, desired, restartNeeded, directOnly, child, reach, fp,
                 lock, arg, environment, history>>

\* ... or, when the fingerprint differs, the policy rules of the processes
\* that the caller saw
ReconcilePolicy(t, cfg, seen) ==
  /\ pc[t] = "idle"
  /\ lock = NoThread
  /\ PolicyDue(cfg, seen)
  /\ \/ /\ Reconciled(PolicyRules(cfg, seen), {}) /\ fp' = RulePaths(cfg, seen)
        /\ Go(t, "ok")
        /\ UNCHANGED <<strictReq, failClosed, lastError>>
     \/ /\ cfg.strict
        /\ \E gone \in SUBSET Unrecorded(PolicyRules(cfg, seen)) : StrictInstalled(cfg, gone)
        /\ lastError' = TRUE
        /\ Go(t, "ok")
        /\ UNCHANGED fp
     \/ /\ strictReq' = cfg.strict
        /\ RolledBack(PolicyRules(cfg, seen) \union IF cfg.strict THEN BlockRules(cfg) ELSE {})
        /\ Go(t, "err")
        /\ UNCHANGED <<fp, failClosed, lastError>>
  /\ UNCHANGED <<running, desired, restartNeeded, directOnly, child, reach,
                 lock, arg, environment, history>>

\* the caller goes on
Return(t) ==
  /\ pc[t] \in {"ok", "err"}
  /\ Go(t, "idle")
  /\ UNCHANGED <<flags, plane, lock, arg, environment, history>>

-----------------------------------------------------------------------------
(* Environment *)

ChildExits ==
  /\ child = "alive"
  /\ child' = "dead"
  /\ UNCHANGED <<flags, reach, fp, firewall, control, environment, history>>

EndpointChanges ==
  /\ up' = ~up
  /\ UNCHANGED <<flags, plane, control, apps, history>>

ProcessesChange ==
  /\ apps' = ~apps
  /\ UNCHANGED <<flags, plane, control, up, history>>

\* the steps of a call of thread t that is under way
Step(t) ==
  \/ ApplyBegin(t)
  \/ BuildPaused(t)
  \/ BuildFails(t)
  \/ BuildNoProxies(t)
  \/ BuildProxies(t)
  \/ SpawnChild(t)
  \/ ProbeReachable(t)
  \/ ProbeUnreachable(t)
  \/ Harden(t)
  \/ HardenFails(t)
  \/ FailClosed(t)
  \/ Recover(t)
  \/ Finish(t)
  \/ ClearRestart(t)
  \/ StopFinish(t)

Environment == ChildExits \/ EndpointChanges \/ ProcessesChange

\* any thread may make any call with any configuration
Next ==
  \/ \E t \in Threads : Step(t)
  \/ \E t \in Threads, cfg \in Configs : Start(t, cfg)
  \/ \E t \in Threads, cfg \in Configs : Reload(t, cfg)
  \/ \E t \in Threads, cfg \in Configs : MaintainRestart(t, cfg)
  \/ \E t \in Threads, cfg \in Configs : MaintainProbe(t, cfg)
  \/ \E t \in Threads, cfg \in Configs : ReconcileStrict(t, cfg)
  \/ \E t \in Threads, cfg \in Configs, seen \in BOOLEAN : ReconcilePolicy(t, cfg, seen)
  \/ \E t \in Threads : StopBegin(t)
  \/ \E t \in Threads : Return(t)
  \/ Status
  \/ Environment

Spec == Init /\ [][Next]_vars

-----------------------------------------------------------------------------
(* Properties *)

LockFree == lock = NoThread

\* firewall_transaction_lock is held exactly between its acquisition and the
\* end of the call
LockDiscipline == \A t \in Threads : lock = t <=> pc[t] \in Locked

\* start and stop never overlap: a thread in stop has cleared running
StopIsDown == \A t \in Threads : pc[t] = "stopping" => ~running

\* who holds the lock applies the configuration last begun
HolderApplies == \A t \in Threads : lock = t => arg[t] = applied

\* every rule in force is recorded, or a cleanup failed to remove it
Accounted ==
  /\ fw = installed \union leftover
  /\ installed \intersect leftover = {}

\* a block rule is in force, not one that a cleanup failed to remove
Blocked == \E p \in Paths : <<"block", p>> \in fw \ leftover

\* an apply starts open and is fail-closed only once it has blocked something
BlockedWhenClosed ==
  /\ failClosed => Blocked
  /\ \A t \in Threads :
       pc[t] \in {"build", "spawn", "probe", "harden", "failClosed", "recover"} =>
         ~failClosed

\* after the last stop nothing runs, and no apply is under way
Quiet ==
  ~running /\ ~lateApply /\ (\A t \in Threads : pc[t] # "stopping") =>
    LockFree /\ child = "none" /\ fw \subseteq leftover /\ ~failClosed

\* the endpoint was reachable when the child was started; if the child has
\* died since, a restart is due
Proxied == reach = "up" /\ (child # "none" \/ restartNeeded)

\* how far an apply that holds the lock has got towards strict protection
ProtectedAt(t) ==
  /\ pc[t] = "spawn" => arg[t].plan = "proxies"
  /\ pc[t] = "probe" => arg[t].plan = "proxies" /\ (child # "none" \/ restartNeeded)
  /\ pc[t] = "harden" => arg[t].plan = "direct" \/ Proxied
  /\ pc[t] \in {"finish", "clear"} /\ NeedsProtection(applied) => strictReq \/ Proxied

Protecting ==
  /\ \A t \in Threads : ProtectedAt(t)
  /\ LockFree /\ running /\ NeedsProtection(applied) /\ ~lostRestart =>
       strictReq \/ restartNeeded \/ (reach = "up" /\ child # "none")

\* the phase status computes
Phase ==
  CASE ~running -> "Stopped"
    [] running /\ ~desired -> "Paused"
    [] running /\ desired /\ lastError -> "Degraded"
    [] running /\ desired /\ ~lastError ->
         IF directOnly \/ child # "none" THEN "Running" ELSE "Starting"

\* the traffic of the rules goes where they say
ProxyUp == child # "none" /\ reach = "up"
PlaneUp == directOnly \/ ProxyUp

\* block rules belong to strict protection, or to the restart that is due
Owning ==
  /\ LockFree /\ Blocked => strictReq \/ restartNeeded
  /\ \A t \in Threads :
       /\ pc[t] = "harden" => ~Blocked
       /\ pc[t] \in {"finish", "clear"} /\ Blocked => strictReq

\* a child without an error to report has a reachable endpoint
Honest == ~lastError /\ child # "none" /\ ~directOnly => reach = "up" /\ ~Blocked

Truthful ==
  /\ LockFree => Honest
  /\ \A t \in Threads :
       /\ pc[t] = "harden" => directOnly \/ reach = "up"
       /\ pc[t] \in {"finish", "clear"} => Honest

\* the rules the fingerprint stands for are installed
Enforcing ==
  applied.policy /\ PlaneUp /\ ~strictReq => fp # NoPrint /\ {"policy"} \X fp \subseteq fw \intersect installed

Enforced ==
  /\ LockFree /\ ~restartNeeded => Enforcing
  /\ \A t \in Threads :
       /\ pc[t] \in {"build", "spawn", "probe"} => ~directOnly
       /\ pc[t] \in {"finish", "clear"} => Enforcing

\* Every call leaves firewall_transaction_lock as it found it, only one
\* configuration is being applied, and each step of it hands on what the
\* safety properties below need: Inv is preserved by every step.
Inv ==
  /\ TypeOK
  /\ LockDiscipline /\ StopIsDown /\ HolderApplies
  /\ Accounted
  /\ BlockedWhenClosed
  /\ Quiet
  /\ Protecting
  /\ Owning /\ Truthful /\ Enforced

\* Strict never widens to a direct connection that nobody repairs: between
\* calls, the last configuration being strict, either ProxiFyre was started
\* with its endpoint reachable, or a restart is due, or the programs are kept
\* blocked by every reconcile_processes.  ClearRestart can break it (see
\* StrictNeverAbandoned).
StrictProtected ==
  LockFree /\ running /\ NeedsProtection(applied) /\ ~lostRestart =>
    ProxyUp \/ restartNeeded \/ strictReq

\* the same without the reservation
StrictNeverAbandoned ==
  LockFree /\ running /\ NeedsProtection(applied) =>
    ProxyUp \/ restartNeeded \/ strictReq

\* No program stays blocked without anybody to lift the block: block rules
\* outlive a call only if reconciliation owns them or a restart is due.  The
\* exception is a rule that a failed cleanup left: remove_firewall_rules only
\* logs the failure, and nobody owns such a rule before the next cleanup.
BlockIsOwned ==
  LockFree /\ running /\ Blocked =>
    strictReq \/ restartNeeded

\* fail_closed_active, as status reports it, is true only with block rules, and
\* not with those alone that a failed cleanup left.  This holds of runs where
\* netsh deletes stale rules when asked: after one refused deletion a later
\* reconciliation may answer Ok without the rule (OkMeansInForce,
\* FirewallRules).
FailClosedIsReal ==
  LockFree /\ failClosed => Blocked

\* Phase Running of a proxied configuration means proxied traffic: the
\* endpoint was reachable when the child was started, and nothing is blocked.
\* Only a block rule that a failed cleanup left is not noticed: the step from
\* fail-closed back to a reachable endpoint logs the failure and goes on.
RunningIsTruthful ==
  LockFree /\ Phase = "Running" /\ ~directOnly =>
    reach = "up" /\ ~failClosed /\ ~Blocked

\* The cached fingerprint never claims policy rules that are not there: with
\* it, reconcile_processes would skip their reinstallation for good.
PolicyInForce ==
  LockFree /\ running /\ applied.policy /\ PlaneUp /\ ~strictReq /\ ~restartNeeded =>
    fp # NoPrint /\ {"policy"} \X fp \subseteq fw

\* After stop nothing of the data plane is left but rules that the cleanup
\* failed to remove (stop logs that and answers Ok), unless a reload that had
\* read running before stop cleared it was still waiting for the lock.
QuietAfterStop ==
  LockFree /\ ~running /\ (\A t \in Threads : pc[t] # "stopping") /\ ~lateApply =>
    child = "none" /\ fw \subseteq leftover /\ ~failClosed
=============================================================================
