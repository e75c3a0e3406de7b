--------------------------- MODULE NetworkRepair ----------------------------
(***************************************************************************)
(* The repair of the machine's network: diagnosis, plan, recovery point,   *)
(* actions and rollback (core/network/repair.rs and snapshot.rs, with      *)
(* their handlers in core/api/mod.rs).  The requests take no lock: repairs,*)
(* snapshots and rollbacks of several clients interleave with each other,  *)
(* with the user's own changes and with a crash of the service.            *)
(*                                                                         *)
(* A directory without a manifest, left by a snapshot that failed or was   *)
(* cut off, is read by nothing but a rollback that names it, and its name  *)
(* was given to nobody: it is not part of the state.                       *)
(***************************************************************************)
EXTENDS NetworkDiagnosis, Sequences

CONSTANTS
  Handlers,        \* requests under way at the same time
  Settings,        \* what the machine is set to: [on, addr, http, bypass, hosts];
                   \* addr stands for WinINET's server, bypass list and PAC
                   \* address, bypass is the bypass list of WinHTTP's server
  Found,           \* those of them the service may start with
  Nothing,
  MaxRegistered,   \* MAX_REGISTERED_REPAIR_PLANS
  MaxPoints,            \* MAX_SNAPSHOTS_RETAINED
  MaxPlans,        \* plans,
  MaxRequests,     \* repairs, snapshots and rollbacks, and
  MaxChanges       \* changes by the user and values misread in a behaviour

VARIABLES
  live,      \* the machine's settings
  points,    \* complete recovery points, oldest first: [id, saved]
  made,      \* recovery points made
  latest,    \* the last recorded diagnosis, as what it recommends, or Nothing
  plans,     \* registered plans: [id, actions]
  issued,    \* plans issued
  jobs,      \* what each handler does
  asked, altered,   \* requests, and changes and misreadings, so far
  orig,      \* the proxies the user had when the present repairs began, or
             \* Nothing after a change they raced with or a snapshot that
             \* could not read a value of them (history)
  since      \* recovery points made since then (history)

nvars == <<live, points, made, latest, plans, issued, jobs, asked, altered, orig, since>>

Request(does, at, todo, saved, id) ==
  [does |-> does, at |-> at, todo |-> todo, saved |-> saved, id |-> id,
   ok |-> TRUE, touched |-> FALSE]

Idle == Request("idle", "idle", <<>>, Nothing, 0)

\* The proxies a recovery point has room for: WinhttpSnapshotData is the server
\* alone, and the bypass list of WinHTTP is in no point.
ProxySettings(s) == <<s.on, s.addr, s.http>>

Listed == {points[i].id : i \in 1..Len(points)}

----------------------------------------------------------------------------
(* Diagnosis and plan.                                                       *)

Healthy(on, server) ==
  [powershell |-> {"lan"}, ipconfig |-> {"lan"}, netroutes |-> 1, printed |-> 1,
   onlink |-> FALSE, ping |-> TRUE, arp |-> TRUE, answered |-> 5, resolved |-> 3,
   ncsi |-> "token", on |-> on, server |-> server, accepts |-> TRUE,
   tunnels |-> TRUE, entries |-> 8, loopbacks |-> 0, phase |-> "running"]

\* What can be out of order, layer by layer, and what it shows.
Faults == {"lost", "apipa", "silent", "onlink", "noroute", "cut", "nodns", "somedns",
           "dead", "slow", "portal", "catalog", "redirects", "degraded"}

Observed(o, fault) ==
  CASE fault = "lost"      -> [o EXCEPT !.powershell = {}, !.ipconfig = {"bare"}]
    [] fault = "apipa"     -> [o EXCEPT !.powershell = {"lan", "apipa"}]
    [] fault = "silent"    -> [o EXCEPT !.ping = FALSE, !.arp = FALSE]
    [] fault = "onlink"    -> [o EXCEPT !.onlink = TRUE, !.netroutes = 2]
    [] fault = "noroute"   -> [o EXCEPT !.netroutes = 0, !.printed = 0]
    [] fault = "cut"       -> [o EXCEPT !.answered = 0, !.resolved = 0]
    [] fault = "nodns"     -> [o EXCEPT !.resolved = 0, !.ncsi = "none"]
    [] fault = "somedns"   -> [o EXCEPT !.resolved = 2]
    [] fault = "dead"      -> [o EXCEPT !.accepts = FALSE, !.tunnels = FALSE]
    [] fault = "slow"      -> [o EXCEPT !.accepts = FALSE]
    [] fault = "portal"    -> [o EXCEPT !.ncsi = "redirect"]
    [] fault = "catalog"   -> [o EXCEPT !.entries = 0]
    [] fault = "redirects" -> [o EXCEPT !.loopbacks = 1]
    [] fault = "degraded"  -> [o EXCEPT !.phase = "degraded"]

\* The actions that change a setting of the user's.  A repair of nothing else
\* is, as far as settings and recovery points go, a snapshot.
Resets == {"reset_system_proxy", "reset_winhttp"}

\* run_diagnostics: every layer in order, or one fault; what matters of it
\* afterwards are the resets it recommends.
Diagnosed ==
  LET sound == Healthy(live.on, live.addr # Nothing)
  IN  {Resets \cap Recommended(Issues(o)) : o \in {sound} \cup {Observed(sound, f) : f \in Faults}}

\* run_network_diagnose records its diagnosis.
Diagnose ==
  /\ latest' \in Diagnosed
  /\ UNCHANGED <<live, points, made, plans, issued, jobs, orig, since, asked, altered>>

\* get_network_repair_plan: of the latest diagnosis however old, or of a fresh
\* one that is not recorded.  A full registry is emptied.
GetPlan ==
  /\ issued < MaxPlans
  /\ \E advice \in (IF latest = Nothing THEN Diagnosed ELSE {latest}) :
       plans' = (IF Cardinality(plans) >= MaxRegistered THEN {} ELSE plans)
                  \cup {[id |-> issued + 1, actions |-> advice]}
  /\ issued' = issued + 1
  /\ UNCHANGED <<live, points, made, latest, jobs, orig, since, asked, altered>>

----------------------------------------------------------------------------
(* Requests.                                                                 *)

Free(h) == jobs[h].at = "idle"

Asks(h) == Free(h) /\ asked < MaxRequests /\ asked' = asked + 1 /\ UNCHANGED altered

Quiet == \A h \in Handlers : Free(h)

\* The selections of a client: one or two recommended actions in any order.
Selections(actions) ==
  {<<a>> : a \in actions} \cup {s \in actions \X actions : s[1] # s[2]}

\* execute_actions: a plan is taken out of the registry under its lock.
RequestRepair(h) ==
  /\ Asks(h)
  /\ \E plan \in plans : \E todo \in Selections(plan.actions) :
       /\ plans' = plans \ {plan}
       /\ jobs' = [jobs EXCEPT ![h] = Request("repair", "capture", todo, Nothing, 0)]
  /\ IF Quiet /\ orig = Nothing THEN orig' = ProxySettings(live) /\ since' = 0
                             ELSE UNCHANGED <<orig, since>>
  /\ UNCHANGED <<live, points, made, latest, issued>>

\* No action, one twice, or one that was not recommended: refused, and the
\* plan is used up.
RefuseRepair(h) ==
  /\ Asks(h)
  /\ \E plan \in plans : plans' = plans \ {plan}
  /\ UNCHANGED <<live, points, made, latest, issued, jobs, orig, since>>

RequestSnapshot(h) ==
  /\ Asks(h)
  /\ jobs' = [jobs EXCEPT ![h] = Request("snapshot", "capture", <<>>, Nothing, 0)]
  /\ UNCHANGED <<live, points, made, latest, plans, issued, orig, since>>

\* rollback; an unknown identifier is refused.
RequestRollback(h) ==
  /\ Asks(h)
  /\ \E i \in 1..Len(points) :
       jobs' = [jobs EXCEPT ![h] = Request("rollback", "wininet", <<>>, points[i].saved, points[i].id)]
  /\ orig' = Nothing
  /\ UNCHANGED <<live, points, made, latest, plans, issued, since>>

----------------------------------------------------------------------------
(* create_snapshot.                                                          *)

\* What check_proxy makes of the settings s: of WinHTTP the server and not its
\* bypass list, and a value of WinINET's key that cannot be read is taken for
\* one that is not there.
Captured(s) ==
  {[s EXCEPT !.on = on, !.addr = addr, !.bypass = Nothing] :
     on \in {s.on, FALSE}, addr \in {s.addr, Nothing}}

\* check_proxy reads WinINET and WinHTTP and then waits for its probes.
Capture(h) ==
  /\ jobs[h].at = "capture"
  /\ \E saved \in Captured(live) :
       /\ jobs' = [jobs EXCEPT ![h].at = "write", ![h].saved = saved]
       /\ IF saved.on = live.on /\ saved.addr = live.addr THEN UNCHANGED <<orig, altered>>
          ELSE orig' = Nothing /\ altered < MaxChanges /\ altered' = altered + 1
  /\ UNCHANGED <<live, points, made, latest, plans, issued, since, asked>>

\* A snapshot that cannot open WinINET's key, make sense of WinHTTP's answer or
\* write its files fails and the repair with it; the pipe's deadline drops a
\* request that waits for probes.
Dropped(h) ==
  /\ jobs[h].at \in {"capture", "write"}
  /\ jobs' = [jobs EXCEPT ![h] = Idle]
  /\ UNCHANGED <<live, points, made, latest, plans, issued, orig, since, asked, altered>>

\* The deadline during the actions: the one that runs is not interrupted.
CutShort(h) ==
  /\ jobs[h].at = "act" /\ Len(jobs[h].todo) > 1
  /\ jobs' = [jobs EXCEPT ![h].todo = <<Head(@)>>]
  /\ UNCHANGED <<live, points, made, latest, plans, issued, orig, since, asked, altered>>

\* Mutant: sorted the other way round, the oldest stay.
RetainedOldest(all) == IF Len(all) > MaxPoints THEN SubSeq(all, 1, MaxPoints) ELSE all

\* cleanup_old_snapshots: the newest MaxPoints of those that have a manifest stay.
Retained(all) == IF Len(all) > MaxPoints THEN SubSeq(all, Len(all) - MaxPoints + 1, Len(all)) ELSE all

\* The files, hosts as it is now and if it can be read, the manifest last;
\* then the retention.
Store(h) ==
  /\ jobs[h].at = "write"
  /\ \E hosts \in {live.hosts, Nothing} :
       /\ points' = Retained(Append(points, [id    |-> made + 1,
                                             saved |-> [jobs[h].saved EXCEPT !.hosts = hosts]]))
       /\ IF hosts = live.hosts THEN UNCHANGED altered
          ELSE altered < MaxChanges /\ altered' = altered + 1
  /\ made' = made + 1
  /\ since' = IF since <= MaxPoints THEN since + 1 ELSE since
  /\ jobs' = [jobs EXCEPT ![h] = IF jobs[h].does = "repair" THEN [jobs[h] EXCEPT !.at = "act"]
                                 ELSE Idle]
  /\ UNCHANGED <<live, latest, plans, issued, orig, asked>>

----------------------------------------------------------------------------
(* The actions of a repair.                                                  *)

\* Rollbacks under way that a change by another request interferes with.
Disturbed(h) ==
  [g \in Handlers |-> IF g # h /\ jobs[g].does = "rollback"
                      THEN [jobs[g] EXCEPT !.touched = TRUE] ELSE jobs[g]]

\* run_single_action: the switch only, and netsh's reset, which takes the bypass
\* list with the server.
Effect(s, action) ==
  CASE action = "reset_system_proxy" -> [s EXCEPT !.on = FALSE]
    [] action = "reset_winhttp"      -> [s EXCEPT !.http = Nothing, !.bypass = Nothing]

\* One action; a failure is reported, and the next one runs all the same.
Act(h) ==
  /\ jobs[h].at = "act"
  /\ live' \in {Effect(live, Head(jobs[h].todo)), live}
  /\ jobs' = [Disturbed(h) EXCEPT
                ![h] = IF Len(jobs[h].todo) = 1 THEN Idle
                       ELSE [jobs[h] EXCEPT !.todo = Tail(@)]]
  /\ UNCHANGED <<points, made, latest, plans, issued, orig, since, asked, altered>>

----------------------------------------------------------------------------
(* rollback.                                                                 *)

\* Mutant: an address the recovery point does not have is left as it is.
RestoredPresent(s, saved) ==
  {<<[s EXCEPT !.on = saved.on, !.addr = IF saved.addr = Nothing THEN @ ELSE saved.addr], TRUE>>,
   <<[s EXCEPT !.on = saved.on], FALSE>>, <<s, FALSE>>}

\* restore_wininet: the switch, then the addresses (an absent one is written
\* as an empty value, which reads as absent); an error stops it.
RestoredWininet(s, saved) ==
  {<<[s EXCEPT !.on = saved.on, !.addr = saved.addr], TRUE>>,
   <<[s EXCEPT !.on = saved.on], FALSE>>, <<s, FALSE>>}

RestoreWininet(h) ==
  /\ jobs[h].at = "wininet"
  /\ \E result \in (IF jobs[h].id \in Listed THEN RestoredWininet(live, jobs[h].saved)
                    ELSE {<<live, TRUE>>}) :
       /\ live' = result[1]
       /\ jobs' = [Disturbed(h) EXCEPT ![h].at = "winhttp", ![h].ok = result[2]]
  /\ UNCHANGED <<points, made, latest, plans, issued, orig, since, asked, altered>>

\* restore_winhttp, by one netsh command that sets the server and clears the
\* bypass list; without the file nothing is attempted and the rollback has
\* failed.
RestoreWinhttp(h) ==
  /\ jobs[h].at = "winhttp"
  /\ \E restored \in (IF jobs[h].id \in Listed THEN BOOLEAN ELSE {FALSE}) :
       /\ live' = IF restored THEN [live EXCEPT !.http = jobs[h].saved.http, !.bypass = Nothing]
                  ELSE live
       /\ jobs' = [Disturbed(h) EXCEPT ![h].at = "hosts", ![h].ok = @ /\ restored]
  /\ UNCHANGED <<points, made, latest, plans, issued, orig, since, asked, altered>>

\* The hosts file, if the point has one.
RestoreHosts(h) ==
  /\ jobs[h].at = "hosts"
  /\ \E copied \in (IF jobs[h].id \in Listed /\ jobs[h].saved.hosts # Nothing
                    THEN BOOLEAN ELSE {TRUE}) :
       /\ live' = IF jobs[h].id \in Listed /\ jobs[h].saved.hosts # Nothing /\ copied
                  THEN [live EXCEPT !.hosts = jobs[h].saved.hosts] ELSE live
       /\ jobs' = [Disturbed(h) EXCEPT ![h].at = "report", ![h].ok = @ /\ copied]
  /\ UNCHANGED <<points, made, latest, plans, issued, orig, since, asked, altered>>

\* The report goes to the client.
Report(h) ==
  /\ jobs[h].at = "report"
  /\ jobs' = [jobs EXCEPT ![h] = Idle]
  /\ UNCHANGED <<live, points, made, latest, plans, issued, orig, since, asked, altered>>

----------------------------------------------------------------------------
(* The world.                                                                *)

\* The user, or another program, changes the machine's settings.
Change ==
  /\ altered < MaxChanges /\ altered' = altered + 1
  /\ live' \in Settings \ {live}
  /\ jobs' = [h \in Handlers |-> IF jobs[h].does = "rollback"
                                 THEN [jobs[h] EXCEPT !.touched = TRUE] ELSE jobs[h]]
  /\ orig' = Nothing
  /\ UNCHANGED <<points, made, latest, plans, issued, asked, since>>

\* Diagnoses and plans are kept in memory only.
ServiceCrash ==
  /\ jobs' = [h \in Handlers |-> Idle]
  /\ latest' = Nothing
  /\ plans' = {}
  /\ UNCHANGED <<live, points, made, issued, orig, since, asked, altered>>

Requests(h) == RequestRepair(h) \/ RefuseRepair(h) \/ RequestSnapshot(h) \/ RequestRollback(h)

Works(h) ==
  \/ Capture(h) \/ Dropped(h) \/ CutShort(h) \/ Store(h) \/ Act(h)
  \/ RestoreWininet(h) \/ RestoreWinhttp(h) \/ RestoreHosts(h) \/ Report(h)

NInit ==
  /\ live \in Found
  /\ points = <<>> /\ made = 0
  /\ latest = Nothing /\ plans = {} /\ issued = 0
  /\ jobs = [h \in Handlers |-> Idle]
  /\ asked = 0 /\ altered = 0
  /\ orig = Nothing /\ since = 0

NNext ==
  \/ Diagnose \/ GetPlan \/ Change \/ ServiceCrash
  \/ \E h \in Handlers : Requests(h) \/ Works(h)

NSpec == NInit /\ [][NNext]_nvars

----------------------------------------------------------------------------
(* The inductive invariant.                                                  *)

Values == {Nothing} \cup UNION {{s.addr, s.http, s.bypass, s.hosts} : s \in Settings}

Machine == [on : BOOLEAN, addr : Values, http : Values, bypass : Values, hosts : Values]

\* What a user, and the service's first start, may find is a machine's setting.
ASSUME SettingsAssumption == Found \subseteq Settings /\ Settings \subseteq Machine /\ MaxPoints \in Nat

Restores == {"wininet", "winhttp", "hosts", "report"}

Job == [does : {"idle", "repair", "snapshot", "rollback"},
        at : {"idle", "capture", "write", "act"} \cup Restores,
        todo : Seq(Resets), saved : Machine \cup {Nothing}, id : Nat,
        ok : BOOLEAN, touched : BOOLEAN]

NTypeOK ==
  /\ live \in Machine
  /\ points \in Seq([id : Nat, saved : Machine])
  /\ made \in Nat /\ since \in Nat
  /\ latest \in {Nothing} \cup SUBSET Resets
  /\ plans \subseteq [id : Nat, actions : SUBSET Resets] /\ issued \in Nat
  /\ jobs \in [Handlers -> Job]

\* What a request has at each of its steps.
JobOK(j) ==
  /\ j.at \in Restores => j.does = "rollback"
  /\ j.at = "act" => j.does = "repair"
  /\ j.does = "repair" => j.todo # <<>>
  /\ j.at \in {"write"} \cup Restores => j.saved \in Machine
  /\ j.id <= made

\* At most the retained number of points, none from the future: an identifier
\* that is not listed any more is never listed again.
Numbered ==
  /\ Len(points) <= MaxPoints
  /\ \A i \in 1..Len(points) : points[i].id <= made

\* One of the points made since the present repairs began has the proxies the
\* user had.
Recoverable ==
  \E i \in 1..Len(points) : i > Len(points) - since /\ ProxySettings(points[i].saved) = orig

\* While what the user had is known and not retired: no rollback is under way,
\* and before a point has it, nothing has touched it and every snapshot that
\* is being written has it.
Guarded ==
  orig # Nothing =>
    /\ \A h \in Handlers : jobs[h].at \notin Restores
    /\ since <= MaxPoints =>
         \/ Recoverable
         \/ /\ ProxySettings(live) = orig
            /\ \A h \in Handlers :
                 /\ jobs[h].at # "act"
                 /\ jobs[h].at = "write" => ProxySettings(jobs[h].saved) = orig

\* How far an undisturbed rollback without an error has got.
RestoredSoFar(j) ==
  j.ok /\ ~j.touched =>
    /\ j.at = "winhttp" /\ j.id \in Listed => live.on = j.saved.on /\ live.addr = j.saved.addr
    /\ j.at \in {"hosts", "report"} => ProxySettings(live) = ProxySettings(j.saved)
    /\ j.at = "report" /\ j.id \in Listed /\ j.saved.hosts # Nothing => live.hosts = j.saved.hosts

NInv ==
  /\ NTypeOK
  /\ \A h \in Handlers : JobOK(jobs[h])
  /\ Numbered
  /\ Guarded
  /\ \A h \in Handlers : RestoredSoFar(jobs[h])

----------------------------------------------------------------------------
(* Properties.                                                               *)

\* What the repairs have taken from the user of the proxies a recovery point
\* has room for can be got back: whatever repairs, snapshots and crashes came
\* since, unless somebody else changed the settings or a snapshot misread them
\* meanwhile, either these proxies are still the user's own or one of the
\* recovery points the service lists holds them, until as many newer ones were
\* made as the service retains.  Nothing is said of WinHTTP's bypass list,
\* which a repair clears and no point holds.  ("Fail closed: no repair may run
\* unless its recovery point exists", repair.rs:265; cleanup_old_snapshots,
\* WinhttpSnapshotData.)
UserSettingsRecoverable ==
  orig # Nothing /\ since <= MaxPoints =>
    \/ ProxySettings(live) = orig
    \/ \E i \in 1..Len(points) : ProxySettings(points[i].saved) = orig

\* A rollback that reports success while nobody else changed the settings has
\* brought back every proxy setting its recovery point has, and the hosts file
\* the point has, unless the point was retired during the rollback
\* (SnapshotManager::rollback, restore_wininet, restore_winhttp).
RollbackRestores ==
  \A h \in Handlers :
    jobs[h].at = "report" /\ jobs[h].ok /\ ~jobs[h].touched =>
      /\ ProxySettings(live) = ProxySettings(jobs[h].saved)
      /\ jobs[h].id \in Listed /\ jobs[h].saved.hosts # Nothing =>
           live.hosts = jobs[h].saved.hosts
=============================================================================
