---------------------------- MODULE ProxyHealth -----------------------------
(***************************************************************************)
(* The proxy health supervisor (core/health.rs) and its SOCKS5 probe       *)
(* (core/proxy_test.rs).  A tick takes a snapshot of the configuration,    *)
(* probes its endpoints concurrently and records each result under the     *)
(* proxy's identifier when it arrives; meanwhile transactions reset the    *)
(* health of changed proxies and then publish them (core/state.rs).        *)
(***************************************************************************)
EXTENDS Integers, FiniteSets

CONSTANTS
  Proxies,       \* identifiers
  Profiles,      \* [kind, enabled, user, server]: what a proxy may be set to;
                 \* user is "none", "right" or "wrong" for that server
  Absent,        \* no such proxy, no entry
  Changes,       \* transactions of one behaviour
  Servers        \* what a server may do: "down", "mute" (accepts and does not
                 \* answer), "foreign" (another protocol), "open", "locked"
                 \* (asks for a password), "tcponly" (open, without UDP)

VARIABLES
  proxies,     \* the published configuration
  pending,     \* the configuration of a transaction between reset and publish
  health,      \* CoreState::proxy_health
  server,      \* what the server at a proxy's endpoint does now
  tick,        \* "idle", "read" (snapshot taken) or "probing"
  snapshot,    \* the proxies of the snapshot that are probed
  tasks,       \* probes under way
  changes,
  settled      \* no transaction since the tick under way, or the last one, began (history)

hvars == <<proxies, pending, health, server, tick, snapshot, tasks, changes, settled>>

Failing == {"offline", "auth_failed"}

----------------------------------------------------------------------------
(* test_proxy: one SOCKS5 exchange, and the state its outcome stands for.    *)

\* Greeting and authentication; the error's wording decides its class.
Negotiated(profile, s) ==
  CASE s = "down" -> "offline"
    [] s \in {"mute", "foreign"} -> "protocol_error"
    [] s = "locked" -> IF profile.user = "none" THEN "auth_failed"
                       ELSE IF profile.user = "right" THEN "ok" ELSE "auth_failed"
    [] OTHER -> "ok"

\* UDP ASSOCIATE on the same connection, TCP CONNECT on another one.
Candidate(profile, s) ==
  IF profile.kind # "socks5" THEN "offline"
  ELSE IF Negotiated(profile, s) # "ok" THEN Negotiated(profile, s)
  ELSE IF s = "tcponly" THEN "degraded" ELSE "healthy"

Successful(candidate) == candidate \in {"degraded", "healthy"}

----------------------------------------------------------------------------
(* record_probe, record_probe_failure, stabilized_state.                     *)

Unknown == [state |-> "unknown", successes |-> 0, failures |-> 0, of |-> Absent]

\* Counters are used up to 2 only.
Bump(n) == IF n < 2 THEN n + 1 ELSE n

\* A recovered proxy is healthy, a healthy one offline, at the second probe.
Stabilized(previous, candidate, successes, failures) ==
  IF candidate = "healthy" /\ previous \in Failing /\ successes < 2 THEN "degraded"
  ELSE IF candidate \in Failing /\ previous = "healthy" /\ failures < 2 THEN "degraded"
  ELSE candidate

Entry(p) == IF health[p] = Absent THEN Unknown ELSE health[p]

\* ... mutant of Recorded that keeps the other counter.
RecordedCounting(p, candidate, profile) ==
  LET e == Entry(p)
      s == IF Successful(candidate) THEN Bump(e.successes) ELSE e.successes
      f == IF Successful(candidate) THEN e.failures ELSE Bump(e.failures)
  IN  [state |-> Stabilized(e.state, candidate, s, f), successes |-> s, failures |-> f,
       of |-> profile]

Recorded(p, candidate, profile) ==
  LET e == Entry(p)
      s == IF Successful(candidate) THEN Bump(e.successes) ELSE 0
      f == IF Successful(candidate) THEN 0 ELSE Bump(e.failures)
  IN  [state |-> Stabilized(e.state, candidate, s, f), successes |-> s, failures |-> f,
       of |-> profile]

----------------------------------------------------------------------------
(* The supervisor's tick.                                                   *)

Probed(cfg) == {p \in Proxies : cfg[p] # Absent /\ cfg[p].enabled /\ cfg[p].kind # "direct"}

TickRead ==
  /\ tick = "idle"
  /\ tick' = "read"
  /\ snapshot' = [p \in Proxies |-> IF p \in Probed(proxies) THEN proxies[p] ELSE Absent]
  /\ settled' = (pending = Absent)
  /\ UNCHANGED <<proxies, pending, health, server, tasks, changes>>

Checking(e) ==
  IF e = Absent THEN [Unknown EXCEPT !.state = "checking"]
  ELSE [e EXCEPT !.state = IF @ = "unknown" THEN "checking" ELSE @]

\* ... mutant of TickStart that forgets to drop the others.
TickStartRetaining ==
  /\ tick = "read"
  /\ tick' = "probing"
  /\ tasks' = Probed(snapshot)
  /\ health' = [p \in Proxies |-> IF p \in Probed(snapshot) THEN Checking(health[p]) ELSE health[p]]
  /\ UNCHANGED <<proxies, pending, server, snapshot, changes, settled>>

\* Entries of proxies not probed go, the others are marked, the tasks start.
TickStart ==
  /\ tick = "read"
  /\ tick' = "probing"
  /\ tasks' = Probed(snapshot)
  /\ health' = [p \in Proxies |-> IF p \in Probed(snapshot) THEN Checking(health[p]) ELSE Absent]
  /\ UNCHANGED <<proxies, pending, server, snapshot, changes, settled>>

\* A probe ends: its result, or a failed task, is recorded whatever has
\* become of the proxy.
Record(p) ==
  /\ p \in tasks
  /\ tasks' = tasks \ {p}
  /\ \E candidate \in {Candidate(snapshot[p], server[p]), "offline"} :
       health' = [health EXCEPT ![p] = Recorded(p, candidate, snapshot[p])]
  /\ UNCHANGED <<proxies, pending, server, tick, snapshot, changes, settled>>

\* All tasks are joined before the next tick.
TickEnd ==
  /\ tick = "probing" /\ tasks = {}
  /\ tick' = "idle" /\ snapshot' = [p \in Proxies |-> Absent]
  /\ UNCHANGED <<proxies, pending, health, server, tasks, changes, settled>>

----------------------------------------------------------------------------
(* A transaction: reset_changed_proxy_health, then the new configuration.    *)

\* Entries of disabled and deleted proxies go, changed ones start anew.
ResetHealth(cfg) ==
  health' = [p \in Proxies |->
               IF cfg[p] = Absent \/ ~cfg[p].enabled THEN Absent
               ELSE IF cfg[p] # proxies[p] THEN Unknown ELSE health[p]]

Reset ==
  /\ pending = Absent /\ changes > 0
  /\ \E p \in Proxies, profile \in Profiles \cup {Absent} :
       /\ profile # proxies[p]
       /\ pending' = [proxies EXCEPT ![p] = profile]
  /\ ResetHealth(pending')
  /\ changes' = changes - 1
  /\ settled' = FALSE
  /\ UNCHANGED <<proxies, server, tick, snapshot, tasks>>

\* The configuration is published; a server of its own is at the endpoint.
Publish ==
  /\ pending # Absent
  /\ proxies' = pending /\ pending' = Absent
  /\ \E s \in [Proxies -> Servers] :
       /\ \A p \in Proxies : pending[p] = proxies[p] => s[p] = server[p]
       /\ server' = s
  /\ UNCHANGED <<health, tick, snapshot, tasks, changes, settled>>

\* A server comes, goes, or changes what it does.
ServerChanges ==
  /\ \E p \in Proxies, s \in Servers \ {"mute", "foreign"} :
       server[p] # s /\ server' = [server EXCEPT ![p] = s]
  /\ UNCHANGED <<proxies, pending, health, tick, snapshot, tasks, changes, settled>>

HInit ==
  /\ proxies \in [Proxies -> Profiles]
  /\ pending = Absent
  /\ health = [p \in Proxies |-> Absent]
  /\ server \in [Proxies -> Servers]
  /\ tick = "idle" /\ snapshot = [p \in Proxies |-> Absent] /\ tasks = {}
  /\ changes = Changes
  /\ settled = FALSE

HNext ==
  \/ TickRead \/ TickStart \/ TickEnd
  \/ \E p \in Proxies : Record(p)
  \/ Reset \/ Publish \/ ServerChanges

HSpec == HInit /\ [][HNext]_hvars

----------------------------------------------------------------------------
(* The inductive invariant.                                                  *)

States == {"unknown", "checking", "offline", "auth_failed", "protocol_error", "degraded", "healthy"}

Entries == [state : States, successes : 0..2, failures : 0..2, of : Profiles \cup {Absent}]

Configurations == [Proxies -> Profiles \cup {Absent}]

\* What stands for no proxy, no entry and no transaction is none of them.
ASSUME AbsentAssumption == Absent \notin Profiles \cup Entries \cup Configurations

HTypeOK ==
  /\ proxies \in Configurations
  /\ pending \in Configurations \cup {Absent}
  /\ health \in [Proxies -> Entries \cup {Absent}]
  /\ snapshot \in Configurations
  /\ tick \in {"idle", "read", "probing"}
  /\ tasks \subseteq Proxies
  /\ settled \in BOOLEAN

\* Probes run for proxies of the snapshot, during the tick that took it.
ProbesOfSnapshot ==
  /\ tasks \subseteq Probed(snapshot)
  /\ tick # "probing" => tasks = {}

\* Counters of the runs that stabilized_state counts: a healthy proxy has no
\* failure behind it and a failed one no success.
RunsCounted ==
  \A p \in Proxies : health[p] # Absent =>
    /\ health[p].state = "healthy" => health[p].failures = 0
    /\ health[p].state \in Failing => health[p].successes = 0

\* While nothing changes, the snapshot is of the configuration published, and
\* a result is missing only where a probe is under way.
Settling ==
  settled =>
    /\ pending = Absent
    /\ tick # "idle" => \A p \in Proxies :
         snapshot[p] = IF p \in Probed(proxies) THEN proxies[p] ELSE Absent
    /\ tick # "read" => \A p \in Proxies :
         IF p \in Probed(proxies)
         THEN health[p] # Absent /\ (p \notin tasks => health[p].of = proxies[p])
         ELSE health[p] = Absent

HInv == HTypeOK /\ ProbesOfSnapshot /\ RunsCounted /\ Settling

----------------------------------------------------------------------------
(* Properties.                                                              *)

\* A result may arrive for a proxy that was changed or deleted meanwhile, and
\* is recorded for it; but not for long: after one tick without a change every
\* entry is a result of the endpoint now configured, and every endpoint that
\* is probed has one.
HealthSettles ==
  tick = "idle" /\ settled =>
    \A p \in Proxies : IF p \in Probed(proxies) THEN health[p] # Absent /\ health[p].of = proxies[p]
                       ELSE health[p] = Absent

\* One lost probe does not take a healthy proxy down and one lucky probe
\* does not bring a failed one up, however ticks and changes interleave.
HealthIsStable ==
  [][\A p \in Proxies :
       health[p] # Absent /\ health'[p] # Absent =>
         /\ health[p].state = "healthy" => health'[p].state \notin Failing
         /\ health[p].state \in Failing => health'[p].state # "healthy"]_hvars
=============================================================================
