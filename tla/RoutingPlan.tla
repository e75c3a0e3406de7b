---------------------------- MODULE RoutingPlan ----------------------------
(***************************************************************************)
(* What a rule list means, according to each part of Core that interprets  *)
(* it: the routing plan both engines are given (routing_plan.rs), the rule *)
(* a process is attributed to (process.rs), the simulations (api/mod.rs,   *)
(* policy/simulator.rs), the static analysis (policy/analysis.rs) and the  *)
(* rules generated for sing-box (engine/sing_box.rs).                      *)
(***************************************************************************)
EXTENDS Integers, Sequences, FiniteSets

CONSTANTS
  Programs,      \* [name, path]
  Destinations,  \* [domain, cidr, port]: the domain, the address and the port of a connection
  ExeNames,      \* the names that end in .exe
  RoutedIds

\* A configuration here is a record with the fields
\*   rules: a sequence of [id, sel, prio, act, on, dst, net, owner, key],
\*   proxies: for each identifier "socks", "direct", "off" or "none",
\*   engine, strict, on, and what RulePolicy adds.
\* A rule's sel is a set of selectors <<kind, value>>: the value of a "glob"
\* is the set of names it covers; a "barepid" names a process without its
\* creation time.  Its dst is a set of criteria <<kind, values>>, of which kind
\* is a field of destinations: the values of a "domain" or a "cidr" are what it
\* covers.  An empty dst or net is no restriction.

Traffic == [prog : Programs, dst : Destinations, net : {"tcp", "udp"}]

Rank == [pid |-> 0, barepid |-> 0, path |-> 1, name |-> 2, glob |-> 3]

\* rule_match_kind, for one selector.
Matches(s, p) ==
  \/ s[1] = "path" /\ s[2] = p.path
  \/ s[1] = "name" /\ s[2] = p.name
  \/ s[1] = "glob" /\ p.name \in s[2]
  \/ s[1] = "pid"  /\ s[2] = p

Least(S) == CHOOSE n \in S : \A m \in S : n <= m

\* rule_priority: the rule's most specific kind of selector.
KindRank(r) == Least({Rank[s[1]] : s \in r.sel})

\* rule_match_kind: the most specific kind by which it matches p.
MatchRank(r, p) == Least({Rank[s[1]] : s \in {s \in r.sel : Matches(s, p)}})

RuleMatches(r, p) == \E s \in r.sel : Matches(s, p)

Lex(a, b) == \E k \in DOMAIN a : a[k] < b[k] /\ \A m \in 1..(k - 1) : a[m] = b[m]

First(S, Key(_)) == CHOOSE i \in S : \A j \in S \ {i} : Lex(Key(i), Key(j))

Enabled(c) == {i \in DOMAIN c.rules : c.rules[i].on}

Dimensions == {"domain", "cidr", "port"}

Limits(r, kind) == {k \in r.dst : k[1] = kind}

Hits(r, kind, t) == \E k \in Limits(r, kind) : t.dst[kind] \in k[2]

----------------------------------------------------------------------------
(* compile_routing_plan.                                                     *)

\* normalized_protocols: DNS is not a protocol of the data plane.
Networks(r) == (IF r.net = {} THEN {"tcp", "udp"} ELSE r.net) \ {"dns"}

\* A rule whose proxy is disabled or missing gets an error and no route.
Skipped(c, i) ==
  LET a == c.rules[i].act IN a \in RoutedIds /\ c.proxies[a] \in {"off", "none"}

PlanKey(c, i) == <<-c.rules[i].prio, KindRank(c.rules[i]), i>>

\* rule_selectors; every process is present in the snapshot.
Selectors(r) == {s \in r.sel : s[1] # "barepid"}

Claims(c, j) == IF Skipped(c, j) \/ c.rules[j].dst # {} THEN {} ELSE Selectors(c.rules[j])

\* The selectors rule i has in the plan: those no earlier rule without a
\* destination claimed.  A rule without any is left out.
Planned(c, i) ==
  LET earlier == {j \in Enabled(c) : Lex(PlanKey(c, j), PlanKey(c, i))}
  IN  IF Skipped(c, i) THEN {}
      ELSE IF c.rules[i].dst # {} THEN Selectors(c.rules[i])
      ELSE Selectors(c.rules[i]) \ UNION {Claims(c, j) : j \in earlier}

PlanHas(c, i) == i \in Enabled(c) /\ Planned(c, i) # {}

\* The outbound of rule i's route: a Direct profile is a direct route.
Outbound(c, i) ==
  LET a == c.rules[i].act IN IF a \in RoutedIds /\ c.proxies[a] = "direct" THEN "direct" ELSE a

\* The errors of the plan, of which Strict refuses every one and Availability
\* downgrades those about what an engine cannot express.
Unsupported(c, i) ==
  LET r == c.rules[i]
  IN  \/ r.net = {"dns"}
      \/ c.engine = "proxifyre" /\ r.dst # {}

\* A process identifier is no selector without the creation time.
PidOnly(c, i) == \E s \in c.rules[i].sel : s[1] = "barepid"

Errors(c, i) ==
  \/ Skipped(c, i)
  \/ PidOnly(c, i)
  \/ c.strict /\ Unsupported(c, i)

----------------------------------------------------------------------------
(* What the engines accept (build_runtime_config, SingBoxEngine::apply).     *)

\* ... a mutant that reads only the errors a strict plan did not downgrade.
ProxifyreAcceptsSkipped(c) ==
  \A i \in Enabled(c) :
    LET r == c.rules[i]
    IN  /\ r.act # "block"
        /\ \A s \in r.sel : s[1] \notin {"pid", "barepid", "glob"}
        /\ c.strict => ~Unsupported(c, i) /\ r.dst = {} /\ {"tcp", "udp"} \subseteq (Networks(r))

ProxifyreAccepts(c) ==
  \A i \in Enabled(c) :
    LET r == c.rules[i]
    IN  /\ r.act # "block"
        /\ \A s \in r.sel : s[1] \notin {"pid", "barepid", "glob"}
        /\ c.strict => ~Errors(c, i) /\ r.dst = {} /\ {"tcp", "udp"} \subseteq Networks(r)

SingBoxAccepts(c) ==
  /\ \E i \in Enabled(c) : PlanHas(c, i)
  /\ \A i \in Enabled(c) : \A s \in Planned(c, i) : s[1] # "pid"
  /\ c.strict => \A i \in Enabled(c) : c.rules[i].net # {"dns"}

Accepts(c) ==
  \/ ~c.on
  \/ c.engine = "proxifyre" /\ ProxifyreAccepts(c)
  \/ c.engine = "sing_box" /\ SingBoxAccepts(c)

\* validate_clash_profile, when an engine is started for a new mode.
Starts(c) ==
  \/ \A i \in Enabled(c) : c.rules[i].act \notin RoutedIds
  \/ \E p \in RoutedIds : c.proxies[p] \in {"socks", "direct"}

----------------------------------------------------------------------------
(* build_sing_box_config: one generated rule for each planned selector, and  *)
(* the first that matches a connection decides.                              *)

\* ... a mutant of the order that forgets the kinds.
OrderKeyByPlace(c, i) == <<0, i>>

\* ordered_rule_ids.
OrderKey(c, i) == <<KindRank(c.rules[i]), i>>

\* A generated rule takes a connection to one of its domains or to one of its
\* addresses: sing-box reads domain, domain_suffix and ip_cidr as alternatives.
Admits(r, t) ==
  /\ \/ Limits(r, "domain") \cup Limits(r, "cidr") = {}
     \/ Hits(r, "domain", t) \/ Hits(r, "cidr", t)
  /\ Limits(r, "port") = {} \/ Hits(r, "port", t)
  /\ Networks(r) = {} \/ t.net \in Networks(r)

Generated(c, t) ==
  {i \in Enabled(c) : Admits(c.rules[i], t) /\ \E s \in Planned(c, i) : Matches(s, t.prog)}

SingBoxOutbound(c, t) ==
  LET Key(i) == OrderKey(c, i)
  IN  IF Generated(c, t) = {} THEN "direct" ELSE Outbound(c, First(Generated(c, t), Key))

----------------------------------------------------------------------------
(* evaluate_rules and simulate_rule: the rules that match the process, by    *)
(* priority, kind of match and place; the simulation takes the first that    *)
(* also matches the destination and is in the plan.                          *)

\* Every dimension the rule limits is hit.
DestinationMatches(r, t) == \A kind \in Dimensions : Limits(r, kind) = {} \/ Hits(r, kind, t)

Contenders(c, t) ==
  {i \in Enabled(c) :
     LET r == c.rules[i]
     IN  /\ RuleMatches(r, t.prog)
         /\ r.net = {} \/ t.net \in r.net
         /\ DestinationMatches(r, t)
         /\ PlanHas(c, i)}

EvaluatedOutbound(c, t) ==
  LET Key(i) == <<-c.rules[i].prio, MatchRank(c.rules[i], t.prog), i>>
  IN  IF Contenders(c, t) = {} THEN "direct" ELSE Outbound(c, First(Contenders(c, t), Key))

----------------------------------------------------------------------------
(* simulate_policy (the Studio): by priority and place only, plan or not,    *)
(* and a process identifier without its creation time is enough.             *)

CheckProcess(r, t) == \E s \in r.sel : Matches(s, t.prog) \/ s = <<"barepid", t.prog>>

CheckDestination(r, t) == \A kind \in Dimensions : Limits(r, kind) = {} \/ Hits(r, kind, t)

StudioMatches(r, t) ==
  CheckProcess(r, t) /\ (r.net = {} \/ t.net \in r.net) /\ CheckDestination(r, t)

StudioSelects(c, t, i) ==
  /\ i \in Enabled(c)
  /\ StudioMatches(c.rules[i], t)
  /\ \A j \in Enabled(c) \ {i} :
       StudioMatches(c.rules[j], t) => Lex(<<-c.rules[i].prio, i>>, <<-c.rules[j].prio, j>>)

----------------------------------------------------------------------------
(* analyze_policies: rule i is reported as never hit because of rule j.      *)

Of(r, kind) == {s \in r.sel : s[1] = kind}

Everything == {<<"glob", {p.name : p \in Programs}>>}

Executables == {<<"glob", ExeNames>>}

ScopeCovered(a, b) == a.net = {} \/ b.net \subseteq a.net

\* Where rule a names domains or ports, those of b are among them; but b need
\* not have any, and the addresses of neither are looked at.
DestinationCovered(a, b) ==
  \/ a.dst = {}
  \/ /\ b.dst # {}
     /\ Limits(a, "domain") # {} =>
          \A k \in Limits(b, "domain") : \E l \in Limits(a, "domain") : k[2] \subseteq l[2]
     /\ Limits(a, "port") # {} => Limits(b, "port") \subseteq Limits(a, "port")

ProcessCovered(a, b) ==
  LET listed == Of(b, "glob") = {} /\ Of(b, "pid") = {} /\ Of(b, "barepid") = {}
  IN  \/ Of(a, "glob") = Everything
      \/ Of(a, "glob") = Executables /\ listed /\ Of(b, "name") # {}
           /\ \A s \in Of(b, "name") : s[2] \in ExeNames
      \/ listed /\ \E kind \in {"name", "path"} : Of(b, kind) # {} /\ Of(b, kind) \subseteq Of(a, kind)

\* ... a mutant that forgets the priorities.
CoversAnyPriority(a, b) == ScopeCovered(a, b) /\ DestinationCovered(a, b) /\ ProcessCovered(a, b)

\* is_shadowing.
Covers(a, b) ==
  a.prio >= b.prio /\ ScopeCovered(a, b) /\ DestinationCovered(a, b) /\ ProcessCovered(a, b)

\* is_duplicate_rule, which does not compare creation times.
Duplicates(a, b) ==
  LET identified(r) == {IF s[1] = "barepid" THEN <<"pid", s[2]>> ELSE s : s \in r.sel}
  IN  a.act = b.act /\ a.net = b.net /\ a.dst = b.dst /\ identified(a) = identified(b)

Shadowed(c, i, j) ==
  /\ {i, j} \subseteq Enabled(c) /\ i # j
  /\ ~Duplicates(c.rules[i], c.rules[j])
  /\ \/ j < i /\ Covers(c.rules[j], c.rules[i])
     \/ /\ i < j /\ Covers(c.rules[j], c.rules[i]) /\ ~Covers(c.rules[i], c.rules[j])
        /\ c.rules[j].prio > c.rules[i].prio
=============================================================================
