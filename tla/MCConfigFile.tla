---------------------------- MODULE MCConfigFile ----------------------------
\* Documents an earlier version may have left and two that the API may save.
EXTENDS ConfigFile, FiniteSetsExt

CONSTANTS local, other, r1, p1

MCLabels == {local, other, r1, p1}
MCIds == {"clash-socks", "local-socks", "other"}

NoAction == [type |-> "proxy", id |-> NoProxy]
To(id) == [type |-> "proxy", id |-> id]

Rule(profile, action, dns) ==
  [name |-> r1, enabled |-> TRUE, profile |-> profile, action |-> action, dns |-> "inherit",
   forceDns |-> dns, children |-> dns, hashes |-> FALSE, exe |-> FALSE]

Proxy(kind, endpoint, plain) ==
  [kind |-> kind, enabled |-> TRUE, endpoint |-> endpoint, plain |-> plain]

ProxiesOf(old, new, oth) ==
  [id \in MCIds |-> CASE id = "clash-socks" -> old [] id = "local-socks" -> new [] OTHER -> oth]

Doc(schema, mode, proxies, rules, quick, profiles) ==
  [schema |-> schema, current |-> schema = 6, mode |-> mode, strict |-> FALSE, proxies |-> proxies,
   rules |-> rules, quick |-> quick, profiles |-> profiles, active |-> NoProxy]

MCDefault == Doc(6, "proxifyre", ProxiesOf(NoProxy, Proxy("socks5", local, FALSE), NoProxy), {}, {}, {})
\* One rule in force, and one disabled that still asks for child inheritance.
New1 == [MCDefault EXCEPT !.rules =
           {Rule("local-socks", To("local-socks"), FALSE),
            [Rule("local-socks", To("local-socks"), TRUE) EXCEPT !.enabled = FALSE]}]
New2 == [MCDefault EXCEPT !.mode = "sing_box"]
MCCandidates == {New1, New2}

\* Documents of earlier schemas: which proxies exist, of which kind, whether
\* they carry a password, and where a rule and one kept in a profile lead.
LegacyProxies ==
  {ProxiesOf(old, new, NoProxy) :
     old \in {NoProxy, Proxy("socks5", local, TRUE), Proxy("direct", local, FALSE)},
     new \in {NoProxy, Proxy("socks5", other, FALSE), Proxy("http", other, FALSE)}}

RuleIds == {"clash-socks", "local-socks"}

\* Rules have had an action since schema 4.
RulesBefore4 == {{Rule(id, NoAction, TRUE)} : id \in RuleIds}
RulesSince4 ==
  {{Rule(id, To(id), FALSE)} : id \in RuleIds}
    \cup {{Rule("clash-socks", [type |-> "block", id |-> NoProxy], FALSE)}}

LegacyProfiles ==
  {{}, {[id |-> p1, rules |-> {Rule("clash-socks", To("clash-socks"), FALSE)}, quick |-> {}]}}

\* With profiles only in schema 5, which is as far as the bound goes.
LegacyDocs ==
  {Doc(3, "wfp", proxies, rules, {}, {}) : proxies \in LegacyProxies, rules \in RulesBefore4}
    \cup {Doc(5, "proxifyre", proxies, rules, {}, profiles) :
             proxies \in LegacyProxies, rules \in RulesSince4, profiles \in LegacyProfiles}

Future == [MCDefault EXCEPT !.schema = 7]
Plain == Doc(5, "proxifyre", ProxiesOf(Proxy("socks5", local, TRUE), NoProxy, NoProxy),
             {Rule("clash-socks", To("clash-socks"), FALSE)}, {}, {})
PlainBefore == [Plain EXCEPT !.rules = {}]
\* The proxy with the password was deleted before the update.
Pruned == Doc(5, "proxifyre", ProxiesOf(NoProxy, Proxy("socks5", other, FALSE), NoProxy), {}, {}, {})

\* What may be on disk: nothing, a legacy file with or without a backup, a
\* current one, a damaged one, one of a newer version.
MCLegacyFiles ==
  {<<Absent, Absent>>, <<Absent, New1>>, <<New1, MCDefault>>, <<Torn, New1>>, <<Torn, Plain>>,
   <<Plain, Absent>>, <<Plain, PlainBefore>>, <<Pruned, Plain>>,
   <<Future, New1>>, <<Torn, Future>>}
  \cup {<<doc, Absent>> : doc \in LegacyDocs}
=============================================================================
