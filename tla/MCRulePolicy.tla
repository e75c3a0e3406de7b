---------------------------- MODULE MCRulePolicy ----------------------------
\* Two programs of one name, ten rules that a request may ask for, three
\* quick launch items and a template.
EXTENDS RulePolicy

Browser == [name |-> "browser", path |-> "C/browser"]
Copy    == [name |-> "browser", path |-> "D/browser"]
MCPrograms == {Browser, Copy}
MCExeNames == {"browser"}

MCDestinations ==
  {[domain |-> "example", cidr |-> "wan", port |-> 80], [domain |-> "router", cidr |-> "lan", port |-> 443]}

Domain == <<"domain", {"example"}>>
Cidr   == <<"cidr", {"lan"}>>
Port   == <<"port", {443}>>

Payload(sel, prio, act, dst, net) == [sel |-> sel, prio |-> prio, act |-> act, dst |-> dst, net |-> net]
Name == <<"name", "browser">>
Path == <<"path", "C/browser">>
All  == <<"glob", {"browser"}>>

MCPayloads ==
  {Payload({Name}, 100, "home", {}, {}), Payload({Name}, 200, "direct", {}, {}),
   Payload({Path}, 100, "home", {}, {}), Payload({Name, Path}, 100, "direct", {}, {"tcp"}),
   Payload({All}, 100, "block", {Cidr}, {}), Payload({<<"barepid", Copy>>, All}, 200, "home", {}, {"dns"}),
   Payload({<<"pid", Copy>>}, 100, "direct", {}, {}),
   Payload({Path, <<"path", "D/browser">>}, 100, "direct", {}, {}), Payload({Path}, 100, "block", {}, {"tcp"}),
   Payload({Name}, 100, "direct", {Domain, Port}, {})}

\* Rules that differ in what they limit.
MCLimited ==
  {Payload({Name}, 100, "direct", {Domain}, {}), Payload({Name}, 100, "home", {Port}, {}),
   Payload({Name}, 100, "home", {Domain, Cidr}, {})}

MCItems == {[path |-> "C/browser", proxy |-> "home", bind |-> TRUE],
            [path |-> "D/browser", proxy |-> "home", bind |-> TRUE],
            [path |-> "D/browser", proxy |-> "home", bind |-> FALSE]}

MCTemplate == <<{Name}>>

C(rules, engine, strict, on) ==
  [rules |-> rules, quick |-> <<>>, proxies |-> [p \in RoutedIds |-> "socks"], profiles |-> {},
   active |-> None, engine |-> engine, strict |-> strict, on |-> on]

Made(payload, id) == RuleOf(id, payload, TRUE, None, None)

\* With one quick launch item, its rule, and a profile made then.
WithItem(c) ==
  LET item == ItemOf(1, [path |-> "C/browser", proxy |-> "home", bind |-> TRUE])
      full == [c EXCEPT !.quick = <<item>>, !.rules = Append(@, ManagedRule(Len(@) + 1, item))]
  IN  [full EXCEPT !.profiles = {ProfileOf(full, 1)}]

\* The same, with the rule of the item pointing elsewhere.
Misfit == LET c == WithItem(C(<<>>, "proxifyre", FALSE, TRUE)) IN [c EXCEPT !.rules[1].act = "direct"]

MCProposals == {WithItem(C(<<>>, "proxifyre", FALSE, TRUE)), Misfit}

\* A loaded configuration has the first of these before any other rule, or the
\* second after it.
MCFirst == Payload({Name}, 100, "home", {}, {})
MCSecond == Payload({All}, 100, "block", {Cidr}, {})

MCPolicies ==
  LET modes == {"proxifyre", "sing_box"}
      pairs == ({MCFirst} \X MCPayloads) \cup (MCPayloads \X {MCSecond}) \cup (MCLimited \X MCLimited)
  IN  {C(<<Made(ab[1], 1), Made(ab[2], 2)>>, e, s, TRUE) :
         ab \in {ab \in pairs : ab[1] # ab[2]}, e \in modes, s \in BOOLEAN}
        \cup {WithItem(C(<<Made(a, 1)>>, "proxifyre", s, TRUE)) : a \in MCPayloads, s \in BOOLEAN}
        \cup {WithItem(C(<<Made(a, 1)>>, "proxifyre", TRUE, FALSE)) : a \in MCPayloads}
        \cup {C(<<>>, "proxifyre", FALSE, TRUE), Misfit}
====
