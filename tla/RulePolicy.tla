----------------------------- MODULE RulePolicy -----------------------------
(***************************************************************************)
(* The policy as the API edits it (core/api/mod.rs): rules, the rules the  *)
(* quick launch bar and the templates manage, profiles, proxies, engine    *)
(* and runtime.  An edit is one transaction that the validation and the    *)
(* engine may refuse; six requests look at the configuration before it.    *)
(***************************************************************************)
EXTENDS RoutingPlan

CONSTANTS
  ItemIds,       \* identifiers quick launch items and profiles may get
  Payloads,      \* [sel, prio, act, dst, net]: what a request may set a rule to
  Items,         \* [path, proxy, bind]: what it may set an item to
  Template,      \* a sequence of sets of selectors, one for each of its rules
  Policies,      \* what Core may have loaded
  Proposals,     \* what a request may put in place of the whole configuration
  MaxRules,      \* rules of a configuration (bound)
  Edits,         \* edits of one behaviour (bound)
  None

VARIABLES
  config,
  held,          \* a request between its look and its transaction
  edits,
  foreign        \* a history: a configuration with managed rules that do not fit came as a whole

pvars == <<config, held, edits, foreign>>

\* The elements of s at the positions in K, in their order.
Keeping(s, K) ==
  LET keeping[n \in 0..Len(s)] ==
        IF n = 0 THEN <<>>
        ELSE IF n \in K THEN Append(keeping[n - 1], s[n]) ELSE keeping[n - 1]
  IN  keeping[Len(s)]

----------------------------------------------------------------------------
(* validate_config, of what an edit can break.                               *)

Targeted(r) == IF r.act \in RoutedIds THEN {r.act} ELSE {}

TargetsOf(rules, quick) ==
  UNION {Targeted(rules[i]) : i \in DOMAIN rules} \cup {quick[i].proxy : i \in DOMAIN quick}

Exists(c, p) == c.proxies[p] # "none"

Unique(s) == \A i, j \in DOMAIN s : s[i].id = s[j].id => i = j

ValidPolicy(c) ==
  /\ c.strict => c.engine = "proxifyre" /\ \A i \in Enabled(c) : \E s \in c.rules[i].sel : s[1] = "path"
  /\ \A i \in DOMAIN c.rules : c.rules[i].sel # {}
  /\ \A p \in TargetsOf(c.rules, c.quick) : Exists(c, p)
  /\ \A f \in c.profiles : \A p \in TargetsOf(f.rules, f.quick) : Exists(c, p)
  /\ c.active = None \/ \E f \in c.profiles : f.id = c.active
  /\ Unique(c.rules) /\ \A f \in c.profiles : Unique(f.rules)
  /\ \A f, g \in c.profiles : f.id = g.id => f = g

\* mutate_config: published if it is valid and the engine accepts it.
Commit(new) ==
  /\ edits < Edits /\ Len(new.rules) <= MaxRules
  /\ ValidPolicy(new) /\ Accepts(new)
  /\ new.engine # config.engine => Starts(new)
  /\ config' = new /\ edits' = edits + 1

\* An edit without a look before its transaction.
Edit(new) == Commit(new) /\ UNCHANGED <<held, foreign>>

----------------------------------------------------------------------------
(* Rules.                                                                    *)

RuleIdsIn(c) ==
  {c.rules[i].id : i \in DOMAIN c.rules}
    \cup UNION {{f.rules[i].id : i \in DOMAIN f.rules} : f \in c.profiles}

\* What a request under way has in its hands.
HeldRuleIds ==
  IF held = None THEN {}
  ELSE CASE held.op \in {"update", "delete"} -> {held.id}
         [] held.op = "duplicate" -> {held.rule.id}
         [] held.op = "reorder"   -> {held.order[k] : k \in DOMAIN held.order}
         [] held.op = "template"  -> {}
         [] held.op = "import"    -> RuleIdsIn(held.config)

\* Rule::new draws a random identifier: any that nothing names.
FreshRule(c) ==
  LET taken == RuleIdsIn(c) \cup HeldRuleIds
  IN  Least(1..(Cardinality(taken) + 1) \ taken)

RuleOf(id, payload, on, owner, key) ==
  [id |-> id, sel |-> payload.sel, prio |-> payload.prio, act |-> payload.act, on |-> on,
   dst |-> payload.dst, net |-> payload.net, owner |-> owner, key |-> key]

PlainFields(sel, proxy) == [sel |-> sel, prio |-> 100, act |-> proxy, dst |-> {}, net |-> {}]

\* create_rule.
CreateRule(payload, on) ==
  Edit([config EXCEPT !.rules = Append(@, RuleOf(FreshRule(config), payload, on, None, None))])

Managed(c, id) == \E i \in DOMAIN c.rules : c.rules[i].id = id /\ c.rules[i].owner # None

Look(request) == held = None /\ edits < Edits /\ held' = request /\ UNCHANGED <<config, edits, foreign>>

\* is_quickbar_managed_rule is asked before the transaction.
LookAtRule(op, id) ==
  /\ ~Managed(config, id)
  /\ Look([op |-> op, id |-> id])

Done == held' = None /\ UNCHANGED foreign

Revised(r, payload) ==
  [r EXCEPT !.sel = payload.sel, !.prio = payload.prio, !.act = payload.act,
            !.dst = payload.dst, !.net = payload.net]

\* update_rule: the fields of the request; what manages the rule stays.
UpdateRule(payload) ==
  /\ held # None /\ held.op = "update"
  /\ \E i \in DOMAIN config.rules :
       /\ config.rules[i].id = held.id
       /\ Commit([config EXCEPT !.rules[i] = Revised(@, payload)])
  /\ Done

Without(s, id) == Keeping(s, {i \in DOMAIN s : s[i].id # id})

\* delete_rule.
DeleteRule ==
  /\ held # None /\ held.op = "delete"
  /\ Commit([config EXCEPT !.rules = Without(@, held.id)])
  /\ Done

\* duplicate_rule: the source is copied before the transaction.
LookToDuplicate(i) == Look([op |-> "duplicate", rule |-> config.rules[i]])

\* ... its mutant keeps what manages the source.
DuplicateManaged ==
  /\ held # None /\ held.op = "duplicate"
  /\ LET copy == [held.rule EXCEPT !.id = FreshRule(config)]
     IN  Commit([config EXCEPT !.rules = Append(@, copy)])
  /\ Done

Duplicate ==
  /\ held # None /\ held.op = "duplicate"
  /\ LET copy == [held.rule EXCEPT !.id = FreshRule(config), !.owner = None, !.key = None]
     IN  Commit([config EXCEPT !.rules = Append(@, copy)])
  /\ Done

Switched(rules, ids, on) ==
  [i \in DOMAIN rules |-> IF rules[i].id \in ids THEN [rules[i] EXCEPT !.on = on] ELSE rules[i]]

\* batch_enable_rules refuses managed rules, inside the transaction.
BatchEnable(ids, on) ==
  /\ ids # {} /\ ids \subseteq {config.rules[i].id : i \in DOMAIN config.rules}
  /\ \A id \in ids : ~Managed(config, id)
  /\ Edit([config EXCEPT !.rules = Switched(@, ids, on)])

\* reorder_rules: the requested order names the rules there were; a rule
\* created meanwhile comes last.
LookToReorder(i, j) ==
  LET ids == [k \in DOMAIN config.rules |-> config.rules[k].id]
  IN  i < j /\ Look([op |-> "reorder", order |-> [ids EXCEPT ![i] = ids[j], ![j] = ids[i]]])

RuleWith(c, id) == c.rules[CHOOSE i \in DOMAIN c.rules : c.rules[i].id = id]

\* The rules in the order asked for, then those it does not know.
Reordered(c, asked) ==
  LET order == Keeping(asked, {k \in DOMAIN asked : \E i \in DOMAIN c.rules : c.rules[i].id = asked[k]})
      news  == {i \in DOMAIN c.rules : \A k \in DOMAIN asked : asked[k] # c.rules[i].id}
  IN  [k \in DOMAIN order |-> RuleWith(c, order[k])] \o Keeping(c.rules, news)

Reorder ==
  /\ held # None /\ held.op = "reorder"
  /\ Commit([config EXCEPT !.rules = Reordered(config, held.order)])
  /\ Done

----------------------------------------------------------------------------
(* The quick launch bar and the rules it manages.                            *)

ManagedRule(id, item) ==
  RuleOf(id, PlainFields({<<"path", item.path>>}, item.proxy), TRUE, item.id, None)

RemovedFor(rules, item) == Keeping(rules, {i \in DOMAIN rules : rules[i].owner # item})

Rerouted(r, sel, proxy) == [r EXCEPT !.sel = sel, !.act = proxy]

\* sync_quickbar_managed_rule.
Synced(c, item) ==
  LET at == {i \in DOMAIN c.rules : c.rules[i].owner = item.id}
  IN  IF ~item.bind THEN [c EXCEPT !.rules = RemovedFor(@, item.id)]
      ELSE IF at = {} THEN [c EXCEPT !.rules = Append(@, ManagedRule(FreshRule(c), item))]
      ELSE [c EXCEPT !.rules[Least(at)] = Rerouted(@, {<<"path", item.path>>}, item.proxy)]

ItemOf(id, payload) ==
  [id |-> id, path |-> payload.path, proxy |-> payload.proxy, bind |-> payload.bind]

\* The rules in force and those of the profiles.
AllRules(c) ==
  {c.rules[i] : i \in DOMAIN c.rules} \cup UNION {{f.rules[i] : i \in DOMAIN f.rules} : f \in c.profiles}

\* What names an item: a new one gets an identifier that nothing names.
ItemIdsIn(c) ==
  {c.quick[i].id : i \in DOMAIN c.quick}
    \cup UNION {{f.quick[i].id : i \in DOMAIN f.quick} : f \in c.profiles}
    \cup {r.owner : r \in AllRules(c)}

\* create_quickbar.
CreateItem(payload) ==
  /\ ItemIds \ ItemIdsIn(config) # {}
  /\ LET item == ItemOf(Least(ItemIds \ ItemIdsIn(config)), payload)
     IN  Edit(Synced([config EXCEPT !.quick = Append(@, item)], item))

\* A request finds the first item that has its identifier.
IsFirst(s, i) == \A k \in 1..(i - 1) : s[k].id # s[i].id

\* update_quickbar.
UpdateItem(i, payload) ==
  LET item == ItemOf(config.quick[i].id, payload)
  IN  IsFirst(config.quick, i) /\ Edit(Synced([config EXCEPT !.quick[i] = item], item))

\* delete_quickbar.
DeleteItem(i) ==
  LET id == config.quick[i].id
  IN  Edit([config EXCEPT !.quick = Without(@, id), !.rules = RemovedFor(@, id)])

\* launch_quickbar, up to the launch itself.
LaunchItem(i) == IsFirst(config.quick, i) /\ Edit(Synced(config, config.quick[i]))

----------------------------------------------------------------------------
(* Templates: each rule of the template is added, or refreshed by its key.   *)

LookAtTemplate(p) == Exists(config, p) /\ Look([op |-> "template", proxy |-> p])

KeyedAt(rules, key) == {i \in DOMAIN rules : rules[i].key = key}

TemplateRule(id, key, proxy) ==
  RuleOf(id, PlainFields(Template[key], proxy), TRUE, None, key)

Refreshed(r, key, proxy) ==
  [r EXCEPT !.sel = Template[key], !.act = proxy, !.net = {}, !.on = TRUE]

\* One rule of the template.
WithTemplateRule(c, key, proxy) ==
  LET at == KeyedAt(c.rules, key)
  IN  IF at = {} THEN [c EXCEPT !.rules = Append(@, TemplateRule(FreshRule(c), key, proxy))]
      ELSE [c EXCEPT !.rules[Least(at)] = Refreshed(@, key, proxy)]

WithTemplate(c, proxy) ==
  LET with[n \in 0..Len(Template)] ==
        IF n = 0 THEN c ELSE WithTemplateRule(with[n - 1], n, proxy)
  IN  with[Len(Template)]

\* apply_template: the proxy was looked up before the transaction.
ApplyTemplate ==
  /\ held # None /\ held.op = "template"
  /\ Commit(WithTemplate(config, held.proxy))
  /\ Done

\* A request whose transaction is refused changes nothing.
Refused == held # None /\ Done /\ UNCHANGED <<config, edits>>

----------------------------------------------------------------------------
(* Profiles.                                                                 *)

ProfileOf(c, id) ==
  [id |-> id, rules |-> c.rules, quick |-> c.quick, engine |-> c.engine,
   strict |-> c.strict, on |-> c.on]

FreshProfiles == ItemIds \ {f.id : f \in config.profiles}

\* create_profile.
CreateProfile ==
  /\ FreshProfiles # {}
  /\ Edit([config EXCEPT !.profiles = @ \cup {ProfileOf(config, Least(FreshProfiles))}])

\* clone_profile.
CloneProfile(f) ==
  /\ FreshProfiles # {}
  /\ Edit([config EXCEPT !.profiles = @ \cup {[f EXCEPT !.id = Least(FreshProfiles)]}])

\* activate_profile, RoutingProfile::apply_to_config.
ActivateProfile(f) ==
  Edit([config EXCEPT !.rules = f.rules, !.quick = f.quick, !.engine = f.engine,
                      !.strict = f.strict, !.on = f.on, !.active = f.id])

\* delete_profile.
DeleteProfile(f) ==
  Edit([config EXCEPT !.profiles = @ \ {f}, !.active = IF @ = f.id THEN None ELSE @])

----------------------------------------------------------------------------
(* Proxies, engine and runtime.                                              *)

\* create_proxy and update_proxy, of what routing depends on.
SetProxy(p, kind) == kind # "none" /\ Edit([config EXCEPT !.proxies[p] = kind])

\* delete_proxy: the profiles are asked in the transaction, the rules and the
\* items by the validation.
DeleteProxy(p) ==
  /\ Exists(config, p)
  /\ \A f \in config.profiles : p \notin TargetsOf(f.rules, f.quick)
  /\ Edit([config EXCEPT !.proxies[p] = "none"])

ChangeEngine(mode) == mode # config.engine /\ Edit([config EXCEPT !.engine = mode])

\* update_runtime.
UpdateRuntime(on, strict) == Edit([config EXCEPT !.on = on, !.strict = strict])

----------------------------------------------------------------------------
(* Configurations that come as a whole (replace_imported_config).            *)

\* sanitize_template_provenance: a rule keeps the key of the rule that had its
\* identifier, and a request brings none.
KeyIn(c, id) ==
  LET at == {i \in DOMAIN c.rules : c.rules[i].id = id}
  IN  IF at = {} THEN None ELSE c.rules[Least(at)].key

Sanitised(previous, next) ==
  [next EXCEPT !.rules = [i \in DOMAIN @ |-> [@[i] EXCEPT !.key = KeyIn(previous, next.rules[i].id)]]]

\* apply_proxy_import: the endpoint is merged into a copy of the configuration,
\* which is checked and takes the place of whatever the configuration is then.
Merged(c, p, kind) == [c EXCEPT !.proxies[p] = kind]

LookToImport(p, kind) ==
  LET proposed == Merged(config, p, kind)
  IN  /\ ValidPolicy(proposed)
      /\ proposed.strict => \A i \in Enabled(proposed) : ~Errors(proposed, i)
      /\ Look([op |-> "import", config |-> proposed])

ImportProxies ==
  /\ held # None /\ held.op = "import"
  /\ Commit(Sanitised(config, held.config))
  /\ Done

----------------------------------------------------------------------------
(* What a policy is made of.                                                 *)

I32Max == 2147483647

Priorities == (-I32Max - 1)..I32Max

RuleActions == RoutedIds \cup {"direct", "block"}

Modes == {"proxifyre", "sing_box"}

Paths == {item.path : item \in Items}

\* The selectors of requests, items and the template.
Sels == (UNION {payload.sel : payload \in Payloads}) \cup {<<"path", path>> : path \in Paths}
          \cup (UNION {Template[n] : n \in DOMAIN Template})

\* The criteria of requests.
Criteria == UNION {payload.dst : payload \in Payloads}

PayloadSpace == [sel : SUBSET Sels, prio : Priorities, act : RuleActions,
                 dst : SUBSET Criteria, net : SUBSET {"tcp", "udp", "dns"}]

RuleRecords == [id : Nat, sel : SUBSET Sels, prio : Priorities, act : RuleActions, on : BOOLEAN,
              dst : SUBSET Criteria, net : SUBSET {"tcp", "udp", "dns"},
              owner : {None} \cup ItemIds, key : {None} \cup DOMAIN Template]

ItemSpace == [id : ItemIds, path : Paths, proxy : RoutedIds, bind : BOOLEAN]

ProfileSpace == [id : ItemIds, rules : Seq(RuleRecords), quick : Seq(ItemSpace),
                 engine : Modes, strict : BOOLEAN, on : BOOLEAN]

PolicySpace == [rules : Seq(RuleRecords), quick : Seq(ItemSpace),
                proxies : [RoutedIds -> {"socks", "direct", "off", "none"}],
                profiles : SUBSET ProfileSpace, active : {None} \cup ItemIds,
                engine : Modes, strict : BOOLEAN, on : BOOLEAN]

PolicyOK(c) == c \in PolicySpace /\ IsFiniteSet(c.profiles)

\* A rule that does what the item it is managed by asks for.
Fitting(r, quick) ==
  \E k \in DOMAIN quick :
    /\ quick[k].id = r.owner /\ quick[k].bind
    /\ r.sel = {<<"path", quick[k].path>>} /\ r.act = quick[k].proxy

\* Nothing manages two rules, and a rule has one manager.
Apart(rules) ==
  /\ \A i, j \in DOMAIN rules : i # j =>
       /\ rules[i].owner = None \/ rules[i].owner # rules[j].owner
       /\ rules[i].key = None \/ rules[i].key # rules[j].key
  /\ \A i \in DOMAIN rules : rules[i].owner = None \/ rules[i].key = None

Matching(rules, quick) ==
  /\ Unique(rules) /\ Unique(quick) /\ Apart(rules)
  /\ \A i \in DOMAIN rules : rules[i].owner # None => Fitting(rules[i], quick)
  /\ \A k \in DOMAIN quick : quick[k].bind => \E i \in DOMAIN rules : rules[i].owner = quick[k].id

\* A rule has the same manager wherever it is.
Agreeing(c) == \A r, u \in AllRules(c) : r.id = u.id => r.owner = u.owner

Owned(c) ==
  /\ Matching(c.rules, c.quick) /\ \A f \in c.profiles : Matching(f.rules, f.quick)
  /\ Agreeing(c)

\* What a request saw to be unmanaged is so in every profile it may find
\* activated; a new order names no rule twice; and the copy an import works on
\* was in order and gives every rule the manager that it has.
HeldFree(c) ==
  held # None =>
    /\ held.op \in {"update", "delete"} => \A r \in AllRules(c) : r.id = held.id => r.owner = None
    /\ held.op = "reorder" => \A i, j \in DOMAIN held.order : held.order[i] = held.order[j] => i = j
    /\ held.op = "import" =>
         Owned(held.config) /\ \A r \in AllRules(held.config), u \in AllRules(c) : r.id = u.id => r.owner = u.owner

----------------------------------------------------------------------------
\* put_config: validate_config does not ask whether managed rules fit.
PutConfig(c) ==
  LET new == Sanitised(config, c)
  IN  /\ Commit(new)
      /\ UNCHANGED held
      /\ foreign' = (foreign \/ ~Owned(new) \/ ~HeldFree(new))

PInit ==
  /\ config \in {c \in Policies : ValidPolicy(c) /\ Accepts(c)}
  /\ held = None /\ edits = 0 /\ foreign = ~Owned(config)

PNext ==
  \/ \E payload \in Payloads : CreateRule(payload, TRUE) \/ UpdateRule(payload)
  \/ \E op \in {"update", "delete"}, i \in DOMAIN config.rules : LookAtRule(op, config.rules[i].id)
  \/ DeleteRule \/ Duplicate \/ Reorder \/ ApplyTemplate \/ ImportProxies \/ Refused
  \/ \E i \in DOMAIN config.rules : LookToDuplicate(i)
  \/ \E i, j \in DOMAIN config.rules : LookToReorder(i, j)
  \/ \E ids \in SUBSET {config.rules[i].id : i \in DOMAIN config.rules}, on \in BOOLEAN : BatchEnable(ids, on)
  \/ \E payload \in Items : CreateItem(payload)
  \/ \E payload \in Items, i \in DOMAIN config.quick : UpdateItem(i, payload)
  \/ \E i \in DOMAIN config.quick : DeleteItem(i) \/ LaunchItem(i)
  \/ CreateProfile
  \/ \E f \in config.profiles : CloneProfile(f) \/ ActivateProfile(f) \/ DeleteProfile(f)
  \/ \E p \in RoutedIds : DeleteProxy(p) \/ LookAtTemplate(p)
  \/ \E p \in RoutedIds, kind \in {"socks", "direct", "off"} : SetProxy(p, kind)
  \/ \E mode \in {"proxifyre", "sing_box"} : ChangeEngine(mode)
  \/ \E p \in RoutedIds, kind \in {"socks", "off"} : LookToImport(p, kind)
  \/ \E on, strict \in BOOLEAN : UpdateRuntime(on, strict)
  \/ \E c \in Proposals : PutConfig(c)

PSpec == PInit /\ [][PNext]_pvars


----------------------------------------------------------------------------
(* The inductive invariant.                                                  *)

\* Requests, and what Core loads, are of the API's types.
ASSUME PolicyAssumption ==
  /\ Payloads \subseteq PayloadSpace
  /\ Items \subseteq [path : Paths, proxy : RoutedIds, bind : BOOLEAN]
  /\ Template \in Seq(SUBSET Sels)
  /\ \A s \in Sels : s[1] \in DOMAIN Rank
  /\ ItemIds \subseteq Nat /\ None \notin ItemIds \cup DOMAIN Template
  /\ \A c \in Policies \cup Proposals : PolicyOK(c)

\* What a request remembers of its look.
HeldOK ==
  \/ held = None
  \/ held.op \in {"update", "delete"} /\ held.id \in Nat
  \/ held.op = "duplicate" /\ held.rule \in RuleRecords
  \/ held.op = "reorder" /\ held.order \in Seq(Nat)
  \/ held.op = "template" /\ held.proxy \in RoutedIds
  \/ held.op = "import" /\ PolicyOK(held.config)

PInv ==
  /\ PolicyOK(config) /\ HeldOK
  /\ ValidPolicy(config) /\ Accepts(config)
  /\ foreign \in BOOLEAN

MInv == PInv /\ (foreign \/ (Owned(config) /\ HeldFree(config)))

----------------------------------------------------------------------------
(* Every rule managed by the quick launch bar is that of an item which     *)
(* asks for one, routes its program to its proxy, and is the only one; a   *)
(* template has one rule for each key: whatever is copied, restored from a *)
(* profile, edited, deleted or imported in between, and in whichever order.*)
(* A configuration that was loaded, or put in place of the whole one, may   *)
(* bring managed rules that do not fit (validate_config does not ask):     *)
(* after that nothing is said.                                             *)
ManagedRulesMatch ==
  \/ foreign
  \/ /\ \A i \in DOMAIN config.rules : config.rules[i].owner # None =>
          \E k \in DOMAIN config.quick :
            LET item == config.quick[k] IN
              /\ item.id = config.rules[i].owner /\ item.bind
              /\ config.rules[i].sel = {<<"path", item.path>>} /\ config.rules[i].act = item.proxy
     /\ \A k \in DOMAIN config.quick : config.quick[k].bind =>
          \E i \in DOMAIN config.rules : config.rules[i].owner = config.quick[k].id
     /\ \A i, j \in DOMAIN config.rules : i # j =>
          /\ config.rules[i].owner = None \/ config.rules[i].owner # config.rules[j].owner
          /\ config.rules[i].key = None \/ config.rules[i].key # config.rules[j].key

(* A Strict configuration that is running routes every program one of its  *)
(* enabled rules matches: none falls back to the direct connection because *)
(* its rule was left out of the plan, for a disabled proxy for example.    *)
StrictLeavesNothingOut ==
  config.on /\ config.strict =>
    \A p \in Programs :
      (\E i \in Enabled(config) : RuleMatches(config.rules[i], p)) =>
        \E i \in Enabled(config) : \E s \in Planned(config, i) : Matches(s, p)

\* A rule with one kind of selector, for TCP or UDP.
Unmixed(r) == r.net # {"dns"} /\ \A s, u \in r.sel : s[1] = u[1]

\* No rule takes a selector from a later one that has it for more protocols.
ClaimsFit(c) ==
  \A i, j \in Enabled(c) :
    /\ j < i /\ c.rules[i].dst = {}
    /\ Claims(c, j) \cap Selectors(c.rules[i]) # {}
    => Networks(c.rules[i]) \subseteq Networks(c.rules[j])

\* A rule that does not name both domains and addresses: of one that does,
\* sing-box takes what is to one of either and the simulation asks for both.
OneHost(r) == Limits(r, "domain") = {} \/ Limits(r, "cidr") = {}

(* What sing-box does with a connection is what the simulation says, while *)
(* the rules have one kind of selector each and the same priority, none    *)
(* claims a selector for one protocol that a later one has for both (the   *)
(* claims of compile_routing_plan do not look at protocols), and none names*)
(* both domains and addresses: the order of the generated rules, the claims*)
(* of the plan and the order of the evaluation amount to the same.         *)
SingBoxFollowsEvaluation ==
  config.on /\ config.engine = "sing_box"
    /\ (\A i, j \in Enabled(config) : config.rules[i].prio = config.rules[j].prio)
    /\ (\A i \in Enabled(config) : Unmixed(config.rules[i]) /\ OneHost(config.rules[i]))
    /\ ClaimsFit(config)
      => \A t \in Traffic : SingBoxOutbound(config, t) = EvaluatedOutbound(config, t)

\* Where rule a is limited so is b, and a is not limited by addresses:
\* is_shadowing takes a rule without protocols, domains or ports to be within
\* any that has them, and does not look at addresses.
AsExplicit(a, b) ==
  /\ a.net = {} \/ b.net # {}
  /\ \A kind \in {"domain", "port"} : Limits(a, kind) = {} \/ Limits(b, kind) # {}
  /\ Limits(a, "cidr") = {}

(* A rule the analysis reports as never hit is not selected by the         *)
(* simulator for any traffic, when it has one kind of selector and is      *)
(* limited in protocols, domains and ports where the rule that covers it   *)
(* is, and that one is not limited by addresses.                           *)
ShadowedNeverWins ==
  \A i, j \in DOMAIN config.rules :
    Shadowed(config, i, j) /\ Unmixed(config.rules[i]) /\ AsExplicit(config.rules[j], config.rules[i])
      => \A t \in Traffic : ~StudioSelects(config, t, i)
=============================================================================
