--------------------------- MODULE ConfigFileProofs ---------------------------
(***************************************************************************)
(* For any documents, any files of an earlier version and any number of    *)
(* faults: what the migrations make of a document, the inductive invariant *)
(* of ConfigFile, and that the two files implement ConfigRegister.         *)
(***************************************************************************)
EXTENDS ConfigFile, TLAPS

(***************************************************************************)
(* The document: types first, then what an upgrade is and what it keeps.   *)
(***************************************************************************)

\* A proxy stays one, and an absent one absent.
LEMMA ProxyTypes ==
  ASSUME NEW p \in Proxies \cup {NoProxy}
  PROVE  /\ HydratedProxy(p) \in Proxies \cup {NoProxy}
         /\ NormalProxy(p) \in Proxies \cup {NoProxy}
BY DEF HydratedProxy, NormalProxy, Proxies

\* A rule of schema 3 becomes a rule of schema 4.
LEMMA PolicyRuleType ==
  ASSUME NEW rule \in RuleSpace, NEW doc
  PROVE  PolicyRule(doc, rule) \in RuleSpace
<1> DEFINE dns == IF rule.dns = "inherit" /\ rule.forceDns THEN "block_plaintext" ELSE rule.dns
<1>1. rule.action \in Actions /\ rule.profile \in References /\ rule.dns \in DnsModes
  BY DEF RuleSpace
<1>2. LegacyAction(doc, rule) \in Actions
  BY <1>1 DEF LegacyAction, Actions, References, RouteActions
<1>3. dns \in DnsModes
  BY <1>1 DEF DnsModes
<1>4. PolicyRule(doc, rule) = [rule EXCEPT !.action = LegacyAction(doc, rule), !.dns = dns]
  BY DEF PolicyRule
<1> HIDE DEF dns
<1>5. QED
  BY <1>2, <1>3, <1>4 DEF RuleSpace

\* A rule whose reference follows the rename is a rule.
LEMMA RenamedRuleType ==
  ASSUME NEW rule \in RuleSpace
  PROVE  RenamedRule(rule) \in RuleSpace
<1>1. rule.action \in Actions /\ rule.profile \in References
  BY DEF RuleSpace
<1>2. \A id \in References : Renamed(id) \in References
  BY IdsAssumption DEF Renamed, References
<1>3. RenamedAction(rule.action) \in Actions
  BY <1>1, <1>2 DEF RenamedAction, Actions
<1>4. QED
  BY <1>1, <1>2, <1>3 DEF RenamedRule, RuleSpace

\* ... as is one without the capabilities the engines lost
LEMMA NormalRuleType ==
  ASSUME NEW rule \in RuleSpace
  PROVE  NormalRule(rule) \in RuleSpace
BY DEF NormalRule, RuleSpace

\* ... and a profile of renamed rules is a profile.
LEMMA ProfileTypes ==
  ASSUME NEW profile \in Profiles
  PROVE  RenamedProfile(profile) \in Profiles
<1>1. \A rule \in profile.rules : RenamedRule(rule) \in RuleSpace
  BY RenamedRuleType DEF Profiles
<1>2. QED
  BY <1>1 DEF RenamedProfile, Profiles

\* A launcher item that no longer follows children is one.
LEMMA LauncherTypes ==
  ASSUME NEW item \in Launchers
  PROVE  NormalLauncher(item) \in Launchers
BY DEF NormalLauncher, Launchers

\* The migration to schema 4 makes documents of documents,
LEMMA PolicyFieldsType ==
  ASSUME NEW doc \in Documents
  PROVE  PolicyFields(doc) \in Documents
<1>1. \A rule \in doc.rules : PolicyRule(doc, rule) \in RuleSpace
  BY PolicyRuleType DEF Documents
<1>2. QED
  BY <1>1 DEF PolicyFields, Documents

\* the one to schema 6 too,
LEMMA DebrandedType ==
  ASSUME NEW doc \in Documents
  PROVE  Debranded(doc) \in Documents
<1>1. BrandlessProxies(doc) \in [ProxyIds -> Proxies \cup {NoProxy}]
  BY IdsAssumption DEF BrandlessProxies, Documents
<1>2. {RenamedRule(rule) : rule \in doc.rules} \in SUBSET RuleSpace
  BY RenamedRuleType DEF Documents
<1>3. {RenamedProfile(profile) : profile \in doc.profiles} \in SUBSET Profiles
  BY ProfileTypes DEF Documents
<1>4. QED
  BY <1>1, <1>2, <1>3 DEF Debranded, Documents

\* and both together end at the current schema.
LEMMA MigratedType ==
  ASSUME NEW doc \in Documents
  PROVE  Migrated(doc) \in Documents /\ Migrated(doc).schema = CurrentSchema
<1> DEFINE four == IF doc.schema <= 3 THEN PolicyFields(doc) ELSE doc
           six == IF doc.schema <= 5 THEN Debranded(four) ELSE four
<1>1. four \in Documents
  BY PolicyFieldsType
<1>2. six \in Documents
  BY <1>1, DebrandedType
<1>3. Migrated(doc) = [six EXCEPT !.schema = CurrentSchema]
  BY DEF Migrated
<1> HIDE DEF six
<1>4. QED
  BY <1>2, <1>3 DEF Documents, CurrentSchema

\* Moving the passwords out touches the proxies only.
LEMMA HydratedType ==
  ASSUME NEW doc \in Documents
  PROVE  /\ Hydrated(doc) \in Documents
         /\ Hydrated(doc).schema = doc.schema
         /\ Hydrated(doc).proxies = [id \in ProxyIds |-> HydratedProxy(doc.proxies[id])]
<1>1. [id \in ProxyIds |-> HydratedProxy(doc.proxies[id])] \in [ProxyIds -> Proxies \cup {NoProxy}]
  BY ProxyTypes DEF Documents
<1>2. QED
  BY <1>1 DEF Hydrated, Documents

\* Normalising touches the mode, the proxies, the rules and the launchers.
LEMMA NormalisedType ==
  ASSUME NEW doc \in Documents
  PROVE  /\ Normalised(doc) \in Documents
         /\ Normalised(doc).schema = doc.schema
         /\ Normalised(doc).mode \notin {"wfp", "api_hook"}
         /\ Normalised(doc).proxies = [id \in ProxyIds |-> NormalProxy(doc.proxies[id])]
         /\ Normalised(doc).rules = {NormalRule(rule) : rule \in doc.rules}
         /\ Normalised(doc).quick = {NormalLauncher(item) : item \in doc.quick}
         /\ Normalised(doc).profiles = doc.profiles
<1>1. [id \in ProxyIds |-> NormalProxy(doc.proxies[id])] \in [ProxyIds -> Proxies \cup {NoProxy}]
  BY ProxyTypes DEF Documents
<1>2. {NormalRule(rule) : rule \in doc.rules} \in SUBSET RuleSpace
  BY NormalRuleType DEF Documents
<1>3. {NormalLauncher(item) : item \in doc.quick} \in SUBSET Launchers
  BY LauncherTypes DEF Documents
<1> DEFINE mode == IF doc.mode \in {"wfp", "api_hook"} THEN "proxifyre" ELSE doc.mode
<1>4. mode \in EngineModes /\ mode \notin {"wfp", "api_hook"}
  BY DEF Documents, EngineModes
<1>5. Normalised(doc) = [doc EXCEPT !.mode = mode,
                           !.proxies = [id \in ProxyIds |-> NormalProxy(doc.proxies[id])],
                           !.rules = {NormalRule(rule) : rule \in doc.rules},
                           !.quick = {NormalLauncher(item) : item \in doc.quick}]
  BY DEF Normalised
<1> HIDE DEF mode
<1>6. QED
  BY <1>1, <1>2, <1>3, <1>4, <1>5 DEF Documents

\* Stamping the version touches nothing else.
LEMMA CurrentType ==
  ASSUME NEW doc \in Documents
  PROVE  /\ [doc EXCEPT !.current = TRUE] \in Documents
         /\ [doc EXCEPT !.current = TRUE].current = TRUE
         /\ [doc EXCEPT !.current = TRUE].schema = doc.schema
         /\ [doc EXCEPT !.current = TRUE].mode = doc.mode
         /\ [doc EXCEPT !.current = TRUE].proxies = doc.proxies
         /\ [doc EXCEPT !.current = TRUE].rules = doc.rules
         /\ [doc EXCEPT !.current = TRUE].quick = doc.quick
         /\ [doc EXCEPT !.current = TRUE].profiles = doc.profiles
BY DEF Documents

\* A document that load_or_init serves as it is.
CurrentProxy(p) == p = NoProxy \/ (~p.plain /\ (p.kind \in {"socks5", "direct"} \/ ~p.enabled))
CurrentDoc(doc) ==
  /\ doc.schema = CurrentSchema /\ doc.current
  /\ doc.mode \notin {"wfp", "api_hook"}
  /\ \A id \in ProxyIds : CurrentProxy(doc.proxies[id])
  /\ \A rule \in doc.rules : ~rule.children /\ ~(rule.enabled /\ rule.hashes)
  /\ \A item \in doc.quick : ~item.children

\* Whatever a load parses, what it makes of it is current.
LEMMA UpgradedIsCurrent ==
  ASSUME NEW doc \in Documents
  PROVE  Upgraded(doc) \in Documents /\ CurrentDoc(Upgraded(doc))
<1> DEFINE one == Migrated(doc)
           two == Hydrated(one)
           three == Normalised(two)
<1>1. one \in Documents /\ one.schema = CurrentSchema
  BY MigratedType
<1>2. two \in Documents /\ two.schema = CurrentSchema
      /\ two.proxies = [id \in ProxyIds |-> HydratedProxy(one.proxies[id])]
  BY <1>1, HydratedType
<1>3. /\ three \in Documents /\ three.schema = CurrentSchema
      /\ three.mode \notin {"wfp", "api_hook"}
      /\ three.proxies = [id \in ProxyIds |-> NormalProxy(two.proxies[id])]
      /\ three.rules = {NormalRule(rule) : rule \in two.rules}
      /\ three.quick = {NormalLauncher(item) : item \in two.quick}
  BY <1>2, NormalisedType
<1>4. ASSUME NEW id \in ProxyIds PROVE CurrentProxy(three.proxies[id])
  <2>1. one.proxies[id] \in Proxies \cup {NoProxy}
    BY <1>1 DEF Documents
  <2>2. three.proxies[id] = NormalProxy(HydratedProxy(one.proxies[id]))
    BY <1>2, <1>3
  <2>3. QED
    BY <2>1, <2>2 DEF CurrentProxy, NormalProxy, HydratedProxy, Proxies
<1>5. ASSUME NEW rule \in three.rules PROVE ~rule.children /\ ~(rule.enabled /\ rule.hashes)
  <2>1. PICK r \in RuleSpace : rule = NormalRule(r)
    BY <1>2, <1>3 DEF Documents
  <2>2. QED
    BY <2>1 DEF NormalRule, RuleSpace
<1>6. ASSUME NEW item \in three.quick PROVE ~item.children
  <2>1. PICK i \in Launchers : item = NormalLauncher(i)
    BY <1>2, <1>3 DEF Documents
  <2>2. QED
    BY <2>1 DEF NormalLauncher, Launchers
<1>7. Upgraded(doc) = [three EXCEPT !.current = TRUE]
  BY DEF Upgraded
<1> HIDE DEF three
<1>8. QED
  BY <1>3, <1>4, <1>5, <1>6, <1>7, CurrentType DEF CurrentDoc

\* A current document is served as it is: the upgrade is the identity on it.
LEMMA CurrentIsKept ==
  ASSUME NEW doc \in Documents, CurrentDoc(doc)
  PROVE  Upgraded(doc) = doc
<1>1. Migrated(doc) = doc
  <2>1. Migrated(doc) = [doc EXCEPT !.schema = CurrentSchema]
    BY DEF Migrated, CurrentDoc, CurrentSchema
  <2>2. QED
    BY <2>1 DEF CurrentDoc, Documents
<1>2. Hydrated(doc) = doc
  <2>1. ASSUME NEW id \in ProxyIds PROVE HydratedProxy(doc.proxies[id]) = doc.proxies[id]
    <3>1. doc.proxies[id] \in Proxies \cup {NoProxy} /\ CurrentProxy(doc.proxies[id])
      BY DEF Documents, CurrentDoc
    <3>2. QED
      BY <3>1 DEF CurrentProxy, HydratedProxy, Proxies
  <2>2. [id \in ProxyIds |-> HydratedProxy(doc.proxies[id])] = doc.proxies
    BY <2>1 DEF Documents
  <2>3. QED
    BY <2>2 DEF Hydrated, Documents
<1>3. Normalised(doc) = doc
  <2>1. ASSUME NEW id \in ProxyIds PROVE NormalProxy(doc.proxies[id]) = doc.proxies[id]
    <3>1. doc.proxies[id] \in Proxies \cup {NoProxy} /\ CurrentProxy(doc.proxies[id])
      BY DEF Documents, CurrentDoc
    <3>2. QED
      BY <3>1 DEF CurrentProxy, NormalProxy, Proxies
  <2>2. [id \in ProxyIds |-> NormalProxy(doc.proxies[id])] = doc.proxies
    BY <2>1 DEF Documents
  <2>3. ASSUME NEW rule \in doc.rules PROVE NormalRule(rule) = rule
    <3>1. rule \in RuleSpace /\ rule.children = FALSE
          /\ rule.enabled = (rule.enabled /\ ~rule.hashes)
      BY DEF Documents, CurrentDoc, RuleSpace
    <3>2. QED
      BY <3>1 DEF NormalRule, RuleSpace
  <2>4. {NormalRule(rule) : rule \in doc.rules} = doc.rules
    BY <2>3
  <2>5. ASSUME NEW item \in doc.quick PROVE NormalLauncher(item) = item
    <3>1. item \in Launchers /\ item.children = FALSE
      BY DEF Documents, CurrentDoc, Launchers
    <3>2. QED
      BY <3>1 DEF NormalLauncher, Launchers
  <2>6. {NormalLauncher(item) : item \in doc.quick} = doc.quick
    BY <2>5
  <2>7. Normalised(doc) = [doc EXCEPT !.mode = doc.mode, !.proxies = doc.proxies,
                                      !.rules = doc.rules, !.quick = doc.quick]
    BY <2>2, <2>4, <2>6 DEF Normalised, CurrentDoc
  <2>8. QED
    BY <2>7 DEF Documents
<1>4. [doc EXCEPT !.current = TRUE] = doc
  BY DEF CurrentDoc, Documents
<1>5. QED
  BY <1>1, <1>2, <1>3, <1>4 DEF Upgraded

\* An upgrade leaves nothing for the next start to do.
LEMMA UpgradedOnce ==
  ASSUME NEW doc \in Documents
  PROVE  Upgraded(Upgraded(doc)) = Upgraded(doc)
BY UpgradedIsCurrent, CurrentIsKept

\* A current document holds no password.
LEMMA CurrentIsClean ==
  ASSUME NEW doc, CurrentDoc(doc)
  PROVE  ~Plaintext(doc)
BY DEF CurrentDoc, CurrentProxy, Plaintext, ProxyIdsOf

\* A rule of another document that leads where this one does, if anywhere.
Follows(doc, rule, other, new) ==
  new.name = rule.name /\ (RouteOf(doc, rule) # NoProxy => RouteOf(other, new) = RouteOf(doc, rule))

\* Every route that leads somewhere is a route of the other document too.
RoutesKept(doc, other) ==
  \A route \in Routes(doc) : route[3] # NoProxy => route \in Routes(other)

\* Routes are kept when every rule is followed by one of the same place.
LEMMA FollowersKeep ==
  ASSUME NEW doc, NEW other,
         \A rule \in doc.rules : \E new \in other.rules : Follows(doc, rule, other, new),
         \A profile \in doc.profiles : \E next \in other.profiles :
           /\ next.id = profile.id
           /\ \A rule \in profile.rules :
                       \E new \in next.rules : Follows(doc, rule, other, new)
  PROVE  RoutesKept(doc, other)
<1>1. ASSUME NEW rule \in doc.rules, RouteOf(doc, rule) # NoProxy
      PROVE  <<NoProxy, rule.name, RouteOf(doc, rule)>> \in Routes(other)
  <2>1. PICK new \in other.rules : Follows(doc, rule, other, new)
    OBVIOUS
  <2>2. QED
    BY <1>1, <2>1 DEF Follows, Routes
<1>2. ASSUME NEW profile \in doc.profiles, NEW rule \in profile.rules,
             RouteOf(doc, rule) # NoProxy
      PROVE  <<profile.id, rule.name, RouteOf(doc, rule)>> \in Routes(other)
  <2>1. PICK next \in other.profiles :
          /\ next.id = profile.id
          /\ \A r \in profile.rules : \E new \in next.rules : Follows(doc, r, other, new)
    OBVIOUS
  <2>2. PICK new \in next.rules : Follows(doc, rule, other, new)
    BY <2>1
  <2>3. <<profile.id, rule.name, RouteOf(doc, rule)>> = <<next.id, new.name, RouteOf(other, new)>>
    BY <1>2, <2>1, <2>2 DEF Follows
  <2>4. QED
    BY <2>3 DEF Routes
<1>3. ASSUME NEW route \in Routes(doc), route[3] # NoProxy
      PROVE  route \in Routes(other)
  <2>1. CASE \E rule \in doc.rules : route = <<NoProxy, rule.name, RouteOf(doc, rule)>>
    BY <1>1, <1>3, <2>1
  <2>2. CASE \E profile \in doc.profiles : \E rule \in profile.rules :
               route = <<profile.id, rule.name, RouteOf(doc, rule)>>
    BY <1>2, <1>3, <2>2
  <2>3. QED
    BY <1>3, <2>1, <2>2 DEF Routes
<1>4. QED
  BY <1>3 DEF RoutesKept

\* The action made of a legacy field leads where the field led.
LEMMA PolicyKeeps ==
  ASSUME NEW doc \in Documents
  PROVE  RoutesKept(doc, PolicyFields(doc))
<1> DEFINE other == PolicyFields(doc)
<1>1. /\ other.proxies = doc.proxies /\ other.profiles = doc.profiles
      /\ other.rules = {PolicyRule(doc, rule) : rule \in doc.rules}
  BY DEF PolicyFields, Documents
<1> HIDE DEF other
<1>2. ASSUME NEW rule \in doc.rules PROVE Follows(doc, rule, other, PolicyRule(doc, rule))
  <2> DEFINE new == PolicyRule(doc, rule)
  <2>1. rule \in RuleSpace /\ rule.action \in Actions /\ rule.profile \in References
    BY DEF Documents, RuleSpace
  <2>2. new.name = rule.name /\ new.profile = rule.profile /\ new.action = LegacyAction(doc, rule)
    BY <2>1 DEF PolicyRule, RuleSpace
  <2> HIDE DEF new
  <2>3. ProxyIdsOf(other) = ProxyIdsOf(doc)
    BY <1>1 DEF ProxyIdsOf
  <2>4. CASE rule.action # [type |-> "proxy", id |-> NoProxy]
    BY <1>1, <2>2, <2>3, <2>4 DEF LegacyAction, RouteOf, Target, Follows, new
  <2>5. CASE rule.action = [type |-> "proxy", id |-> NoProxy]
    <3>1. rule.action.type = "proxy" /\ Target(rule) = rule.profile
      BY <2>5 DEF Target
    <3>2. CASE rule.profile \in ProxyIdsOf(doc) /\ doc.proxies[rule.profile].kind = "direct"
      <4>1. new.action.type = "direct"
        BY <2>2, <2>5, <3>2 DEF LegacyAction
      <4>2. QED
        BY <2>2, <3>1, <3>2, <4>1 DEF RouteOf, Follows, new
    <3>3. CASE ~(rule.profile \in ProxyIdsOf(doc) /\ doc.proxies[rule.profile].kind = "direct")
      <4>1. new.action.type = "proxy" /\ new.action.id = rule.profile
        BY <2>2, <2>5, <3>3 DEF LegacyAction
      <4>2. Target(new) = rule.profile
        BY <2>2, <4>1 DEF Target
      <4>3. QED
        BY <1>1, <2>2, <2>3, <3>1, <4>1, <4>2 DEF RouteOf, Follows, new
    <3>4. QED
      BY <3>2, <3>3
  <2>6. QED
    BY <2>4, <2>5
<1>3. ASSUME NEW rule PROVE Follows(doc, rule, other, rule)
  BY <1>1 DEF Follows, RouteOf, ProxyIdsOf
<1>4. RoutesKept(doc, other)
  BY <1>1, <1>2, <1>3, FollowersKeep
<1>5. QED
  BY <1>4 DEF other

\* Rules follow their proxy to its new identifier.
LEMMA RenamedFollows ==
  ASSUME NEW doc \in Documents, NEW rule \in RuleSpace, NEW other \in Documents,
         other.proxies = BrandlessProxies(doc),
         other.proxies[NewId] # NoProxy, other.proxies[OldId] = NoProxy
  PROVE  Follows(doc, rule, other, RenamedRule(rule))
<1> DEFINE new == RenamedRule(rule)
<1>1. rule.action \in Actions /\ rule.profile \in References
  BY DEF RuleSpace
<1>2. /\ new.name = rule.name /\ new.profile = Renamed(rule.profile)
      /\ new.action = RenamedAction(rule.action)
  BY DEF RenamedRule, RuleSpace
<1> HIDE DEF new
<1>3. CASE rule.action.type # "proxy"
  <2>1. new.action = rule.action
    BY <1>2, <1>3 DEF RenamedAction
  <2>2. QED
    BY <1>2, <1>3, <2>1 DEF Follows, RouteOf, new
<1>4. CASE rule.action.type = "proxy"
  <2>1. new.action.type = "proxy" /\ new.action.id = Renamed(rule.action.id)
    BY <1>1, <1>2, <1>4 DEF RenamedAction, Actions
  <2>2. Target(new) = Renamed(Target(rule))
    BY <1>2, <2>1, IdsAssumption DEF Target, Renamed
  <2>3. ASSUME Target(rule) \in ProxyIdsOf(doc)
        PROVE  /\ Target(new) \in ProxyIdsOf(other)
               /\ other.proxies[Target(new)] = doc.proxies[Target(rule)]
    <3>1. doc.proxies \in [ProxyIds -> Proxies \cup {NoProxy}]
      BY DEF Documents
    <3>2. QED
      BY <2>2, <2>3, <3>1, IdsAssumption DEF Renamed, ProxyIdsOf, BrandlessProxies
  <2>4. QED
    BY <1>2, <1>4, <2>1, <2>3 DEF Follows, RouteOf, new
<1>5. QED
  BY <1>3, <1>4

\* Dropping the brand moves no rule, in force or in a profile.
LEMMA DebrandedKeeps ==
  ASSUME NEW doc \in Documents
  PROVE  RoutesKept(doc, Debranded(doc))
<1> DEFINE other == Debranded(doc)
           proxies == BrandlessProxies(doc)
<1>1. other \in Documents
  BY DebrandedType
<1>2. CASE proxies[NewId] # NoProxy /\ proxies[OldId] = NoProxy
  <2>1. /\ other.proxies = proxies
        /\ other.rules = {RenamedRule(rule) : rule \in doc.rules}
        /\ other.profiles = {RenamedProfile(profile) : profile \in doc.profiles}
    BY <1>2 DEF Debranded, Documents
  <2> HIDE DEF other, proxies
  <2>2. ASSUME NEW rule \in RuleSpace PROVE Follows(doc, rule, other, RenamedRule(rule))
    BY <1>1, <1>2, <2>1, RenamedFollows DEF proxies
  <2>3. \A rule \in doc.rules : rule \in RuleSpace
    BY DEF Documents
  <2>4. ASSUME NEW profile \in doc.profiles
        PROVE  \E next \in other.profiles :
                 /\ next.id = profile.id
                 /\ \A rule \in profile.rules :
                       \E new \in next.rules : Follows(doc, rule, other, new)
    <3>1. profile \in Profiles /\ \A rule \in profile.rules : rule \in RuleSpace
      BY DEF Documents, Profiles
    <3>2. /\ RenamedProfile(profile).id = profile.id
          /\ RenamedProfile(profile).rules = {RenamedRule(rule) : rule \in profile.rules}
      BY <3>1 DEF RenamedProfile, Profiles
    <3>3. RenamedProfile(profile) \in other.profiles
      BY <2>1
    <3>4. QED
      BY <2>2, <3>1, <3>2, <3>3
  <2>5. RoutesKept(doc, other)
    BY <2>1, <2>2, <2>3, <2>4, FollowersKeep
  <2>6. QED
    BY <2>5 DEF other
<1>3. CASE ~(proxies[NewId] # NoProxy /\ proxies[OldId] = NoProxy)
  <2>1. proxies = doc.proxies
    BY <1>3, IdsAssumption DEF BrandlessProxies, Documents
  <2>2. other.proxies = doc.proxies /\ other.rules = doc.rules /\ other.profiles = doc.profiles
    BY <1>3, <2>1 DEF Debranded, Documents
  <2> HIDE DEF other, proxies
  <2>3. ASSUME NEW rule PROVE Follows(doc, rule, other, rule)
    BY <2>2 DEF Follows, RouteOf, ProxyIdsOf
  <2>4. RoutesKept(doc, other)
    BY <2>2, <2>3, FollowersKeep
  <2>5. QED
    BY <2>4 DEF other
<1>4. QED
  BY <1>2, <1>3

\* Nothing that load_or_init does to a proxy or a rule moves its traffic.
LEMMA SameRoutes ==
  ASSUME NEW doc \in Documents, NEW other \in Documents,
         \A id \in ProxyIds :
           /\ doc.proxies[id] = NoProxy <=> other.proxies[id] = NoProxy
           /\ doc.proxies[id] # NoProxy =>
                /\ other.proxies[id].kind = doc.proxies[id].kind
                /\ other.proxies[id].endpoint = doc.proxies[id].endpoint,
         \A rule \in doc.rules : \E new \in other.rules :
           new.name = rule.name /\ new.action = rule.action /\ new.profile = rule.profile,
         other.profiles = doc.profiles
  PROVE  RoutesKept(doc, other)
<1>1. ProxyIdsOf(other) = ProxyIdsOf(doc)
  BY DEF ProxyIdsOf
<1>2. ASSUME NEW rule, NEW new,
             new.name = rule.name /\ new.action = rule.action /\ new.profile = rule.profile
      PROVE  Follows(doc, rule, other, new)
  <2>1. Target(new) = Target(rule)
    BY <1>2 DEF Target
  <2>2. QED
    BY <1>1, <1>2, <2>1 DEF Follows, RouteOf, ProxyIdsOf
<1>3. QED
  BY <1>2, FollowersKeep

\* Routes that are kept twice are kept.
LEMMA KeptTwice ==
  ASSUME NEW a, NEW b, NEW c, RoutesKept(a, b), RoutesKept(b, c)
  PROVE  RoutesKept(a, c)
BY DEF RoutesKept

\* No document loses a route to its upgrade.
LEMMA UpgradeKeepsRoutes ==
  ASSUME NEW doc \in Documents
  PROVE  RoutesKept(doc, Upgraded(doc))
<1> DEFINE four == IF doc.schema <= 3 THEN PolicyFields(doc) ELSE doc
           six == IF doc.schema <= 5 THEN Debranded(four) ELSE four
           one == Migrated(doc)
           two == Hydrated(one)
           three == Normalised(two)
<1>1. four \in Documents /\ RoutesKept(doc, four)
  BY PolicyFieldsType, PolicyKeeps DEF RoutesKept
<1>2. six \in Documents /\ RoutesKept(four, six)
  BY <1>1, DebrandedType, DebrandedKeeps DEF RoutesKept
<1>3. one \in Documents /\ RoutesKept(six, one)
  <2>1. one \in Documents /\ one = [six EXCEPT !.schema = CurrentSchema]
    BY MigratedType DEF Migrated
  <2> HIDE DEF one, six
  <2>2. one.proxies = six.proxies /\ one.rules = six.rules /\ one.profiles = six.profiles
    BY <1>2, <2>1 DEF Documents
  <2>3. QED
    BY <1>2, <2>1, <2>2, SameRoutes
<1>4. two \in Documents /\ RoutesKept(one, two)
  <2>1. /\ two \in Documents /\ two.rules = one.rules /\ two.profiles = one.profiles
        /\ two.proxies = [id \in ProxyIds |-> HydratedProxy(one.proxies[id])]
    <3> HIDE DEF one
    <3>1. QED
      BY <1>3, HydratedType DEF Hydrated, Documents
  <2>2. ASSUME NEW p \in Proxies \cup {NoProxy}
        PROVE  /\ p = NoProxy <=> HydratedProxy(p) = NoProxy
               /\ p # NoProxy => /\ HydratedProxy(p).kind = p.kind
                                 /\ HydratedProxy(p).endpoint = p.endpoint
    BY IdsAssumption, ProxyTypes DEF HydratedProxy, Proxies
  <2>3. \A id \in ProxyIds : one.proxies[id] \in Proxies \cup {NoProxy}
    BY <1>3 DEF Documents
  <2> HIDE DEF one, two
  <2>4. QED
    BY <1>3, <2>1, <2>2, <2>3, SameRoutes
<1>5. three \in Documents /\ RoutesKept(two, three)
  <2>1. /\ three \in Documents /\ three.profiles = two.profiles
        /\ three.rules = {NormalRule(rule) : rule \in two.rules}
        /\ three.proxies = [id \in ProxyIds |-> NormalProxy(two.proxies[id])]
    BY <1>4, NormalisedType
  <2>2. ASSUME NEW p \in Proxies \cup {NoProxy}
        PROVE  /\ p = NoProxy <=> NormalProxy(p) = NoProxy
               /\ p # NoProxy => /\ NormalProxy(p).kind = p.kind
                                 /\ NormalProxy(p).endpoint = p.endpoint
    BY IdsAssumption, ProxyTypes DEF NormalProxy, Proxies
  <2>3. /\ \A id \in ProxyIds : two.proxies[id] \in Proxies \cup {NoProxy}
        /\ \A rule \in two.rules : rule \in RuleSpace
    BY <1>4 DEF Documents
  <2>4. ASSUME NEW rule \in RuleSpace
        PROVE  /\ NormalRule(rule).name = rule.name /\ NormalRule(rule).action = rule.action
               /\ NormalRule(rule).profile = rule.profile
    BY DEF NormalRule, RuleSpace
  <2> HIDE DEF two, three
  <2>5. QED
    BY <1>4, <2>1, <2>2, <2>3, <2>4, SameRoutes
<1>6. RoutesKept(three, Upgraded(doc))
  <2>1. Upgraded(doc) = [three EXCEPT !.current = TRUE]
    BY DEF Upgraded
  <2> HIDE DEF three
  <2>2. /\ Upgraded(doc) \in Documents /\ Upgraded(doc).proxies = three.proxies
        /\ Upgraded(doc).rules = three.rules /\ Upgraded(doc).profiles = three.profiles
    BY <1>5, <2>1, CurrentType
  <2>3. QED
    BY <1>5, <2>2, SameRoutes
<1> HIDE DEF four, six, one, two, three
<1>7. QED
  BY <1>1, <1>2, <1>3, <1>4, <1>5, <1>6, KeptTwice


(***************************************************************************)
(* The inductive invariant, part by part.                                  *)
(***************************************************************************)

\* Validation leaves a load one thing to change.
LEMMA ValidIsCleared ==
  ASSUME NEW doc \in Documents, Valid(doc), doc.current, ~Plaintext(doc)
  PROVE  Upgraded(doc) = ChildrenCleared(doc)
<1>1. /\ doc.schema = CurrentSchema /\ doc.mode \notin {"wfp", "api_hook"}
      /\ \A rule \in doc.rules : rule.enabled => ~rule.hashes
      /\ \A item \in doc.quick : ~item.children
  BY DEF Valid, Available
<1>2. Migrated(doc) = doc
  <2>1. Migrated(doc) = [doc EXCEPT !.schema = CurrentSchema]
    BY <1>1 DEF Migrated, CurrentSchema
  <2>2. QED
    BY <1>1, <2>1 DEF Documents
<1>3. ASSUME NEW id \in ProxyIds
      PROVE  /\ HydratedProxy(doc.proxies[id]) = doc.proxies[id]
             /\ NormalProxy(doc.proxies[id]) = doc.proxies[id]
  <2>1. CASE doc.proxies[id] = NoProxy
    BY <2>1 DEF HydratedProxy, NormalProxy
  <2>2. CASE doc.proxies[id] # NoProxy
    <3>1. doc.proxies[id] \in Proxies /\ id \in ProxyIdsOf(doc)
      BY <2>2 DEF Documents, ProxyIdsOf
    <3>2. /\ doc.proxies[id].plain = FALSE
          /\ doc.proxies[id].enabled => doc.proxies[id].kind \in {"socks5", "direct"}
      BY <3>1 DEF Plaintext, Valid, Proxies
    <3>3. QED
      BY <2>2, <3>1, <3>2 DEF HydratedProxy, NormalProxy, Proxies
  <2>3. QED
    BY <2>1, <2>2
<1>4. Hydrated(doc) = doc
  <2>1. [id \in ProxyIds |-> HydratedProxy(doc.proxies[id])] = doc.proxies
    BY <1>3 DEF Documents
  <2>2. QED
    BY <2>1 DEF Hydrated, Documents
<1>5. Normalised(doc) = ChildrenCleared(doc)
  <2>1. [id \in ProxyIds |-> NormalProxy(doc.proxies[id])] = doc.proxies
    BY <1>3 DEF Documents
  <2>2. ASSUME NEW rule \in doc.rules PROVE NormalRule(rule) = [rule EXCEPT !.children = FALSE]
    <3>1. rule \in RuleSpace /\ rule.enabled = (rule.enabled /\ ~rule.hashes)
      BY <1>1 DEF Documents, RuleSpace
    <3>2. QED
      BY <3>1 DEF NormalRule, RuleSpace
  <2>3. {NormalRule(rule) : rule \in doc.rules}
        = {[rule EXCEPT !.children = FALSE] : rule \in doc.rules}
    BY <2>2
  <2>4. ASSUME NEW item \in doc.quick PROVE NormalLauncher(item) = item
    <3>1. item \in Launchers /\ item.children = FALSE
      BY <1>1 DEF Documents, Launchers
    <3>2. QED
      BY <3>1 DEF NormalLauncher, Launchers
  <2>5. {NormalLauncher(item) : item \in doc.quick} = doc.quick
    BY <2>4
  <2>6. Normalised(doc) = [doc EXCEPT !.mode = doc.mode, !.proxies = doc.proxies,
                             !.rules = {[rule EXCEPT !.children = FALSE] : rule \in doc.rules},
                             !.quick = doc.quick]
    BY <1>1, <2>1, <2>3, <2>5 DEF Normalised
  <2>7. QED
    BY <2>6 DEF ChildrenCleared, Documents
<1>6. [ChildrenCleared(doc) EXCEPT !.current = TRUE] = ChildrenCleared(doc)
  BY DEF ChildrenCleared, Documents
<1>7. QED
  BY <1>2, <1>4, <1>5, <1>6 DEF Upgraded

\* ... and a restart accepts what it makes of it.
LEMMA ClearedIsValid ==
  ASSUME NEW doc \in Documents, Valid(doc)
  PROVE  Valid(ChildrenCleared(doc))
<1> DEFINE new == ChildrenCleared(doc)
<1>1. /\ new.schema = doc.schema /\ new.mode = doc.mode /\ new.strict = doc.strict
      /\ new.proxies = doc.proxies /\ new.quick = doc.quick /\ new.profiles = doc.profiles
      /\ new.active = doc.active
      /\ new.rules = {[rule EXCEPT !.children = FALSE] : rule \in doc.rules}
  BY DEF ChildrenCleared, Documents
<1>2. ASSUME NEW rule \in new.rules
      PROVE  \E old \in doc.rules :
               /\ rule.action = old.action /\ rule.profile = old.profile
               /\ rule.enabled = old.enabled /\ rule.hashes = old.hashes /\ rule.exe = old.exe
               /\ rule.children = FALSE
  <2>1. PICK old \in doc.rules : rule = [old EXCEPT !.children = FALSE]
    BY <1>1
  <2>2. old \in RuleSpace
    BY DEF Documents
  <2>3. QED
    BY <2>1, <2>2 DEF RuleSpace
<1> HIDE DEF new
<1>3. ProxyIdsOf(new) = ProxyIdsOf(doc)
  BY <1>1 DEF ProxyIdsOf
<1>4. RuleTargetsExist(new.rules, ProxyIdsOf(new))
  <2>1. \A old \in doc.rules : old.action.type = "proxy" => Target(old) \in ProxyIdsOf(doc)
    BY DEF Valid, RuleTargetsExist
  <2>2. ASSUME NEW rule \in new.rules, rule.action.type = "proxy"
        PROVE  Target(rule) \in ProxyIdsOf(new)
    <3>1. PICK old \in doc.rules : rule.action = old.action /\ rule.profile = old.profile
      BY <1>2
    <3>2. Target(rule) = Target(old)
      BY <3>1 DEF Target
    <3>3. QED
      BY <1>3, <2>1, <2>2, <3>1, <3>2
  <2>3. QED
    BY <2>2 DEF RuleTargetsExist
<1>5. ASSUME NEW rule \in new.rules
      PROVE  /\ rule.enabled => ~rule.hashes /\ ~rule.children
             /\ new.strict /\ rule.enabled => rule.exe
  <2>1. PICK old \in doc.rules :
          /\ rule.enabled = old.enabled /\ rule.hashes = old.hashes /\ rule.exe = old.exe
          /\ rule.children = FALSE
    BY <1>2
  <2>2. /\ old.enabled => ~old.hashes
        /\ doc.strict /\ old.enabled => old.exe
    BY DEF Valid
  <2>3. QED
    BY <1>1, <2>1, <2>2
<1>6. Valid(new)
  BY <1>1, <1>3, <1>4, <1>5 DEF Valid
<1>7. QED
  BY <1>6 DEF new

\* A document with passwords in it is not what a load makes of it.
LEMMA PlaintextIsUpgraded ==
  ASSUME NEW doc \in Documents, Plaintext(doc)
  PROVE  Upgraded(doc) # doc
BY UpgradedIsCurrent, CurrentIsClean

\* What this version has written carries its stamp and no password, and what
\* a start makes of it is a configuration too.
LEMMA ConfigurationsKnown ==
  ASSUME NEW doc \in Configurations
  PROVE  /\ doc \in Documents /\ doc.schema = CurrentSchema
         /\ doc.current /\ ~Plaintext(doc)
         /\ Upgraded(doc) \in Configurations
<1>1. CASE doc \in Candidates
  BY <1>1, FileAssumption DEF Configurations, Reread, Valid
<1>2. CASE doc = Default
  BY <1>2, FileAssumption, UpgradedIsCurrent, CurrentIsClean DEF Configurations, CurrentDoc
<1>3. CASE doc \in Reread \cup Inherited
  <2>1. PICK d : d \in Documents /\ doc = Upgraded(d)
    BY <1>3, FileAssumption, LegacyAssumption DEF Reread, Inherited, IsDoc
  <2>2. doc \in Documents /\ CurrentDoc(doc) /\ Upgraded(doc) = doc
    BY <2>1, UpgradedIsCurrent, UpgradedOnce
  <2>3. QED
    BY <2>2, CurrentIsClean DEF CurrentDoc
<1>4. QED
  BY <1>1, <1>2, <1>3 DEF Configurations

\* What a start makes of a configuration is one.
LEMMA ReadingsAreConfigurations ==
  /\ Readings \subseteq Configurations
  /\ \A doc \in Configurations : Upgraded(doc) \in Readings
BY ConfigurationsKnown DEF Readings

\* Configurations are no markers; they parse.
LEMMA ConfigurationsAreDocs ==
  ASSUME NEW doc \in Configurations
  PROVE  /\ IsDoc(doc) /\ Readable(doc) /\ ~Plaintext(doc)
         /\ doc \notin {Absent, Torn, NoDoc}
<1>1. doc \in Documents /\ doc.schema = CurrentSchema
  BY ConfigurationsKnown
<1>2. doc \notin {Absent, Torn, NoDoc}
  BY <1>1, MarkersAssumption
<1>3. QED
  BY <1>1, <1>2, ConfigurationsKnown DEF IsDoc, Readable, CurrentSchema

\* The four files.
LEMMA FileNames ==
  /\ TempOf("config") = "config.tmp" /\ TempOf("backup") = "backup.tmp"
  /\ Names = {"config", "backup", "config.tmp", "backup.tmp"}
  /\ Files = {"config", "backup"}
  /\ \A dest \in Files : TempOf(dest) \in Names \ Files
BY DEF TempOf, Names, Files

\* What a start parses is in one of the files, and kept.
LEMMA ParsedKept ==
  ASSUME FTypeOK, Kept, Readable(Parsed)
  PROVE  /\ Parsed \in Documents
         /\ Upgraded(Parsed) \in Configurations
         /\ \E name \in Files : Parsed = file[name]
<1>1. \E name \in Files : Parsed = file[name]
  BY DEF Parsed, Files
<1>2. PICK name \in Files : Parsed = file[name]
  BY <1>1
<1>3. Parsed \in Documents
  BY <1>2, FileNames DEF FTypeOK, Readable, IsDoc
<1>4. Upgraded(Parsed) \in saved
  BY <1>2 DEF Kept
<1>5. QED
  BY <1>1, <1>3, <1>4, ReadingsAreConfigurations DEF FTypeOK

\* The candidates and the default are configurations.
LEMMA DefaultKnown ==
  /\ Default \in Configurations /\ Upgraded(Default) = Default /\ Default \in Documents
  /\ ~Plaintext(Default) /\ Valid(Default) /\ Default \notin {Absent, Torn, NoDoc}
  /\ Default \in Readings
  /\ \A doc \in Candidates :
       doc \in Configurations /\ Valid(doc) /\ doc \notin {Absent, Torn, NoDoc}
BY FileAssumption, ConfigurationsKnown, ConfigurationsAreDocs, ReadingsAreConfigurations
   DEF Configurations

\* Core gives up its configuration for the default, or for nothing.
LEMMA GivenUp ==
  ASSUME GiveUp
  PROVE  /\ job' = NoJob
         /\ \/ core' = "recovery" /\ mem' = Default
            \/ core' = "down" /\ mem' = NoDoc
         /\ core' \in {"down", "recovery"} /\ mem' \in Configurations \cup {NoDoc}
         /\ job' \in Jobs
BY DEF GiveUp, Configurations, Jobs, Stages, NoJob, Files

\* A load serves what it parsed, gives it up, or starts to write it.
LEMMA LoadCases ==
  ASSUME Load
  PROVE  /\ core = "down" /\ Readable(Parsed) /\ found' = Parsed
         /\ UNCHANGED <<file, interrupted, saved, faults>>
         /\ \/ /\ Upgraded(Parsed) = Parsed /\ file["config"] # Torn /\ Valid(Parsed)
               /\ core' = "up" /\ mem' = Parsed /\ job' = NoJob
            \/ Upgraded(Parsed) = Parsed /\ GiveUp
            \/ /\ core' = "loading" /\ mem' = mem
               /\ Write(Upgraded(Parsed), file["config"] # Torn /\ ~Plaintext(Parsed),
                        Plaintext(Parsed))
BY DEF Load, Serve

\* A load that has written publishes or gives up, a save publishes.
LEMMA PublishCases ==
  ASSUME Publish
  PROVE  /\ job.at = "publish"
         /\ UNCHANGED <<file, found, interrupted, saved, faults>>
         /\ \/ core = "loading" /\ GiveUp
            \/ /\ (core = "loading" /\ Valid(job.doc)) \/ Running
               /\ core' = "up" /\ mem' = job.doc /\ job' = NoJob
BY DEF Publish, Serve

\* A refused call ends the load or the save.
LEMMA FailedCases ==
  ASSUME Failed
  PROVE  \/ core = "loading" /\ GiveUp /\ interrupted' = (interrupted \/ Raw)
         \/ Running /\ job' = NoJob /\ UNCHANGED <<core, mem, interrupted>>
BY DEF Failed

\* Where a write begins.
LEMMA WriteBegun ==
  ASSUME NEW doc, NEW keep, NEW scrub \in BOOLEAN, Write(doc, keep, scrub)
  PROVE  /\ job'.at \in {"copy", "write"} /\ job'.doc = doc
         /\ job'.dest = "config" /\ job'.scrub = scrub
         /\ job'.at = "copy" <=> keep /\ file["config"] # Absent
         /\ doc \in Configurations => job' \in Jobs
BY FileNames DEF Write, Jobs, Stages

\* Whether there are passwords is a yes or a no.
LEMMA PlaintextBoolean == \A doc : Plaintext(doc) \in BOOLEAN
BY DEF Plaintext

\* Every step keeps the types.
LEMMA FileTyped == FTypeOK /\ Working /\ Writing /\ Kept /\ [Next]_vars =>
  FTypeOK'
<1> SUFFICES ASSUME FTypeOK, Working, Writing, Kept, [Next]_vars
             PROVE  FTypeOK'
  OBVIOUS
<1> USE ConfigurationsKnown, FileNames, FileAssumption DEF FTypeOK, Working,
      Writing, Jobs, Stages, NoJob, Configurations
<1>1. CASE LoadFirst
  BY <1>1 DEF LoadFirst, Write
<1>2. CASE Load
  <2>1. Parsed \in Documents /\ Upgraded(Parsed) \in Configurations
    BY <1>2, ParsedKept DEF Load
  <2>2. CASE GiveUp
    BY <1>2, <2>1, <2>2, LoadCases, GivenUp
  <2>3. CASE core' = "up" /\ mem' = Upgraded(Parsed) /\ job' = NoJob
    BY <1>2, <2>1, <2>3, LoadCases
  <2>4. CASE core' = "loading" /\ mem' = mem /\ job' \in Jobs
    BY <1>2, <2>1, <2>4, LoadCases
  <2>5. QED
    BY <1>2, <2>1, <2>2, <2>3, <2>4, LoadCases, WriteBegun, PlaintextBoolean
<1>3. CASE LoadRefused
  BY <1>3 DEF LoadRefused, GiveUp
<1>4. CASE LoadSecretRefused
  BY <1>4 DEF LoadSecretRefused, Fault, GiveUp
<1>5. ASSUME NEW doc \in Candidates, Save(doc) PROVE FTypeOK'
  BY <1>5 DEF Save, Write
<1>6. CASE CopyStarts
  BY <1>6 DEF CopyStarts
<1>7. CASE CopyEnds
  BY <1>7 DEF CopyEnds
<1>8. CASE WriteStarts
  BY <1>8 DEF WriteStarts
<1>9. CASE WriteEnds
  BY <1>9 DEF WriteEnds
<1>10. CASE Replace
  <2>1. job.doc \in Configurations
    BY <1>10 DEF Replace
  <2>2. Upgraded(job.doc) \in Readings
    BY <2>1, ReadingsAreConfigurations
  <2>3. QED
    BY <1>10, <2>2 DEF Replace
<1>11. CASE Publish
  <2>1. CASE GiveUp
    BY <1>11, <2>1, PublishCases, GivenUp
  <2>2. CASE core' = "up" /\ mem' = job.doc /\ job' = NoJob
    BY <1>11, <2>2, PublishCases
  <2>3. QED
    BY <1>11, <2>1, <2>2, PublishCases
<1>12. CASE BackupRefused
  <2>1. UNCHANGED <<file, found, saved>> /\ faults' \in 0..MaxFaults
    BY <1>12 DEF BackupRefused, Fault
  <2>2. CASE core = "loading" /\ GiveUp /\ interrupted' = (interrupted \/ Raw)
    BY <2>1, <2>2, GivenUp
  <2>3. CASE Running /\ job' = NoJob /\ UNCHANGED <<core, mem, interrupted>>
    BY <2>1, <2>3
  <2>4. QED
    BY <1>12, <2>2, <2>3, FailedCases DEF BackupRefused
<1>13. CASE WriteRefused
  <2>1. UNCHANGED <<found, saved>> /\ faults' \in 0..MaxFaults
    BY <1>13 DEF WriteRefused, Fault
  <2>2. file' \in [Names -> Documents \cup {Absent, Torn}]
    BY <1>13 DEF WriteRefused
  <2>3. CASE core = "loading" /\ GiveUp /\ interrupted' = (interrupted \/ Raw)
    BY <2>1, <2>2, <2>3, GivenUp
  <2>4. CASE Running /\ job' = NoJob /\ UNCHANGED <<core, mem, interrupted>>
    BY <2>1, <2>2, <2>4
  <2>5. QED
    BY <1>13, <2>3, <2>4, FailedCases DEF WriteRefused
<1>14. CASE Crash
  BY <1>14 DEF Crash
<1>15. CASE Damage
  BY <1>15 DEF Damage, Fault
<1>16. CASE UNCHANGED vars
  BY <1>16 DEF vars
<1> HIDE DEF FTypeOK
<1>17. QED
  BY <1>1, <1>2, <1>3, <1>4, <1>5, <1>6, <1>7, <1>8, <1>9, <1>10, <1>11,
     <1>12, <1>13, <1>14, <1>15, <1>16 DEF Next

\* A write is under way exactly while a load is or a running Core saves.
LEMMA WorkingPreserved == FTypeOK /\ Working /\ Writing /\ Kept /\ [Next]_vars
  => Working'
<1> SUFFICES ASSUME FTypeOK, Working, Writing, Kept, [Next]_vars
             PROVE  Working'
  OBVIOUS
<1> USE FileNames, MarkersAssumption DEF FTypeOK, Working, Running, Jobs,
      Stages, NoJob
<1>1. CASE LoadFirst
  BY DefaultKnown, <1>1 DEF LoadFirst, Write
<1>2. CASE Load
  <2>1. /\ Parsed \in Documents /\ Upgraded(Parsed) \in Configurations
        /\ \E name \in Files : Parsed = file[name]
    BY <1>2, ParsedKept DEF Load
  <2>2. CASE /\ Upgraded(Parsed) = Parsed /\ file["config"] # Torn
             /\ core' = "up" /\ mem' = Parsed /\ job' = NoJob /\ Valid(Parsed)
    BY <1>2, <2>1, <2>2, LoadCases, ConfigurationsAreDocs, DefaultKnown
  <2>3. CASE Upgraded(Parsed) = Parsed /\ GiveUp
    BY <1>2, <2>1, <2>3, LoadCases, GivenUp, ConfigurationsAreDocs, DefaultKnown
  <2>4. CASE /\ core' = "loading" /\ mem' = mem
             /\ Write(Upgraded(Parsed), file["config"] # Torn /\ ~Plaintext(Parsed),
                      Plaintext(Parsed))
    BY <1>2, <2>1, <2>4, LoadCases, WriteBegun, PlaintextBoolean, ConfigurationsAreDocs,
       DefaultKnown
  <2>5. QED
    BY <1>2, <2>2, <2>3, <2>4, LoadCases
<1>3. CASE LoadRefused
  BY <1>3, GivenUp, DefaultKnown DEF LoadRefused
<1>4. CASE LoadSecretRefused
  BY <1>4, GivenUp, DefaultKnown DEF LoadSecretRefused, Fault
<1>5. ASSUME NEW doc \in Candidates, Save(doc) PROVE Working'
  BY DefaultKnown, <1>5 DEF Save, Write
<1>6. CASE CopyStarts
  BY <1>6 DEF CopyStarts
<1>7. CASE CopyEnds
  BY <1>7 DEF CopyEnds
<1>8. CASE WriteStarts
  BY <1>8 DEF WriteStarts
<1>9. CASE WriteEnds
  BY <1>9 DEF WriteEnds
<1>10. CASE Replace
  BY <1>10 DEF Replace
<1>11. CASE Publish
  <2>1. CASE core = "loading" /\ GiveUp
    BY <1>11, <2>1, PublishCases, GivenUp, DefaultKnown
  <2>2. CASE /\ (core = "loading" /\ Valid(job.doc)) \/ Running
             /\ core' = "up" /\ mem' = job.doc /\ job' = NoJob
    BY <1>11, <2>2, PublishCases, DefaultKnown
  <2>3. QED
    BY <1>11, <2>1, <2>2, PublishCases
<1>12. CASE BackupRefused
  <2>1. UNCHANGED <<file, found, saved>>
    BY <1>12 DEF BackupRefused
  <2>2. CASE core = "loading" /\ GiveUp /\ interrupted' = (interrupted \/ Raw)
    BY <2>1, <2>2, GivenUp, DefaultKnown
  <2>3. CASE Running /\ job' = NoJob /\ UNCHANGED <<core, mem, interrupted>>
    BY <1>12, <2>1, <2>3 DEF BackupRefused
  <2>4. QED
    BY <1>12, <2>2, <2>3, FailedCases DEF BackupRefused
<1>13. CASE WriteRefused
  <2>1. UNCHANGED <<found, saved>>
    BY <1>13 DEF WriteRefused
  <2>2. /\ job.dest \in Files /\ \A name \in Files : file'[name] = file[name]
        /\ \A name \in Files : file'[TempOf(name)] \in {file[TempOf(name)], Absent}
    BY <1>13 DEF WriteRefused
  <2>3. CASE core = "loading" /\ GiveUp /\ interrupted' = (interrupted \/ Raw)
    BY <2>1, <2>2, <2>3, GivenUp, DefaultKnown
  <2>4. CASE Running /\ job' = NoJob /\ UNCHANGED <<core, mem, interrupted>>
    BY <1>13, <2>1, <2>2, <2>4 DEF WriteRefused
  <2>5. QED
    BY <1>13, <2>3, <2>4, FailedCases DEF WriteRefused
<1>14. CASE Crash
  BY <1>14 DEF Crash
<1>15. CASE Damage
  BY <1>15 DEF Damage, Fault
<1>16. CASE UNCHANGED vars
  BY <1>16 DEF vars
<1> HIDE DEF Working
<1>17. QED
  BY <1>1, <1>2, <1>3, <1>4, <1>5, <1>6, <1>7, <1>8, <1>9, <1>10, <1>11,
     <1>12, <1>13, <1>14, <1>15, <1>16 DEF Next

\* What is moved is complete, and what is published is stored.
LEMMA WritingPreserved == FTypeOK /\ Working /\ Writing /\ Kept /\ [Next]_vars
  => Writing'
<1> SUFFICES ASSUME FTypeOK, Working, Writing, Kept, [Next]_vars
             PROVE  Writing'
  OBVIOUS
<1> USE FileNames, MarkersAssumption DEF FTypeOK, Working, Writing, Running,
      Jobs, Stages, NoJob
<1>1. CASE LoadFirst
  BY <1>1 DEF LoadFirst, Write
<1>2. CASE Load
  <2>1. /\ Parsed \in Documents /\ Upgraded(Parsed) \in Configurations
        /\ \E name \in Files : Parsed = file[name]
    BY <1>2, ParsedKept DEF Load
  <2>2. CASE /\ Upgraded(Parsed) = Parsed /\ file["config"] # Torn
             /\ core' = "up" /\ mem' = Parsed /\ job' = NoJob
    BY <1>2, <2>1, <2>2, LoadCases, ConfigurationsAreDocs, DefaultKnown DEF Parsed
  <2>3. CASE Upgraded(Parsed) = Parsed /\ GiveUp
    BY <1>2, <2>1, <2>3, LoadCases, GivenUp, ConfigurationsAreDocs, DefaultKnown
  <2>4. CASE /\ core' = "loading" /\ mem' = mem
             /\ Write(Upgraded(Parsed), file["config"] # Torn /\ ~Plaintext(Parsed),
                      Plaintext(Parsed))
    BY <1>2, <2>1, <2>4, LoadCases, WriteBegun, PlaintextBoolean, ConfigurationsAreDocs,
       DefaultKnown DEF Parsed
  <2>5. QED
    BY <1>2, <2>2, <2>3, <2>4, LoadCases
<1>3. CASE LoadRefused
  BY <1>3, GivenUp, DefaultKnown DEF LoadRefused
<1>4. CASE LoadSecretRefused
  BY <1>4, GivenUp, DefaultKnown DEF LoadSecretRefused, Fault
<1>5. ASSUME NEW doc \in Candidates, Save(doc) PROVE Writing'
  BY <1>5 DEF Save, Write
<1>6. CASE CopyStarts
  BY <1>6 DEF CopyStarts
<1>7. CASE CopyEnds
  BY <1>7 DEF CopyEnds
<1>8. CASE WriteStarts
  BY <1>8 DEF WriteStarts
<1>9. CASE WriteEnds
  BY <1>9 DEF WriteEnds
<1>10. CASE Replace
  BY <1>10 DEF Replace
<1>11. CASE Publish
  <2>1. CASE core = "loading" /\ GiveUp
    BY <1>11, <2>1, PublishCases, GivenUp, DefaultKnown
  <2>2. CASE /\ core = "loading" \/ Running
             /\ core' = "up" /\ mem' = job.doc /\ job' = NoJob
    BY <1>11, <2>2, PublishCases, DefaultKnown
  <2>3. QED
    BY <1>11, <2>1, <2>2, PublishCases
<1>12. CASE BackupRefused
  <2>1. UNCHANGED <<file, found, saved>>
    BY <1>12 DEF BackupRefused
  <2>2. CASE core = "loading" /\ GiveUp /\ interrupted' = (interrupted \/ Raw)
    BY <2>1, <2>2, GivenUp, DefaultKnown
  <2>3. CASE Running /\ job' = NoJob /\ UNCHANGED <<core, mem, interrupted>>
    BY <1>12, <2>1, <2>3 DEF BackupRefused
  <2>4. QED
    BY <1>12, <2>2, <2>3, FailedCases DEF BackupRefused
<1>13. CASE WriteRefused
  <2>1. UNCHANGED <<found, saved>>
    BY <1>13 DEF WriteRefused
  <2>2. /\ job.dest \in Files /\ \A name \in Files : file'[name] = file[name]
        /\ \A name \in Files : file'[TempOf(name)] \in {file[TempOf(name)], Absent}
    BY <1>13 DEF WriteRefused
  <2>3. CASE core = "loading" /\ GiveUp /\ interrupted' = (interrupted \/ Raw)
    BY <2>1, <2>2, <2>3, GivenUp, DefaultKnown
  <2>4. CASE Running /\ job' = NoJob /\ UNCHANGED <<core, mem, interrupted>>
    BY <1>13, <2>1, <2>2, <2>4 DEF WriteRefused
  <2>5. QED
    BY <1>13, <2>3, <2>4, FailedCases DEF WriteRefused
<1>14. CASE Crash
  BY <1>14 DEF Crash
<1>15. CASE Damage
  BY <1>15 DEF Damage, Fault
<1>16. CASE UNCHANGED vars
  BY <1>16 DEF vars
<1> HIDE DEF Writing
<1>17. QED
  BY <1>1, <1>2, <1>3, <1>4, <1>5, <1>6, <1>7, <1>8, <1>9, <1>10, <1>11,
     <1>12, <1>13, <1>14, <1>15, <1>16 DEF Next

\* The files hold what was in force, the temporaries what is to be.
LEMMA KeptPreserved == FTypeOK /\ Working /\ Writing /\ Kept /\ [Next]_vars =>
  Kept'
<1> SUFFICES ASSUME FTypeOK, Working, Writing, Kept, [Next]_vars
             PROVE  Kept'
  OBVIOUS
<1> USE FileNames, MarkersAssumption DEF FTypeOK, Working, Writing, Kept,
      Running, Jobs, Stages, NoJob
<1>1. CASE LoadFirst
  BY <1>1 DEF LoadFirst, Write
<1>2. CASE Load
  <2>1. /\ Parsed \in Documents /\ Upgraded(Parsed) \in Configurations
        /\ \E name \in Files : Parsed = file[name]
    BY <1>2, ParsedKept DEF Load
  <2>2. CASE /\ Upgraded(Parsed) = Parsed /\ file["config"] # Torn
             /\ core' = "up" /\ mem' = Parsed /\ job' = NoJob
    BY <1>2, <2>1, <2>2, LoadCases, ConfigurationsAreDocs
  <2>3. CASE Upgraded(Parsed) = Parsed /\ GiveUp
    BY <1>2, <2>1, <2>3, LoadCases, GivenUp, ConfigurationsAreDocs
  <2>4. CASE /\ core' = "loading" /\ mem' = mem
             /\ Write(Upgraded(Parsed), file["config"] # Torn /\ ~Plaintext(Parsed),
                      Plaintext(Parsed))
    BY <1>2, <2>1, <2>4, LoadCases, WriteBegun, PlaintextBoolean, ConfigurationsAreDocs
  <2>5. QED
    BY <1>2, <2>2, <2>3, <2>4, LoadCases
<1>3. CASE LoadRefused
  BY <1>3 DEF LoadRefused, GiveUp
<1>4. CASE LoadSecretRefused
  BY <1>4 DEF LoadSecretRefused, Fault, GiveUp
<1>5. ASSUME NEW doc \in Candidates, Save(doc) PROVE Kept'
  BY <1>5 DEF Save, Write
<1>6. CASE CopyStarts
  <2>1. ~Readable(Torn) /\ ~Readable(Absent)
    BY DEF Readable, IsDoc
  <2>2. QED
    BY <1>6, <2>1 DEF CopyStarts
<1>7. CASE CopyEnds
  BY <1>7 DEF CopyEnds
<1>8. CASE WriteStarts
  BY <1>8 DEF WriteStarts
<1>9. CASE WriteEnds
  BY <1>9 DEF WriteEnds
<1>10. CASE Replace
  <2>1. job.doc \in Configurations /\ file[TempOf(job.dest)] = job.doc
    BY <1>10 DEF Replace
  <2>2. /\ file' = [file EXCEPT ![job.dest] = job.doc, ![TempOf(job.dest)] = Absent]
        /\ saved' = saved \cup {Upgraded(job.doc)}
    BY <1>10, <2>1 DEF Replace
  <2>3. \A name \in Files : file'[name] = IF name = job.dest THEN job.doc ELSE file[name]
    BY <2>2
  <2>4. \A name \in Files : Readable(file[name])' => Upgraded(file'[name]) \in saved'
    BY <2>1, <2>2, <2>3 DEF Readable, IsDoc
  <2>5. \A name \in Files : file'[TempOf(name)] \in {file[TempOf(name)], Absent}
    BY <2>2
  <2>6. QED
    BY <2>4, <2>5
<1>11. CASE Publish
  <2>1. CASE core = "loading" /\ GiveUp
    BY <1>11, <2>1, PublishCases, GivenUp
  <2>2. CASE /\ core = "loading" \/ Running
             /\ core' = "up" /\ mem' = job.doc /\ job' = NoJob
    BY <1>11, <2>2, PublishCases
  <2>3. QED
    BY <1>11, <2>1, <2>2, PublishCases
<1>12. CASE BackupRefused
  <2>1. UNCHANGED <<file, found, saved>>
    BY <1>12 DEF BackupRefused
  <2>2. CASE core = "loading" /\ GiveUp /\ interrupted' = (interrupted \/ Raw)
    BY <2>1, <2>2, GivenUp
  <2>3. CASE Running /\ job' = NoJob /\ UNCHANGED <<core, mem, interrupted>>
    BY <1>12, <2>1, <2>3 DEF BackupRefused
  <2>4. QED
    BY <1>12, <2>2, <2>3, FailedCases DEF BackupRefused
<1>13. CASE WriteRefused
  <2>1. UNCHANGED <<found, saved>>
    BY <1>13 DEF WriteRefused
  <2>2. /\ job.dest \in Files /\ \A name \in Files : file'[name] = file[name]
        /\ \A name \in Files : file'[TempOf(name)] \in {file[TempOf(name)], Absent}
    BY <1>13 DEF WriteRefused
  <2>3. CASE core = "loading" /\ GiveUp /\ interrupted' = (interrupted \/ Raw)
    BY <2>1, <2>2, <2>3, GivenUp
  <2>4. CASE Running /\ job' = NoJob /\ UNCHANGED <<core, mem, interrupted>>
    BY <1>13, <2>1, <2>2, <2>4 DEF WriteRefused
  <2>5. QED
    BY <1>13, <2>3, <2>4, FailedCases DEF WriteRefused
<1>14. CASE Crash
  BY <1>14 DEF Crash
<1>15. CASE Damage
  <2>1. ~Readable(Torn)
    BY DEF Readable, IsDoc
  <2>2. QED
    BY <1>15, <2>1 DEF Damage
<1>16. CASE UNCHANGED vars
  BY <1>16 DEF vars
<1> HIDE DEF Kept
<1>17. QED
  BY <1>1, <1>2, <1>3, <1>4, <1>5, <1>6, <1>7, <1>8, <1>9, <1>10, <1>11,
     <1>12, <1>13, <1>14, <1>15, <1>16 DEF Next

\* Passwords are only where a load still removes them.
LEMMA SealedPreserved == FTypeOK /\ Working /\ Writing /\ Kept /\ Sealed /\
  [Next]_vars => Sealed'
<1> SUFFICES ASSUME FTypeOK, Working, Writing, Kept, Sealed, [Next]_vars
             PROVE  Sealed'
  OBVIOUS
<1> USE FileNames, MarkersAssumption DEF FTypeOK, Working, Writing, Kept,
      Sealed, Raw, RawFile, Running, Jobs, Stages, NoJob
<1>1. CASE LoadFirst
  <2>1. Parsed = Absent /\ ~Readable(Absent)
    BY <1>1 DEF LoadFirst, Parsed, Readable, IsDoc
  <2>2. QED
    BY <1>1, <2>1 DEF LoadFirst
<1>2. CASE Load
  <2>1. /\ Parsed \in Documents /\ Upgraded(Parsed) \in Configurations
        /\ \E name \in Files : Parsed = file[name]
    BY <1>2, ParsedKept DEF Load
  <2>2. CASE /\ Upgraded(Parsed) = Parsed /\ file["config"] # Torn
             /\ core' = "up" /\ mem' = Parsed /\ job' = NoJob
    BY <1>2, <2>1, <2>2, LoadCases, ConfigurationsAreDocs
  <2>3. CASE Upgraded(Parsed) = Parsed /\ GiveUp
    BY <1>2, <2>1, <2>3, LoadCases, GivenUp, ConfigurationsAreDocs
  <2>4. CASE /\ core' = "loading" /\ mem' = mem
             /\ Write(Upgraded(Parsed), file["config"] # Torn /\ ~Plaintext(Parsed),
                      Plaintext(Parsed))
    <3>1. ~Plaintext(Parsed) /\ Raw => file["config"] = Parsed
      BY DEF Parsed, IsDoc
    <3>2. file["config"] = Parsed => file["config"] \notin {Torn, Absent}
      BY <1>2, LoadCases DEF Readable, IsDoc
    <3>3. /\ job'.at \in {"copy", "write"}
          /\ job'.at = "copy" <=> file["config"] # Torn /\ ~Plaintext(Parsed)
                                   /\ file["config"] # Absent
      BY <2>4 DEF Write
    <3>4. QED
      BY <1>2, <2>4, <3>1, <3>2, <3>3, LoadCases
  <2>5. QED
    BY <1>2, <2>2, <2>3, <2>4, LoadCases
<1>3. CASE LoadRefused
  BY <1>3 DEF LoadRefused, GiveUp
<1>4. CASE LoadSecretRefused
  BY <1>4 DEF LoadSecretRefused, Fault, GiveUp
<1>5. ASSUME NEW doc \in Candidates, Save(doc) PROVE Sealed'
  BY <1>5 DEF Save, Write
<1>6. CASE CopyStarts
  <2>1. ~IsDoc(Torn)
    BY DEF IsDoc
  <2>2. /\ Raw' => RawFile("config")
        /\ RawFile("config")' <=> RawFile("config")
    BY <1>6, <2>1 DEF CopyStarts
  <2>3. /\ core # "down" /\ UNCHANGED <<core, found, interrupted>>
        /\ job'.at = "copying"
    BY <1>6 DEF CopyStarts
  <2>4. QED
    BY <2>2, <2>3
<1>7. CASE CopyEnds
  BY <1>7 DEF CopyEnds
<1>8. CASE WriteStarts
  BY <1>8 DEF WriteStarts
<1>9. CASE WriteEnds
  BY <1>9 DEF WriteEnds
<1>10. CASE Replace
  <2>1. /\ job.doc \in Configurations /\ ~Plaintext(job.doc)
        /\ file' = [file EXCEPT ![job.dest] = job.doc, ![TempOf(job.dest)] = Absent]
    BY <1>10, ConfigurationsAreDocs DEF Replace
  <2>2. \A name \in Files : file'[name] = IF name = job.dest THEN job.doc ELSE file[name]
    BY <2>1
  <2>3. Raw' => Raw
    BY <2>1, <2>2
  <2>4. /\ core # "down" /\ UNCHANGED <<core, found, interrupted>>
        /\ job.at = "replace" /\ (job.scrub => job'.at = "write")
    BY <1>10 DEF Replace
  <2>5. job.dest = "backup" => ~Raw'
    BY <1>10, <2>1, <2>2 DEF Replace
  <2>6. QED
    BY <2>3, <2>4, <2>5
<1>11. CASE Publish
  <2>1. CASE core = "loading" /\ GiveUp
    BY <1>11, <2>1, PublishCases, GivenUp
  <2>2. CASE /\ core = "loading" \/ Running
             /\ core' = "up" /\ mem' = job.doc /\ job' = NoJob
    BY <1>11, <2>2, PublishCases
  <2>3. QED
    BY <1>11, <2>1, <2>2, PublishCases
<1>12. CASE BackupRefused
  <2>1. UNCHANGED <<file, found, saved>>
    BY <1>12 DEF BackupRefused
  <2>2. CASE core = "loading" /\ GiveUp /\ interrupted' = (interrupted \/ Raw)
    BY <2>1, <2>2, GivenUp
  <2>3. CASE Running /\ job' = NoJob /\ UNCHANGED <<core, mem, interrupted>>
    BY <1>12, <2>1, <2>3 DEF BackupRefused
  <2>4. QED
    BY <1>12, <2>2, <2>3, FailedCases DEF BackupRefused
<1>13. CASE WriteRefused
  <2>1. UNCHANGED <<found, saved>>
    BY <1>13 DEF WriteRefused
  <2>2. /\ job.dest \in Files /\ \A name \in Files : file'[name] = file[name]
        /\ \A name \in Files : file'[TempOf(name)] \in {file[TempOf(name)], Absent}
    BY <1>13 DEF WriteRefused
  <2>3. CASE core = "loading" /\ GiveUp /\ interrupted' = (interrupted \/ Raw)
    BY <2>1, <2>2, <2>3, GivenUp
  <2>4. CASE Running /\ job' = NoJob /\ UNCHANGED <<core, mem, interrupted>>
    BY <1>13, <2>1, <2>2, <2>4 DEF WriteRefused
  <2>5. QED
    BY <1>13, <2>3, <2>4, FailedCases DEF WriteRefused
<1>14. CASE Crash
  BY <1>14 DEF Crash
<1>15. CASE Damage
  <2>1. /\ core' = "down" /\ file'["config"] = Torn /\ file'["backup"] = file["backup"]
        /\ Readable(file["backup"])
    BY <1>15 DEF Damage
  <2>2. Parsed' = file["backup"]
    BY <2>1 DEF Parsed, Readable
  <2>3. Raw' => Plaintext(file["backup"])
    BY <2>1 DEF IsDoc
  <2>4. Plaintext(file["backup"]) => Upgraded(file["backup"]) # file["backup"]
    BY <2>1, UpgradedIsCurrent, CurrentIsClean DEF Readable, IsDoc
  <2>5. QED
    BY <2>1, <2>2, <2>3, <2>4
<1>16. CASE UNCHANGED vars
  BY <1>16 DEF vars, Parsed, Readable, IsDoc
<1> HIDE DEF Sealed
<1>17. QED
  BY <1>1, <1>2, <1>3, <1>4, <1>5, <1>6, <1>7, <1>8, <1>9, <1>10, <1>11,
     <1>12, <1>13, <1>14, <1>15, <1>16 DEF Next

\* What an earlier version left satisfies the invariant.
LEMMA InitFInv == Init => FInv
<1> SUFFICES ASSUME Init PROVE FInv
  OBVIOUS
<1>1. PICK pair \in LegacyFiles :
        /\ file = [name \in Names |-> IF name = "config" THEN pair[1]
                                      ELSE IF name = "backup" THEN pair[2] ELSE Absent]
        /\ saved = {Upgraded(c) : c \in {d \in {pair[1], pair[2]} : Readable(d)}}
                   \cup (IF pair[1] = Absent THEN {Default} ELSE {})
  BY DEF Init
<1>2. {pair[1], pair[2]} \subseteq Documents \cup {Absent, Torn}
  BY LegacyAssumption
<1>3. /\ file["config"] = pair[1] /\ file["backup"] = pair[2]
      /\ file["config.tmp"] = Absent /\ file["backup.tmp"] = Absent
      /\ file \in [Names -> Documents \cup {Absent, Torn}]
  BY <1>1, <1>2, FileNames
<1>4. \A c \in {pair[1], pair[2]} : Readable(c) => Upgraded(c) \in Inherited
  BY DEF Inherited, Readable, IsDoc
<1>5. /\ core = "down" /\ mem = NoDoc /\ job = NoJob /\ found = NoDoc
      /\ interrupted = FALSE /\ faults \in 0..MaxFaults
  BY FileAssumption DEF Init
<1>6. FTypeOK
  <2>1. saved \subseteq Readings
    <3>1. ASSUME NEW c \in {pair[1], pair[2]}, Readable(c) PROVE Upgraded(c) \in Readings
      <4>1. Upgraded(c) \in Configurations
        BY <1>4, <3>1 DEF Configurations
      <4>2. c \in Documents
        BY <1>2, <3>1 DEF Readable, IsDoc
      <4>3. QED
        BY <4>1, <4>2, UpgradedOnce, ReadingsAreConfigurations
    <3>2. QED
      BY <1>1, <3>1, DefaultKnown
  <2>2. job \in Jobs
    BY <1>5 DEF NoJob, Jobs, Stages, Files
  <2>3. QED
    BY <1>3, <1>5, <2>1, <2>2 DEF FTypeOK
<1>7. Working /\ Writing
  BY <1>5 DEF Working, Writing, Running, NoJob
<1>8. Kept
  BY <1>1, <1>3, FileNames DEF Kept
<1>9. Sealed
  <2>1. Raw => Readable(Parsed) /\ Upgraded(Parsed) # Parsed
    BY <1>3, LegacyAssumption DEF Raw, RawFile, Parsed, Files
  <2>2. QED
    BY <1>5, <2>1 DEF Sealed, Running
<1>10. QED
  BY <1>6, <1>7, <1>8, <1>9 DEF FInv

\* Every step preserves it.
LEMMA NextFInv == FInv /\ [Next]_vars => FInv'
BY FileTyped, WorkingPreserved, WritingPreserved, KeptPreserved, SealedPreserved DEF FInv

\* Whatever is refused, cut short or damaged, the steps of a load and of a
\* save find what they rely on.
THEOREM FileInvariant == Spec => []FInv
BY InitFInv, NextFInv, PTL DEF Spec

\* A running Core serves what its file holds, and a restart accepts it and
\* reads the same, the child inheritance of disabled rules excepted.
THEOREM ServesWhatIsStored == Spec => []ServedIsStored
<1>1. ASSUME FInv, core = "up", job.at # "publish"
      PROVE  mem = file["config"] /\ Valid(Stored) /\ Stored = ChildrenCleared(mem)
  <2>1. mem \in Configurations /\ mem = file["config"] /\ Valid(mem)
    BY <1>1 DEF FInv, FTypeOK, Working, Writing, Running
  <2>2. mem \in Documents /\ mem.current /\ ~Plaintext(mem)
    BY <2>1, ConfigurationsKnown
  <2>3. mem \notin {Absent, Torn} /\ Readable(mem)
    BY <2>1, ConfigurationsAreDocs
  <2>4. Stored = Upgraded(mem)
    BY <2>1, <2>3 DEF Stored, Parsed
  <2>5. QED
    BY <2>1, <2>2, <2>4, ValidIsCleared, ClearedIsValid
<1>2. QED
  BY <1>1, FileInvariant, PTL DEF ServedIsStored

\* Once loaded, no password is left in any file, a load cut short excepted.
THEOREM PasswordsLeaveTheFiles == Spec => []PlaintextGone
<1>1. FInv => PlaintextGone
  <2> SUFFICES ASSUME FInv, Running, ~interrupted, NEW name \in Names, IsDoc(file[name])
               PROVE  ~Plaintext(file[name])
    BY DEF PlaintextGone
  <2>1. CASE name \in Files
    BY <2>1 DEF FInv, Sealed, Raw, RawFile
  <2>2. CASE name \notin Files
    <3>1. file[name] \in Configurations \cup {Absent, Torn}
      BY <2>2, FileNames DEF FInv, Kept
    <3>2. QED
      BY <3>1, ConfigurationsAreDocs DEF IsDoc
  <2>3. QED
    BY <2>1, <2>2
<1>2. QED
  BY <1>1, FileInvariant, PTL

\* What a load writes leads every rule where the document it read led it.
THEOREM MigrationMovesNoTraffic == Spec => []MigrationKeepsRoutes
<1>1. FInv => MigrationKeepsRoutes
  BY UpgradeKeepsRoutes DEF FInv, Working, MigrationKeepsRoutes, RoutesKept
<1>2. QED
  BY <1>1, FileInvariant, PTL

\* No step copies passwords over the backup, a load cut short excepted.
THEOREM BackupStaysClean == Spec => NoRawBackup
<1> DEFINE Clean == IsDoc(file'["backup"]) /\ Plaintext(file'["backup"]) =>
                      file'["backup"] = file["backup"] \/ interrupted
<1>1. FInv /\ [Next]_vars => [Clean]_vars
  <2> SUFFICES ASSUME FInv, Next, file'["backup"] # file["backup"], ~interrupted
               PROVE  ~(IsDoc(file'["backup"]) /\ Plaintext(file'["backup"]))
    OBVIOUS
  <2> USE FileNames DEF FInv, FTypeOK
  <2>1. CASE CopyStarts
    BY <2>1 DEF CopyStarts, IsDoc
  <2>2. CASE CopyEnds
    <3>1. file'["backup"] = file["config"] /\ job.at = "copying"
      BY <2>2 DEF CopyEnds
    <3>2. core = "loading" => ~Plaintext(found)
      BY <3>1 DEF Working, Writing
    <3>3. core # "down"
      BY <3>1 DEF Working, NoJob
    <3>4. ~RawFile("config")
      BY <3>2, <3>3 DEF Sealed, Running, Raw
    <3>5. QED
      BY <3>1, <3>4 DEF RawFile
  <2>3. CASE Replace
    <3>1. job.doc \in Configurations
      BY <2>3 DEF Replace, Working, NoJob, Jobs
    <3>2. file'["backup"] = job.doc
      BY <2>3 DEF Replace, Writing, Jobs
    <3>3. QED
      BY <3>1, <3>2, ConfigurationsAreDocs
  <2>4. CASE WriteStarts \/ WriteEnds
    BY <2>4 DEF WriteStarts, WriteEnds, Jobs
  <2>5. CASE WriteRefused
    BY <2>5 DEF WriteRefused, Jobs
  <2>6. CASE Damage
    BY <2>6 DEF Damage
  <2>7. CASE UNCHANGED file
    BY <2>7
  <2>8. LoadFirst \/ Load \/ LoadRefused \/ LoadSecretRefused \/ (\E doc \in Candidates : Save(doc))
        \/ Publish \/ BackupRefused \/ Crash => UNCHANGED file
    BY DEF LoadFirst, Load, LoadRefused, LoadSecretRefused, Save, Publish, BackupRefused, Crash
  <2>9. QED
    BY <2>1, <2>2, <2>3, <2>4, <2>5, <2>6, <2>7, <2>8 DEF Next
<1>2. QED
  BY <1>1, FileInvariant, PTL DEF Spec, NoRawBackup

(***************************************************************************)
(* The two files behave as one register.                                   *)
(***************************************************************************)

\* What the register holds.
Held == IF Stored = NoDoc THEN Torn ELSE Stored

\* A start finds the same as long as neither file changes, or the
\* configuration parses and does not change.
LEMMA HeldAsBefore ==
  ASSUME file'["config"] = file["config"],
         file'["backup"] = file["backup"] \/ file["config"] # Torn
  PROVE  Held' = Held
BY DEF Held, Stored, Parsed

\* A document of this version in the file is what a start finds.
LEMMA HeldIsFile ==
  ASSUME file["config"] \in Configurations
  PROVE  Held = Upgraded(file["config"]) /\ Held # Torn
<1>1. /\ Readable(file["config"]) /\ file["config"] \notin {Absent, Torn, NoDoc}
      /\ Upgraded(file["config"]) \notin {Absent, Torn, NoDoc}
  BY ConfigurationsKnown, ConfigurationsAreDocs
<1>2. QED
  BY <1>1 DEF Held, Stored, Parsed

\* The register starts with what an earlier version left.
LEMMA InitMaps == Init => Register!Init
<1> SUFFICES ASSUME Init PROVE Register!Init
  OBVIOUS
<1>1. FInv
  BY InitFInv
<1>2. core = "down" /\ mem = NoDoc
  BY DEF Init
<1>3. file["config"] = Absent => Default \in saved
  BY FileNames DEF Init
<1>4. Held \in saved \cup {Torn}
  <2>1. CASE file["config"] = Absent
    BY <1>3, <2>1, DefaultKnown DEF Held, Stored
  <2>2. CASE file["config"] # Absent /\ Readable(Parsed)
    <3>1. Upgraded(Parsed) \in saved
      BY <1>1, <2>2 DEF FInv, Kept, Parsed, Files
    <3>2. QED
      BY <2>2, <3>1 DEF Held, Stored
  <2>3. CASE file["config"] # Absent /\ ~Readable(Parsed)
    BY <2>3 DEF Held, Stored
  <2>4. QED
    BY <2>1, <2>2, <2>3
<1>5. QED
  BY <1>1, <1>2, <1>4 DEF Register!Init, Held, Serving, FInv, FTypeOK

\* Giving up opens the register for repair only, or leaves Core down.
LEMMA GiveUpMaps ==
  ASSUME GiveUp, Serving = NoDoc, Held' = Held, saved' = saved
  PROVE  [Register!Next]_(Register!vars)
<1>1. Serving' \in {Absent, NoDoc}
  BY GivenUp DEF Serving
<1>2. CASE Serving' = Absent
  BY <1>2 DEF Register!Next, Register!Recover, Held, Serving
<1>3. CASE Serving' = NoDoc
  BY <1>3 DEF Register!vars, Held, Serving
<1>4. QED
  BY <1>1, <1>2, <1>3

\* A step that changes neither what a start finds nor what is served.
LEMMA StutterMaps ==
  ASSUME Serving' = Serving, Held' = Held, saved' = saved
  PROVE  [Register!Next]_(Register!vars)
BY DEF Register!vars, Held, Serving

\* Every step is one of the register's, or none.
LEMMA StepMaps == FInv /\ [Next]_vars => [Register!Next]_(Register!vars)
<1> SUFFICES ASSUME FInv, [Next]_vars
             PROVE  [Register!Next]_(Register!vars)
  OBVIOUS
<1> USE FileNames, MarkersAssumption DEF FInv
<1>1. core \in {"down", "loading"} => Serving = NoDoc
  BY DEF Working, Serving
<1>2. CASE LoadFirst
  <2>1. Serving' = Serving
    BY <1>2 DEF LoadFirst, Serving
  <2>2. QED
    BY <1>2, <2>1, HeldAsBefore, StutterMaps DEF LoadFirst
<1>3. CASE Load
  <2>1. Held' = Held /\ saved' = saved /\ core = "down"
    BY <1>3, LoadCases, HeldAsBefore
  <2>2. CASE /\ Upgraded(Parsed) = Parsed /\ file["config"] # Torn
             /\ core' = "up" /\ mem' = Parsed /\ job' = NoJob
    <3>1. Parsed = file["config"] /\ Parsed \in Configurations
      BY <1>3, <2>2, ParsedKept, LoadCases DEF Parsed
    <3>2. Held # Torn /\ Serving' = Held
      BY <2>2, <3>1, HeldIsFile DEF Serving
    <3>3. QED
      BY <2>1, <3>2 DEF Register!Next, Register!Serve, Held, Serving
  <2>3. CASE GiveUp
    BY <1>1, <2>1, <2>3, GiveUpMaps
  <2>4. CASE core' = "loading" /\ mem' = mem
    BY <2>1, <2>4, StutterMaps DEF Serving
  <2>5. QED
    BY <1>3, <2>2, <2>3, <2>4, LoadCases
<1>4. CASE LoadRefused \/ LoadSecretRefused
  <2>1. GiveUp /\ core = "down" /\ UNCHANGED <<file, saved>>
    BY <1>4 DEF LoadRefused, LoadSecretRefused
  <2>2. QED
    BY <1>1, <2>1, HeldAsBefore, GiveUpMaps
<1>5. ASSUME NEW doc \in Candidates, Save(doc) PROVE [Register!Next]_(Register!vars)
  BY <1>5, HeldAsBefore, StutterMaps DEF Save, Serving
<1>6. CASE CopyStarts \/ CopyEnds
  <2>1. /\ job.at \in {"copy", "copying"} /\ UNCHANGED <<core, mem, saved>>
        /\ file'["config"] = file["config"]
        /\ file'["backup"] \in {Torn, file["config"]}
    BY <1>6 DEF CopyStarts, CopyEnds, FTypeOK
  <2>2. CASE file["config"] # Torn
    BY <2>1, <2>2, HeldAsBefore, StutterMaps DEF Serving
  <2>3. CASE file["config"] = Torn
    <3>1. core = "recovery"
      <4>1. core # "down"
        BY <2>1 DEF Working, NoJob
      <4>2. core # "loading"
        BY <2>1, <2>3 DEF Writing
      <4>3. core # "up"
        BY <2>1, <2>3, ConfigurationsAreDocs DEF Writing, FTypeOK
      <4>4. QED
        BY <4>1, <4>2, <4>3 DEF FTypeOK
    <3>2. Held' = Torn
      BY <2>1, <2>3 DEF Held, Stored, Parsed, Readable, IsDoc
    <3>3. QED
      BY <2>1, <3>1, <3>2 DEF Register!Next, Register!Forfeit, Held, Serving
  <2>4. QED
    BY <2>2, <2>3
<1>7. CASE WriteStarts \/ WriteEnds
  <2>1. /\ UNCHANGED <<core, mem, saved>>
        /\ file'["config"] = file["config"] /\ file'["backup"] = file["backup"]
    BY <1>7 DEF WriteStarts, WriteEnds, FTypeOK, Jobs
  <2>2. QED
    BY <2>1, HeldAsBefore, StutterMaps DEF Serving
<1>8. CASE Replace
  <2>1. /\ job.doc \in Configurations /\ job.dest \in Files
        /\ file' = [file EXCEPT ![job.dest] = job.doc, ![TempOf(job.dest)] = Absent]
        /\ saved' = saved \cup {Upgraded(job.doc)} /\ UNCHANGED <<core, mem>>
    BY <1>8 DEF Replace, Writing, Working, FTypeOK, Jobs, NoJob
  <2>2. file'["config"] = job.doc
    BY <2>1 DEF Writing, FTypeOK
  <2>3. Held' = Upgraded(job.doc) /\ Upgraded(job.doc) \in Readings
    <3>1. /\ Upgraded(job.doc) \in Configurations /\ Upgraded(job.doc) \in Readings
          /\ Upgraded(job.doc) # NoDoc
      BY <2>1, ReadingsAreConfigurations, ConfigurationsAreDocs
    <3>2. Readable(job.doc) /\ job.doc \notin {Absent, Torn, NoDoc}
      BY <2>1, ConfigurationsAreDocs
    <3>3. QED
      BY <2>2, <3>1, <3>2 DEF Held, Stored, Parsed
  <2>4. Serving' = Serving
    BY <2>1 DEF Serving
  <2>5. QED
    BY <2>1, <2>3, <2>4 DEF Register!Next, Register!Commit, Held, Serving
<1>9. CASE Publish
  <2>1. Held' = Held /\ saved' = saved
    BY <1>9, PublishCases, HeldAsBefore
  <2>2. CASE core = "loading" /\ GiveUp
    BY <1>1, <2>1, <2>2, GiveUpMaps
  <2>3. CASE core' = "up" /\ mem' = job.doc
    <3>1. file["config"] = job.doc /\ job.doc \in Configurations
      BY <1>9, PublishCases DEF Writing, Working, FTypeOK, Jobs, NoJob
    <3>2. Held # Torn /\ Serving' = Held
      BY <2>3, <3>1, HeldIsFile, ConfigurationsAreDocs DEF Serving
    <3>3. QED
      BY <2>1, <3>2 DEF Register!Next, Register!Serve, Held, Serving
  <2>4. QED
    BY <1>9, <2>2, <2>3, PublishCases
<1>10. CASE BackupRefused \/ WriteRefused
  <2>1. /\ Failed /\ saved' = saved
        /\ file'["config"] = file["config"] /\ file'["backup"] = file["backup"]
    BY <1>10 DEF BackupRefused, WriteRefused, FTypeOK, Jobs
  <2>2. Held' = Held
    BY <2>1, HeldAsBefore
  <2>3. CASE core = "loading" /\ GiveUp
    BY <1>1, <2>1, <2>2, <2>3, GiveUpMaps
  <2>4. CASE UNCHANGED <<core, mem>>
    BY <2>1, <2>2, <2>4, StutterMaps DEF Serving
  <2>5. QED
    BY <2>1, <2>3, <2>4, FailedCases
<1>11. CASE Crash
  <2>1. Held' = Held /\ saved' = saved /\ Serving' = NoDoc
    BY <1>11, HeldAsBefore DEF Crash, Serving
  <2>2. QED
    BY <2>1 DEF Register!Next, Register!Stop, Held, Serving
<1>12. CASE Damage
  <2>1. /\ core = "down" /\ UNCHANGED <<core, mem, saved>> /\ Readable(file["backup"])
        /\ file'["config"] = Torn /\ file'["backup"] = file["backup"]
    BY <1>12 DEF Damage, FTypeOK
  <2>2. Upgraded(file["backup"]) \in saved
    BY <2>1 DEF Kept
  <2>3. Upgraded(file["backup"]) # NoDoc
    BY <2>2, ReadingsAreConfigurations, ConfigurationsAreDocs DEF FTypeOK
  <2>4. Held' = Upgraded(file["backup"])
    BY <2>1, <2>3 DEF Held, Stored, Parsed, Readable
  <2>5. Serving = NoDoc /\ Serving' = Serving
    BY <1>1, <2>1 DEF Serving
  <2>6. QED
    BY <2>1, <2>2, <2>4, <2>5 DEF Register!Next, Register!Revert, Held, Serving
<1>13. CASE UNCHANGED vars
  BY <1>13, HeldAsBefore, StutterMaps DEF vars, Serving
<1>14. QED
  BY <1>2, <1>3, <1>4, <1>5, <1>6, <1>7, <1>8, <1>9, <1>10, <1>11, <1>12, <1>13 DEF Next

\* Through every crash, refusal and damage the two files implement one
\* register: a save replaces the configuration at one instant or not at all.
THEOREM FilesAreARegister == Spec => ImplementsRegister
BY InitMaps, StepMaps, FileInvariant, PTL DEF Spec, ImplementsRegister, Register!Spec


=============================================================================
