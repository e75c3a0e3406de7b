--------------------------- MODULE ConfigDocument ---------------------------
(***************************************************************************)
(* A configuration document and what happens to one that was written by    *)
(* an earlier version: the migrations of core/config.rs, the capabilities  *)
(* it normalises and the checks of core/validation.rs.                     *)
(*                                                                         *)
(* A document keeps what these functions read or write.  Proxies are a     *)
(* function of their identifiers, so identifiers are unique; an endpoint   *)
(* is a value of its own, so that a reference can be followed to it.       *)
(* Checks of single fields (empty names, port numbers, labels, CIDR        *)
(* blocks) are left out.                                                   *)
(***************************************************************************)
EXTENDS Integers, FiniteSets

CONSTANTS
  ProxyIds,           \* identifiers of proxies, OldId and NewId among them
  OldId, NewId,       \* "clash-socks" and "local-socks"
  NoProxy,            \* no proxy of that identifier; also an empty identifier
  Labels,             \* names of rules, identifiers of profiles, endpoints
  SingBoxInstalled    \* is sing-box.exe found on this machine?

\* model.rs: the parts of a document; references may dangle or be empty.
EngineModes == {"proxifyre", "sing_box", "wfp", "api_hook"}
ProxyKinds == {"socks5", "http", "direct", "interface", "vpn"}
RouteActions == {"proxy", "direct", "block", "reject"}
DnsModes == {"inherit", "direct", "proxy", "hijack", "block_plaintext", "enforce_resolver"}

References == ProxyIds \cup {NoProxy}
Proxies == [kind : ProxyKinds, enabled : BOOLEAN, endpoint : Labels, plain : BOOLEAN]
Actions == [type : RouteActions, id : References]
RuleSpace == [name : Labels, enabled : BOOLEAN, profile : References, action : Actions,
              dns : DnsModes, forceDns : BOOLEAN, children : BOOLEAN, hashes : BOOLEAN, exe : BOOLEAN]
Launchers == [profile : References, children : BOOLEAN]
Profiles == [id : Labels, rules : SUBSET RuleSpace, quick : SUBSET Launchers]
Documents == [schema : Nat, current : BOOLEAN, mode : EngineModes, strict : BOOLEAN,
              proxies : [ProxyIds -> Proxies \cup {NoProxy}], rules : SUBSET RuleSpace,
              quick : SUBSET Launchers, profiles : SUBSET Profiles,
              active : Labels \cup {NoProxy}]

ASSUME IdsAssumption ==
  /\ {OldId, NewId} \subseteq ProxyIds /\ OldId # NewId
  /\ NoProxy \notin ProxyIds /\ NoProxy \notin Proxies
  /\ SingBoxInstalled \in BOOLEAN

CurrentSchema == 6

ProxyIdsOf(doc) == {p \in ProxyIds : doc.proxies[p] # NoProxy}

\* Where a rule sends its traffic: the action's proxy, or the legacy field.
Target(rule) == IF rule.action.id = NoProxy THEN rule.profile ELSE rule.action.id

----------------------------------------------------------------------------
(* migrate_schema.                                                         *)

\* Schema 3 to 4: an action is made of the legacy proxy field, the old DNS
\* switch becomes the marker that blocks plaintext DNS.
LegacyAction(doc, rule) ==
  IF rule.action # [type |-> "proxy", id |-> NoProxy] THEN rule.action
  ELSE IF rule.profile \in ProxyIdsOf(doc) /\ doc.proxies[rule.profile].kind = "direct"
       THEN [type |-> "direct", id |-> NoProxy]
       ELSE [type |-> "proxy", id |-> rule.profile]

PolicyRule(doc, rule) ==
  [rule EXCEPT !.action = LegacyAction(doc, rule),
               !.dns = IF @ = "inherit" /\ rule.forceDns THEN "block_plaintext" ELSE @]

PolicyFields(doc) == [doc EXCEPT !.rules = {PolicyRule(doc, rule) : rule \in @}]

Renamed(id) == IF id = OldId THEN NewId ELSE id

RenamedAction(action) ==
  IF action.type = "proxy" THEN [action EXCEPT !.id = Renamed(@)] ELSE action

RenamedRule(rule) == [rule EXCEPT !.profile = Renamed(@), !.action = RenamedAction(@)]

\* Schema 5 to 6: the proxy's identifier loses its brand, unless both exist.
BrandlessProxies(doc) ==
  IF doc.proxies[OldId] # NoProxy /\ doc.proxies[NewId] = NoProxy
  THEN [doc.proxies EXCEPT ![NewId] = doc.proxies[OldId], ![OldId] = NoProxy]
  ELSE doc.proxies

\* ... mutant of Debranded that forgets the rules kept in the profiles.
DebrandedRulesOnly(doc) ==
  LET proxies == BrandlessProxies(doc)
  IN  IF proxies[NewId] # NoProxy /\ proxies[OldId] = NoProxy
      THEN [doc EXCEPT !.proxies = proxies, !.rules = {RenamedRule(rule) : rule \in @}]
      ELSE [doc EXCEPT !.proxies = proxies]

RenamedProfile(profile) == [profile EXCEPT !.rules = {RenamedRule(rule) : rule \in @}]

\* The rules that named it follow, those of the profiles too.
Debranded(doc) ==
  LET proxies == BrandlessProxies(doc)
  IN  IF proxies[NewId] # NoProxy /\ proxies[OldId] = NoProxy
      THEN [doc EXCEPT !.proxies = proxies,
                       !.rules = {RenamedRule(rule) : rule \in @},
                       !.profiles = {RenamedProfile(profile) : profile \in @}]
      ELSE [doc EXCEPT !.proxies = proxies]

Migrated(doc) ==
  LET four == IF doc.schema <= 3 THEN PolicyFields(doc) ELSE doc
      six  == IF doc.schema <= 5 THEN Debranded(four) ELSE four
  IN  [six EXCEPT !.schema = CurrentSchema]

----------------------------------------------------------------------------
(* normalize_legacy_capabilities, hydrate_proxy_secrets and the version.    *)

NormalProxy(p) ==
  IF p # NoProxy /\ p.kind \notin {"socks5", "direct"} THEN [p EXCEPT !.enabled = FALSE] ELSE p

NormalRule(rule) == [rule EXCEPT !.children = FALSE, !.enabled = @ /\ ~rule.hashes]

NormalLauncher(item) == [item EXCEPT !.children = FALSE]

Normalised(doc) ==
  [doc EXCEPT !.mode = IF @ \in {"wfp", "api_hook"} THEN "proxifyre" ELSE @,
              !.proxies = [id \in ProxyIds |-> NormalProxy(@[id])],
              !.rules = {NormalRule(rule) : rule \in @},
              !.quick = {NormalLauncher(item) : item \in @}]

\* Does the document hold a password that belongs into the SecretStore?
Plaintext(doc) == \E p \in ProxyIdsOf(doc) : doc.proxies[p].plain

HydratedProxy(p) == IF p = NoProxy THEN NoProxy ELSE [p EXCEPT !.plain = FALSE]

Hydrated(doc) == [doc EXCEPT !.proxies = [id \in ProxyIds |-> HydratedProxy(@[id])]]

\* What load_or_init makes of a document whose schema it accepts.
Upgraded(doc) == [Normalised(Hydrated(Migrated(doc))) EXCEPT !.current = TRUE]

----------------------------------------------------------------------------
(* validate_config, with the capabilities of the engines.                   *)

Available(mode) == mode = "proxifyre" \/ (mode = "sing_box" /\ SingBoxInstalled)
Hardens(mode) == mode = "proxifyre"

RuleTargetsExist(rules, ids) ==
  \A rule \in rules : rule.action.type = "proxy" => Target(rule) \in ids

LaunchersExist(quick, ids) == \A item \in quick : item.profile \in ids

Valid(doc) ==
  LET ids == ProxyIdsOf(doc)
  IN  /\ doc.schema = CurrentSchema
      /\ Available(doc.mode)
      /\ doc.strict => Hardens(doc.mode)
      /\ \A p \in ids : doc.proxies[p].enabled => doc.proxies[p].kind \in {"socks5", "direct"}
      /\ RuleTargetsExist(doc.rules, ids)
      /\ \A rule \in doc.rules :
            /\ rule.enabled => ~rule.hashes /\ ~rule.children
            /\ doc.strict /\ rule.enabled => rule.exe
      /\ LaunchersExist(doc.quick, ids)
      /\ \A item \in doc.quick : ~item.children
      /\ \A profile \in doc.profiles : /\ RuleTargetsExist(profile.rules, ids)
                                       /\ LaunchersExist(profile.quick, ids)
      /\ doc.active \in {profile.id : profile \in doc.profiles} \cup {NoProxy}

----------------------------------------------------------------------------
(* Following a reference to the endpoint it stands for.                     *)

\* Where a rule's traffic goes; nowhere when its proxy does not exist.
RouteOf(doc, rule) ==
  IF rule.action.type # "proxy" THEN rule.action.type
  ELSE IF Target(rule) \notin ProxyIdsOf(doc) THEN NoProxy
  ELSE IF doc.proxies[Target(rule)].kind = "direct" THEN "direct"
  ELSE doc.proxies[Target(rule)].endpoint

\* The routes of the rules in force and of those the profiles keep.
Routes(doc) ==
  {<<NoProxy, rule.name, RouteOf(doc, rule)>> : rule \in doc.rules}
  \cup UNION {{<<profile.id, rule.name, RouteOf(doc, rule)>> : rule \in profile.rules} :
              profile \in doc.profiles}
=============================================================================
