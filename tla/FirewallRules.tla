---------------------------- MODULE FirewallRules ----------------------------
(***************************************************************************)
(* The firewall block rules of the ProxiFyre backend and the record the     *)
(* backend keeps of them (installed_firewall_specs).  apply_firewall_delta  *)
(* turns the recorded set into a desired one with one netsh call per rule:  *)
(* every missing rule is added, then every stale one is deleted, then the   *)
(* record is replaced.  Any call may fail, and the process may die between  *)
(* two calls: the rules outlive it, the record does not.                    *)
(*                                                                          *)
(* A rule's name is a hash of its path (and rule id), and its fields follow *)
(* from the name, so a rule and its name are the same value here.           *)
(***************************************************************************)
EXTENDS Naturals, FiniteSets

CONSTANT Specs   \* every rule the backend may want to install

VARIABLES
  os,         \* the ProxyDuck rules present in the Windows firewall
  installed,  \* installed_firewall_specs
  pc,         \* where apply_firewall_delta is; "idle" outside it
  desired,    \* its argument
  changed,    \* rules still to be added
  applied,    \* rules this call added
  stale,      \* rules still to be deleted
  outcome,    \* what the last call of the backend returned
  lacking,    \* history: a refused deletion since the last full cleanup
              \* left the record naming rules that are gone
  leaking     \* history: the firewall may hold rules no record names

delta == <<desired, changed, applied, stale>>
history == <<lacking, leaking>>
vars == <<os, installed, pc, delta, outcome, history>>

\* "cleared": remove_firewall_rules ran last; "restarted": nothing ran yet
Outcomes == {"restarted", "cleared", "running", "ok", "err"}

TypeOK ==
  /\ os \subseteq Specs
  /\ installed \subseteq Specs
  /\ pc \in {"idle", "adding", "rollback", "deleting"}
  /\ desired \subseteq Specs
  /\ changed \subseteq Specs
  /\ applied \subseteq Specs
  /\ stale \subseteq Specs
  /\ outcome \in Outcomes
  /\ lacking \in BOOLEAN
  /\ leaking \in BOOLEAN

Init ==
  /\ os \in SUBSET Specs          \* what an earlier run left behind
  /\ installed = {}
  /\ pc = "idle"
  /\ desired = {}
  /\ changed = {}
  /\ applied = {}
  /\ stale = {}
  /\ outcome = "restarted"
  /\ lacking = FALSE
  /\ leaking = (os # {})

-----------------------------------------------------------------------------
(* Mutants: plausible bugs of the code, which a property must notice *)

\* deletions start before every addition succeeded
AddsDoneEarly ==
  /\ pc = "adding"
  /\ pc' = "deleting"
  /\ UNCHANGED <<os, installed, delta, outcome, history>>

\* a failed addition returns without undoing the earlier ones
RollbackSkipped ==
  /\ pc = "rollback"
  /\ pc' = "idle"
  /\ outcome' = "err"
  /\ UNCHANGED <<os, installed, delta, history>>

\* every recorded rule is deleted, not only those no longer wanted
StaleIsAll(previous, want) == previous

\* the record is replaced although deletions are still to be done
CommitEarly ==
  /\ pc = "deleting"
  /\ installed' = desired
  /\ pc' = "idle"
  /\ outcome' = "ok"
  /\ UNCHANGED <<os, delta, history>>

-----------------------------------------------------------------------------
\* firewall_delta: what to add, what to delete
Changed(previous, want) == want \ previous
Stale(previous, want) == previous \ want

\* apply_firewall_delta is entered, for the policy rules or the fail-closed
\* ones; the caller holds firewall_transaction_lock until it returns
BeginDelta(want) ==
  /\ pc = "idle"
  /\ pc' = "adding"
  /\ desired' = want
  /\ changed' = Changed(installed, want)
  /\ stale' = Stale(installed, want)
  /\ applied' = {}
  /\ outcome' = "running"
  /\ UNCHANGED <<os, installed, history>>

\* netsh "set rule", else "add rule": both leave the rule in place
AddRule(s) ==
  /\ pc = "adding"
  /\ s \in changed
  /\ os' = os \union {s}
  /\ changed' = changed \ {s}
  /\ applied' = applied \union {s}
  /\ UNCHANGED <<installed, pc, desired, stale, outcome, history>>

AddFails(s) ==
  /\ pc = "adding"
  /\ s \in changed
  /\ pc' = "rollback"
  /\ UNCHANGED <<os, installed, delta, outcome, history>>

AddsDone ==
  /\ pc = "adding"
  /\ changed = {}
  /\ pc' = "deleting"
  /\ UNCHANGED <<os, installed, delta, outcome, history>>

\* an added rule is never in the record, so undoing it is a deletion; its
\* result is ignored
RollbackRule(s) ==
  /\ pc = "rollback"
  /\ s \in applied
  /\ applied' = applied \ {s}
  /\ \/ os' = os \ {s} /\ UNCHANGED leaking
     \/ UNCHANGED os /\ leaking' = TRUE
  /\ UNCHANGED <<installed, pc, desired, changed, stale, outcome, lacking>>

RollbackDone ==
  /\ pc = "rollback"
  /\ applied = {}
  /\ pc' = "idle"
  /\ outcome' = "err"
  /\ UNCHANGED <<os, installed, delta, history>>

\* netsh "delete rule" succeeds only for a rule that exists
DeleteRule(s) ==
  /\ pc = "deleting"
  /\ s \in stale \cap os
  /\ os' = os \ {s}
  /\ stale' = stale \ {s}
  /\ UNCHANGED <<installed, pc, desired, changed, applied, outcome, history>>

\* a refused deletion ends the call; the record keeps every stale name,
\* those already deleted too, and none of those just added
DeleteFails(s) ==
  /\ pc = "deleting"
  /\ s \in stale
  /\ pc' = "idle"
  /\ outcome' = "err"
  /\ lacking' = TRUE
  /\ leaking' = TRUE
  /\ UNCHANGED <<os, installed, delta>>

CommitDelta ==
  /\ pc = "deleting"
  /\ stale = {}
  /\ installed' = desired
  /\ pc' = "idle"
  /\ outcome' = "ok"
  /\ UNCHANGED <<os, delta, history>>

\* remove_firewall_rules: the record is cleared first, then every rule with
\* one of the product's prefixes is deleted; a failure is only logged
RemoveAll ==
  /\ pc = "idle"
  /\ installed' = {}
  /\ os' \in SUBSET os
  /\ outcome' = "cleared"
  /\ lacking' = FALSE
  /\ leaking' = (os' # {})
  /\ UNCHANGED <<pc, delta>>

\* the Core process dies at any point and a new backend is created
Crash ==
  /\ installed' = {}
  /\ pc' = "idle"
  /\ desired' = {}
  /\ changed' = {}
  /\ applied' = {}
  /\ stale' = {}
  /\ outcome' = "restarted"
  /\ lacking' = FALSE
  /\ leaking' = (os # {})
  /\ UNCHANGED os

Next ==
  \/ \E want \in SUBSET Specs : BeginDelta(want)
  \/ \E s \in Specs : AddRule(s)
  \/ \E s \in Specs : AddFails(s)
  \/ AddsDone
  \/ \E s \in Specs : RollbackRule(s)
  \/ RollbackDone
  \/ \E s \in Specs : DeleteRule(s)
  \/ \E s \in Specs : DeleteFails(s)
  \/ CommitDelta
  \/ RemoveAll
  \/ Crash

Spec == Init /\ [][Next]_vars

-----------------------------------------------------------------------------
(* The inductive invariant, in parts *)

\* what is left of the two lists matches the call's argument and the record
DeltaOK ==
  pc # "idle" =>
    /\ changed \union applied \subseteq Changed(installed, desired)
    /\ stale \subseteq Stale(installed, desired)
    /\ pc = "adding" => /\ Changed(installed, desired) = changed \union applied
                        /\ stale = Stale(installed, desired)
                        /\ applied \subseteq os
    /\ pc = "deleting" => Stale(installed, desired) \cap os \subseteq stale

\* the old rules stay until the new ones are all there
Protected ==
  ~lacking => IF pc = "deleting" THEN desired \subseteq os ELSE installed \subseteq os

\* what is in the firewall is in the record or is being added
Accounted ==
  ~leaking => os \subseteq installed \union (IF pc = "idle" THEN {} ELSE applied)

\* Each netsh call leaves the firewall, the record and the two work lists of
\* apply_firewall_delta in agreement: Inv is preserved by every step.
Inv == TypeOK /\ DeltaOK /\ Protected /\ Accounted

-----------------------------------------------------------------------------
(* Properties *)

\* As long as no deletion was refused, every rule of the old set or every
\* rule of the new one is in the firewall, between any two netsh calls of
\* apply_firewall_delta and after it returns, rolled back or not: the "no
\* periodic unprotected window" of apply_fail_closed_rules_for_processes.
OldOrNewInForce ==
  ~lacking => \/ installed \subseteq os
              \/ pc = "deleting" /\ desired \subseteq os

\* A rule wanted both before and after a reconciliation is never dropped on
\* the way, not even by the rollback, whatever was refused earlier.
KeptRulesNeverFlicker ==
  [][pc # "idle" => (installed \cap desired \cap os) \subseteq os']_vars

\* Unless a cleanup failed or an earlier process left some, the firewall
\* holds no rule the backend cannot name: a rule it forgot would block an
\* application until the next full cleanup.
NoForgottenRule ==
  ~leaking => os \subseteq installed \union applied

\* apply_firewall_delta answered Ok with a rule count: those rules are in
\* the firewall ("truthful runtime state").  Refuted once a deletion failed.
OkMeansInForce ==
  outcome = "ok" => desired \subseteq os

\* Between reconciliations the record is the firewall, rule for rule, unless
\* a deletion was refused, a cleanup failed or an earlier process left some.
RecordIsExact ==
  pc = "idle" /\ ~lacking /\ ~leaking => os = installed

\* A reconciliation is all or nothing: one that returns Ok leaves exactly the
\* rules it was given, one that returns Err exactly those that were there.
\* Only a refused netsh deletion, its own or an earlier one, breaks this.
AllOrNothing ==
  [][/\ pc # "idle" /\ pc' = "idle" /\ outcome' # "restarted"
     /\ ~lacking' /\ ~leaking'
     => os' = IF outcome' = "ok" THEN desired ELSE installed]_vars

=============================================================================
