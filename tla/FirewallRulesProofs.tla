-------------------------- MODULE FirewallRulesProofs --------------------------
(***************************************************************************)
(* For every set of rules: the inductive invariant of FirewallRules, and    *)
(* the properties that follow from it.                                      *)
(***************************************************************************)
EXTENDS FirewallRules, TLAPS

\* The initial states satisfy the invariant: nothing is recorded, and what an
\* earlier process left behind is accounted for by "leaking".
LEMMA InitInv == Init => Inv
  BY DEF Init, Inv, TypeOK, Outcomes, DeltaOK, Protected, Accounted

\* Every netsh call, and every failure of one, preserves the invariant.
LEMMA NextInv == Inv /\ [Next]_vars => Inv'
<1>1. SUFFICES ASSUME Inv, [Next]_vars
               PROVE  Inv'
  OBVIOUS
<1> USE <1>1 DEF Inv, TypeOK, Outcomes, Changed, Stale, delta, history
<1>2. ASSUME NEW want \in SUBSET Specs, BeginDelta(want)
      PROVE  Inv'
  BY <1>2 DEF BeginDelta, DeltaOK, Protected, Accounted
<1>3. ASSUME NEW s \in Specs, AddRule(s)
      PROVE  Inv'
  <2>1. TypeOK'
    BY <1>3 DEF AddRule
  <2>2. DeltaOK'
    BY <1>3 DEF AddRule, DeltaOK
  <2>3. Protected' /\ Accounted'
    BY <1>3 DEF AddRule, Protected, Accounted
  <2>4. QED
    BY <2>1, <2>2, <2>3
<1>4. ASSUME NEW s \in Specs, AddFails(s)
      PROVE  Inv'
  BY <1>4 DEF AddFails, DeltaOK, Protected, Accounted
<1>5. CASE AddsDone
  BY <1>5 DEF AddsDone, DeltaOK, Protected, Accounted
<1>6. ASSUME NEW s \in Specs, RollbackRule(s)
      PROVE  Inv'
  <2>1. TypeOK'
    BY <1>6 DEF RollbackRule
  <2>2. DeltaOK'
    BY <1>6 DEF RollbackRule, DeltaOK
  <2>3. s \notin installed
    BY <1>6 DEF RollbackRule, DeltaOK
  <2>4. Protected' /\ Accounted'
    BY <1>6, <2>3 DEF RollbackRule, Protected, Accounted
  <2>5. QED
    BY <2>1, <2>2, <2>4
<1>7. CASE RollbackDone
  BY <1>7 DEF RollbackDone, DeltaOK, Protected, Accounted
<1>8. ASSUME NEW s \in Specs, DeleteRule(s)
      PROVE  Inv'
  <2>1. TypeOK'
    BY <1>8 DEF DeleteRule
  <2>2. DeltaOK'
    BY <1>8 DEF DeleteRule, DeltaOK
  <2>3. s \notin desired
    BY <1>8 DEF DeleteRule, DeltaOK
  <2>4. Protected' /\ Accounted'
    BY <1>8, <2>3 DEF DeleteRule, Protected, Accounted
  <2>5. QED
    BY <2>1, <2>2, <2>4
<1>9. ASSUME NEW s \in Specs, DeleteFails(s)
      PROVE  Inv'
  BY <1>9 DEF DeleteFails, DeltaOK, Protected, Accounted
<1>10. CASE CommitDelta
  BY <1>10 DEF CommitDelta, DeltaOK, Protected, Accounted
<1>11. CASE RemoveAll
  BY <1>11 DEF RemoveAll, DeltaOK, Protected, Accounted
<1>12. CASE Crash
  BY <1>12 DEF Crash, DeltaOK, Protected, Accounted
<1>13. CASE UNCHANGED vars
  BY <1>13 DEF vars, DeltaOK, Protected, Accounted
<1>14. QED
  BY <1>2, <1>3, <1>4, <1>5, <1>6, <1>7, <1>8, <1>9, <1>10, <1>11, <1>12,
     <1>13 DEF Next

\* The firewall, the record and the work lists of apply_firewall_delta agree
\* in every reachable state, for any set of rules.
THEOREM InvHolds == Spec => []Inv
  BY InitInv, NextInv, PTL DEF Spec

\* Until a deletion is refused, the old rules or the new ones are all in force
\* at every moment, crashes included.
THEOREM OldOrNewAlwaysInForce == Spec => []OldOrNewInForce
<1>1. Inv => OldOrNewInForce
  BY DEF Inv, Protected, OldOrNewInForce
<1>2. QED
  BY <1>1, InvHolds, PTL

\* Unless a cleanup failed or an earlier process left some, no rule is in the
\* firewall that the backend cannot name.
THEOREM NothingForgotten == Spec => []NoForgottenRule
<1>1. Inv => NoForgottenRule
  BY DEF Inv, Accounted, NoForgottenRule
<1>2. QED
  BY <1>1, InvHolds, PTL

\* No step of a reconciliation removes a rule wanted before and after it.
THEOREM KeptRulesStay == Spec => KeptRulesNeverFlicker
<1>1. ASSUME Inv, Next, pc # "idle"
      PROVE  (installed \cap desired \cap os) \subseteq os'
  <2> USE <1>1 DEF Inv, DeltaOK, Changed, Stale, delta, history
  <2>1. ASSUME NEW s \in Specs, RollbackRule(s)
        PROVE  (installed \cap desired \cap os) \subseteq os'
    BY <2>1 DEF RollbackRule
  <2>2. ASSUME NEW s \in Specs, DeleteRule(s)
        PROVE  (installed \cap desired \cap os) \subseteq os'
    BY <2>2 DEF DeleteRule
  <2>3. QED
    BY <2>1, <2>2 DEF Next, BeginDelta, AddRule, AddFails, AddsDone,
       RollbackDone, DeleteFails, CommitDelta, RemoveAll, Crash
<1>2. Inv /\ [Next]_vars =>
        [pc # "idle" => (installed \cap desired \cap os) \subseteq os']_vars
  BY <1>1
<1>3. QED
  BY <1>2, InvHolds, PTL DEF Spec, KeptRulesNeverFlicker

\* Between reconciliations the record names exactly the rules in the firewall.
THEOREM RecordMatchesFirewall == Spec => []RecordIsExact
<1>1. Inv => RecordIsExact
  BY DEF Inv, Protected, Accounted, RecordIsExact
<1>2. QED
  BY <1>1, InvHolds, PTL

\* apply_firewall_delta, many netsh calls long and interrupted by failures,
\* has the effect of one step: all of the new set, or none of it.  This is
\* what lets ProxifyreBackend take a whole reconciliation as one step.
THEOREM ReconciliationIsAllOrNothing == Spec => AllOrNothing
<1> DEFINE Returns == /\ pc # "idle" /\ pc' = "idle" /\ outcome' # "restarted"
                      /\ ~lacking' /\ ~leaking'
           Exact == os' = IF outcome' = "ok" THEN desired ELSE installed
<1>1. ASSUME Inv, Next, Returns
      PROVE  Exact
  <2> USE <1>1 DEF Inv, delta, history
  <2>1. CASE RollbackDone
    <3>1. os \subseteq installed /\ installed \subseteq os
      BY <2>1 DEF RollbackDone, Protected, Accounted
    <3>2. QED
      BY <2>1, <3>1 DEF RollbackDone
  <2>2. CASE CommitDelta
    <3>1. desired \subseteq os /\ os \subseteq installed \union applied
      BY <2>2 DEF CommitDelta, Protected, Accounted
    <3>2. applied \subseteq desired /\ (installed \ desired) \cap os = {}
      BY <2>2 DEF CommitDelta, DeltaOK, Changed, Stale
    <3>3. QED
      BY <2>2, <3>1, <3>2 DEF CommitDelta
  <2>3. QED
    BY <2>1, <2>2 DEF Next, BeginDelta, AddRule, AddFails, AddsDone,
       RollbackRule, DeleteRule, DeleteFails, RemoveAll, Crash
<1>2. Inv /\ [Next]_vars => [Returns => Exact]_vars
  BY <1>1
<1>3. QED
  BY <1>2, InvHolds, PTL DEF Spec, AllOrNothing
===============================================================================
