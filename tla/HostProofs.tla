----------------------------- MODULE HostProofs -----------------------------
(***************************************************************************)
(* NetworkRepair, Desktop (with its ServiceHost) and PipeIpc, which share  *)
(* nothing, for any values of their constants.                             *)
(*                                                                         *)
(* Repairs, snapshots and rollbacks for any number of requests, retained   *)
(* recovery points, plans and settings: the proxies repairs take from the  *)
(* user can be got back, and a rollback that reports success has restored  *)
(* its recovery point.                                                     *)
(*                                                                         *)
(* The service and its manager agree whatever is installed, stopped or     *)
(* crashed, and what there is of the shared configuration is kept; the     *)
(* window beside it tries to connect until it is online.                   *)
(*                                                                         *)
(* Only permitted requests reach the router through the pipe, whatever     *)
(* its clients do or leave undone, each gets one answer, and the instances *)
(* stay within their limit.                                                *)
(***************************************************************************)
EXTENDS NetworkRepair, Desktop, PipeIpc, SequenceTheorems, FiniteSetTheorems, TLAPS

----------------------------------------------------------------------------
(* Repairs and recovery points.                                              *)

\* The newest points stay, in their order.
LEMMA RetainedFacts ==
  ASSUME NEW S, NEW all \in Seq(S), MaxPoints \in Nat
  PROVE  /\ Retained(all) \in Seq(S)
         /\ Len(Retained(all)) = IF Len(all) > MaxPoints THEN MaxPoints ELSE Len(all)
         /\ \A i \in 1..Len(Retained(all)) :
              Retained(all)[i] = all[i + Len(all) - Len(Retained(all))]
<1>1. CASE Len(all) > MaxPoints
  <2> DEFINE m == Len(all) - MaxPoints + 1
             n == Len(all)
  <2>1. Retained(all) = SubSeq(all, m, n) /\ m \in Int /\ n \in Int /\ n - m + 1 = MaxPoints
    BY <1>1 DEF Retained
  <2>2. \A i \in m..n : all[i] \in S
    BY <1>1
  <2>3. /\ SubSeq(all, m, n) \in Seq(S)
        /\ Len(SubSeq(all, m, n)) = IF m <= n THEN n - m + 1 ELSE 0
        /\ \A i \in 1..n - m + 1 : SubSeq(all, m, n)[i] = all[m + i - 1]
    BY <2>1, <2>2, SubSeqProperties
  <2>4. Len(Retained(all)) = MaxPoints
    BY <2>1, <2>3
  <2>5. \A i \in 1..MaxPoints : m + i - 1 = i + Len(all) - MaxPoints
    OBVIOUS
  <2> QED
    BY <1>1, <2>1, <2>3, <2>4, <2>5
<1>2. CASE ~(Len(all) > MaxPoints)
  BY <1>2 DEF Retained
<1> QED
  BY <1>1, <1>2

\* A selection of a plan's actions is a sequence of one or two of them.
LEMMA SelectionType ==
  ASSUME NEW actions \in SUBSET Resets, NEW todo \in Selections(actions)
  PROVE  todo \in Seq(Resets) /\ todo # <<>>
<1>1. CASE \E a \in actions : todo = <<a>>
  BY <1>1
<1>2. CASE \E a, b \in actions : todo = <<a, b>>
  BY <1>2
<1> QED
  BY <1>1, <1>2 DEF Selections

\* What run_single_action and the rollback make of a setting is a setting.
LEMMA EffectType ==
  ASSUME NEW s \in Machine, NEW action \in Resets
  PROVE  Effect(s, action) \in Machine
BY DEF Effect, Resets, Machine, Values

\* The invariant holds initially.
LEMMA InitNInv == NInit => NInv
<1> SUFFICES ASSUME NInit PROVE NInv
  OBVIOUS
<1>1. Idle \in Job
  BY DEF Idle, Request, Job
<1>2. NTypeOK
  BY <1>1, SettingsAssumption DEF NInit, NTypeOK
<1>3. \A h \in Handlers : JobOK(jobs[h]) /\ RestoredSoFar(jobs[h])
  BY DEF NInit, JobOK, RestoredSoFar, Restores, Idle, Request
<1>4. Numbered /\ Guarded
  BY SettingsAssumption DEF NInit, Numbered, Guarded
<1> QED
  BY <1>2, <1>3, <1>4 DEF NInv

----------------------------------------------------------------------------
(* Steps that change one request.                                            *)

\* What a step that changes one request only, and may give up the history,
\* has to show.
LEMMA OneJob ==
  ASSUME NInv, NEW h \in Handlers,
         jobs' = [jobs EXCEPT ![h] = jobs'[h]], jobs'[h] \in Job,
         UNCHANGED <<live, points, made, since>>, orig' \in {orig, Nothing},
         latest' \in {Nothing} \cup SUBSET Resets,
         plans' \subseteq [id : Nat, actions : SUBSET Resets], issued' \in Nat,
         JobOK(jobs[h])', RestoredSoFar(jobs[h])',
         orig' # Nothing =>
           /\ jobs'[h].at \notin Restores
           /\ since <= MaxPoints /\ ~Recoverable =>
                /\ jobs'[h].at # "act"
                /\ jobs'[h].at = "write" => ProxySettings(jobs'[h].saved) = orig
  PROVE  NInv'
<1>1. NTypeOK'
  BY DEF NInv, NTypeOK
<1>2. \A g \in Handlers : jobs'[g] = IF g = h THEN jobs'[h] ELSE jobs[g]
  BY DEF NInv, NTypeOK
<1>3. \A g \in Handlers : JobOK(jobs[g])'
  BY <1>2 DEF NInv, JobOK
<1>4. Numbered'
  BY DEF NInv, Numbered
<1>5. Guarded'
  <2>1. SUFFICES ASSUME orig' # Nothing PROVE Guarded'
    BY DEF Guarded
  <2>2. orig' = orig
    BY <2>1
  <2>3. Recoverable' <=> Recoverable
    BY <2>2 DEF Recoverable
  <2> QED
    BY <1>2, <2>1, <2>2, <2>3 DEF NInv, Guarded
<1>6. \A g \in Handlers : RestoredSoFar(jobs[g])'
  BY <1>2 DEF NInv, RestoredSoFar, Listed
<1> QED
  BY <1>1, <1>3, <1>4, <1>5, <1>6 DEF NInv

\* Diagnoses and plans recommend resets.
LEMMA AdviceNInv == ASSUME NInv, Diagnose \/ GetPlan PROVE NInv'
<1>1. Diagnosed \subseteq SUBSET Resets
  BY DEF Diagnosed
<1>2. /\ latest' \in {Nothing} \cup SUBSET Resets
      /\ UNCHANGED <<live, points, made, since, orig, jobs>>
  BY <1>1 DEF Diagnose, GetPlan, NInv, NTypeOK
<1>3. plans' \subseteq [id : Nat, actions : SUBSET Resets] /\ issued' \in Nat
  BY <1>1 DEF Diagnose, GetPlan, NInv, NTypeOK
<1>4. NTypeOK'
  BY <1>2, <1>3 DEF NInv, NTypeOK
<1> QED
  BY <1>2, <1>4 DEF NInv, JobOK, Numbered, Guarded, Recoverable, RestoredSoFar, Listed

\* A repair begins with its snapshot; when no request is under way it is the
\* first of the present repairs.
LEMMA RepairNInv == ASSUME NInv, NEW h \in Handlers, RequestRepair(h) PROVE NInv'
<1>1. PICK plan \in plans : \E todo \in Selections(plan.actions) :
        /\ plans' = plans \ {plan}
        /\ jobs' = [jobs EXCEPT ![h] = Request("repair", "capture", todo, Nothing, 0)]
  BY DEF RequestRepair
<1>2. PICK todo \in Selections(plan.actions) :
        jobs' = [jobs EXCEPT ![h] = Request("repair", "capture", todo, Nothing, 0)]
  BY <1>1
<1>3. todo \in Seq(Resets) /\ todo # <<>>
  <2>1. plan.actions \in SUBSET Resets
    BY DEF NInv, NTypeOK
  <2> QED
    BY <2>1, SelectionType
<1> DEFINE j == Request("repair", "capture", todo, Nothing, 0)
<1>4. jobs' = [jobs EXCEPT ![h] = j] /\ jobs'[h] = j
  BY <1>2 DEF NInv, NTypeOK
<1>5. j \in Job /\ j.does = "repair" /\ j.at = "capture" /\ j.todo # <<>> /\ j.id = 0
  BY <1>3 DEF Request, Job
<1> HIDE DEF j
<1>6. /\ UNCHANGED <<live, points, made, latest, issued>>
      /\ plans' \subseteq [id : Nat, actions : SUBSET Resets]
      /\ latest' \in {Nothing} \cup SUBSET Resets /\ issued' \in Nat
  BY <1>1 DEF RequestRepair, NInv, NTypeOK
<1>7. jobs'[h] \in Job /\ JobOK(jobs[h])' /\ RestoredSoFar(jobs[h])'
  BY <1>4, <1>5, <1>6 DEF JobOK, RestoredSoFar, Restores, NInv, NTypeOK
<1>8. CASE Quiet /\ orig = Nothing
  <2>1. orig' = ProxySettings(live) /\ since' = 0
    BY <1>8 DEF RequestRepair
  <2>2. \A g \in Handlers : jobs'[g].at \in {"idle", "capture"}
    BY <1>4, <1>5, <1>8 DEF Quiet, Free, NInv, NTypeOK
  <2>3. NTypeOK'
    BY <1>4, <1>6, <1>7, <2>1 DEF NInv, NTypeOK
  <2>4. \A g \in Handlers : g # h => jobs'[g] = jobs[g]
    BY <1>4 DEF NInv, NTypeOK
  <2>5. \A g \in Handlers : JobOK(jobs[g])' /\ RestoredSoFar(jobs[g])'
    BY <1>6, <1>7, <2>4 DEF NInv, JobOK, RestoredSoFar, Listed
  <2>6. Numbered' /\ Guarded'
    BY <1>6, <2>1, <2>2 DEF NInv, Numbered, Guarded, Restores, ProxySettings
  <2> QED
    BY <2>3, <2>5, <2>6 DEF NInv
<1>9. CASE ~(Quiet /\ orig = Nothing)
  <2>1. UNCHANGED <<orig, since>>
    BY <1>9 DEF RequestRepair
  <2> QED
    BY <1>4, <1>5, <1>6, <1>7, <2>1, OneJob DEF Restores
<1> QED
  BY <1>8, <1>9

\* A refused repair uses up its plan; a snapshot and a rollback begin.
LEMMA RequestNInv ==
  ASSUME NInv, NEW h \in Handlers, RefuseRepair(h) \/ RequestSnapshot(h) \/ RequestRollback(h)
  PROVE  NInv'
<1>1. CASE RefuseRepair(h)
  <2>1. /\ plans' \subseteq plans
        /\ UNCHANGED <<live, points, made, latest, issued, jobs, orig, since>>
    BY <1>1 DEF RefuseRepair
  <2>2. NTypeOK'
    BY <2>1 DEF NInv, NTypeOK
  <2> QED
    BY <2>1, <2>2 DEF NInv, JobOK, Numbered, Guarded, Recoverable, RestoredSoFar, Listed
<1>2. CASE RequestSnapshot(h)
  <2> DEFINE j == Request("snapshot", "capture", <<>>, Nothing, 0)
  <2>1. /\ jobs' = [jobs EXCEPT ![h] = j] /\ jobs'[h] = j
        /\ UNCHANGED <<live, points, made, latest, plans, issued, orig, since>>
    BY <1>2 DEF RequestSnapshot, NInv, NTypeOK
  <2>2. j \in Job /\ j.does = "snapshot" /\ j.at = "capture" /\ j.id = 0
    BY DEF Request, Job
  <2> HIDE DEF j
  <2>3. jobs'[h] \in Job /\ JobOK(jobs[h])' /\ RestoredSoFar(jobs[h])'
    BY <2>1, <2>2 DEF JobOK, RestoredSoFar, Restores, NInv, NTypeOK
  <2> QED
    BY <2>1, <2>2, <2>3, OneJob DEF Restores, NInv, NTypeOK
<1>3. CASE RequestRollback(h)
  <2>1. PICK i \in 1..Len(points) :
          jobs' = [jobs EXCEPT ![h] = Request("rollback", "wininet", <<>>, points[i].saved, points[i].id)]
    BY <1>3 DEF RequestRollback
  <2> DEFINE j == Request("rollback", "wininet", <<>>, points[i].saved, points[i].id)
  <2>2. jobs' = [jobs EXCEPT ![h] = j] /\ jobs'[h] = j
    BY <2>1 DEF NInv, NTypeOK
  <2>3. points[i].id \in Nat /\ points[i].saved \in Machine /\ points[i].id <= made
    <3>1. points[i] \in [id : Nat, saved : Machine]
      <4> DEFINE P == [id : Nat, saved : Machine]
      <4>1. points \in Seq(P)
        BY DEF NInv, NTypeOK
      <4> HIDE DEF P
      <4>2. points[i] \in P
        BY <4>1
      <4> QED
        BY <4>2 DEF P
    <3> QED
      BY <3>1 DEF NInv, Numbered
  <2>4. j \in Job /\ j.does = "rollback" /\ j.at = "wininet" /\ j.saved \in Machine /\ j.id <= made
    BY <2>3 DEF Request, Job, Restores
  <2> HIDE DEF j
  <2>5. orig' = Nothing /\ UNCHANGED <<live, points, made, latest, plans, issued, since>>
    BY <1>3 DEF RequestRollback
  <2>6. jobs'[h] \in Job /\ JobOK(jobs[h])' /\ RestoredSoFar(jobs[h])'
    BY <2>2, <2>4, <2>5 DEF JobOK, RestoredSoFar
  <2> QED
    BY <2>2, <2>5, <2>6, OneJob DEF NInv, NTypeOK
<1> QED
  BY <1>1, <1>2, <1>3

\* What is read of a machine's settings are settings of a machine.
LEMMA ReadingType ==
  ASSUME NEW s \in Machine, NEW saved \in Captured(s)
  PROVE  /\ saved \in Machine
         /\ saved.on = s.on /\ saved.addr = s.addr => ProxySettings(saved) = ProxySettings(s)
<1>1. Nothing \in Values
  BY DEF Values
<1>2. PICK on \in {s.on, FALSE}, addr \in {s.addr, Nothing} :
        saved = [s EXCEPT !.on = on, !.addr = addr, !.bypass = Nothing]
  BY DEF Captured
<1>3. on \in BOOLEAN /\ addr \in Values
  BY <1>1, <1>2 DEF Machine
<1>4. saved \in Machine /\ saved.http = s.http
  BY <1>1, <1>2, <1>3 DEF Machine
<1> QED
  BY <1>4 DEF ProxySettings

\* A request reads the settings, gives up, is cut short, or reports.
LEMMA ProgressNInv ==
  ASSUME NInv, NEW h \in Handlers,
         Capture(h) \/ Dropped(h) \/ CutShort(h) \/ Report(h)
  PROVE  NInv'
<1>0. jobs[h] \in Job /\ JobOK(jobs[h]) /\ live \in Machine
  BY DEF NInv, NTypeOK
<1>1. /\ UNCHANGED <<live, points, made, latest, plans, issued, since>>
      /\ orig' \in {orig, Nothing} /\ (~Capture(h) => orig' = orig)
  BY DEF Capture, Dropped, CutShort, Report
<1>2. CASE Capture(h)
  <2>0. PICK saved \in Captured(live) :
          /\ jobs' = [jobs EXCEPT ![h].at = "write", ![h].saved = saved]
          /\ ProxySettings(saved) = ProxySettings(live) \/ orig' = Nothing
    <3>1. PICK saved \in Captured(live) :
            /\ jobs' = [jobs EXCEPT ![h].at = "write", ![h].saved = saved]
            /\ (saved.on = live.on /\ saved.addr = live.addr) \/ orig' = Nothing
      BY <1>2 DEF Capture
    <3> QED
      BY <1>0, <3>1, ReadingType
  <2> DEFINE j == [jobs[h] EXCEPT !.at = "write", !.saved = saved]
  <2>1. jobs[h].at = "capture" /\ jobs' = [jobs EXCEPT ![h] = j] /\ jobs'[h] = j
    BY <1>2, <2>0 DEF Capture, NInv, NTypeOK
  <2>2. /\ j \in Job /\ j.at = "write" /\ j.saved = saved /\ saved \in Machine
        /\ j.does = jobs[h].does /\ j.todo = jobs[h].todo /\ j.id = jobs[h].id
    BY <1>0, ReadingType DEF Job
  <2> HIDE DEF j
  <2>3. jobs'[h] \in Job /\ JobOK(jobs[h])' /\ RestoredSoFar(jobs[h])'
    BY <1>0, <1>1, <2>1, <2>2 DEF JobOK, RestoredSoFar, Restores
  <2>4. orig # Nothing /\ since <= MaxPoints /\ ~Recoverable => ProxySettings(live) = orig
    BY DEF NInv, Guarded
  <2> QED
    BY <1>1, <2>0, <2>1, <2>2, <2>3, <2>4, OneJob DEF Restores, NInv, NTypeOK
<1>3. CASE jobs' = [jobs EXCEPT ![h] = Idle]
  <2>1. jobs'[h] = Idle
    BY <1>3 DEF NInv, NTypeOK
  <2>2. Idle \in Job /\ Idle.at = "idle" /\ Idle.does = "idle" /\ Idle.id = 0
    BY DEF Idle, Request, Job
  <2>3. jobs'[h] \in Job /\ JobOK(jobs[h])' /\ RestoredSoFar(jobs[h])'
    BY <1>1, <2>1, <2>2 DEF JobOK, RestoredSoFar, Restores, NInv, NTypeOK
  <2> QED
    BY <1>1, <1>3, <2>1, <2>2, <2>3, OneJob DEF Restores, NInv, NTypeOK
<1>4. CASE CutShort(h)
  <2> DEFINE todo == <<Head(jobs[h].todo)>>
             j == [jobs[h] EXCEPT !.todo = todo]
  <2>1. jobs[h].at = "act" /\ jobs' = [jobs EXCEPT ![h] = j] /\ jobs'[h] = j
    BY <1>4 DEF CutShort, NInv, NTypeOK
  <2>2. todo \in Seq(Resets) /\ todo # <<>>
    <3>1. jobs[h].todo \in Seq(Resets) /\ jobs[h].todo # <<>>
      BY <1>0, <2>1 DEF Job, JobOK
    <3> QED
      BY <3>1, HeadTailProperties
  <2> HIDE DEF todo
  <2>3. /\ j \in Job /\ j.at = "act" /\ j.todo = todo
        /\ j.does = jobs[h].does /\ j.saved = jobs[h].saved /\ j.id = jobs[h].id
    BY <1>0, <2>1, <2>2 DEF Job
  <2> HIDE DEF j
  <2>4. jobs'[h] \in Job /\ JobOK(jobs[h])' /\ RestoredSoFar(jobs[h])'
    BY <1>0, <1>1, <2>1, <2>2, <2>3 DEF JobOK, RestoredSoFar, Restores
  <2>5. orig # Nothing /\ since <= MaxPoints => Recoverable
    BY <2>1 DEF NInv, Guarded
  <2> QED
    BY <1>1, <2>1, <2>3, <2>4, <2>5, OneJob DEF Restores, NInv, NTypeOK
<1> QED
  BY <1>2, <1>3, <1>4 DEF Dropped, Report

----------------------------------------------------------------------------
(* The recovery points.                                                      *)

\* A point is added and the oldest go: what was recoverable stays so for as
\* long as it is among the newest MaxPoints.
LEMMA StoreNInv ==
  ASSUME NInv, NEW h \in Handlers, Store(h)
  PROVE  NInv'
<1>0. jobs[h] \in Job /\ JobOK(jobs[h]) /\ live \in Machine /\ jobs[h].at = "write"
  BY DEF NInv, NTypeOK, Store
<1>1. PICK hosts \in {live.hosts, Nothing} :
        points' = Retained(Append(points, [id |-> made + 1,
                                           saved |-> [jobs[h].saved EXCEPT !.hosts = hosts]]))
  BY DEF Store
<1> DEFINE saved == [jobs[h].saved EXCEPT !.hosts = hosts]
           point == [id |-> made + 1, saved |-> saved]
           all == Append(points, point)
           P == [id : Nat, saved : Machine]
<1>2. saved \in Machine /\ ProxySettings(saved) = ProxySettings(jobs[h].saved)
  <2>1. jobs[h].saved \in Machine
    BY <1>0 DEF JobOK
  <2>2. hosts \in Values
    BY <1>0 DEF Machine, Values
  <2> QED
    BY <2>1, <2>2 DEF Machine, ProxySettings
<1> HIDE DEF saved
<1>3. point \in P /\ point.id = made + 1 /\ point.saved = saved
  BY <1>2 DEF NInv, NTypeOK
<1> HIDE DEF point
<1>4. /\ points \in Seq(P) /\ all \in Seq(P) /\ Len(all) = Len(points) + 1
      /\ \A i \in 1..Len(points) : all[i] = points[i]
      /\ all[Len(points) + 1] = point
  BY <1>3 DEF NInv, NTypeOK
<1>5. points' = Retained(all) /\ MaxPoints \in Nat
  BY <1>1, SettingsAssumption DEF point, saved
<1> HIDE DEF all, P
<1>6. /\ points' \in Seq(P)
      /\ Len(points') = IF Len(all) > MaxPoints THEN MaxPoints ELSE Len(all)
      /\ \A i \in 1..Len(points') : points'[i] = all[i + Len(all) - Len(points')]
  BY <1>4, <1>5, RetainedFacts
<1>7. /\ made' = made + 1 /\ since' = IF since <= MaxPoints THEN since + 1 ELSE since
      /\ UNCHANGED <<live, latest, plans, issued, orig>>
      /\ made \in Nat /\ since \in Nat
  BY DEF Store, NInv, NTypeOK
<1> DEFINE j == IF jobs[h].does = "repair" THEN [jobs[h] EXCEPT !.at = "act"] ELSE Idle
<1>8. jobs' = [jobs EXCEPT ![h] = j]
  BY DEF Store
<1>9. /\ j \in Job /\ j.at \in {"act", "idle"} /\ j.id <= made
      /\ j.at = "act" => /\ jobs[h].does = "repair" /\ j.does = "repair"
                        /\ j.todo = jobs[h].todo
      /\ j.does = "repair" => j.at = "act"
  BY <1>0, <1>7 DEF Job, JobOK, Idle, Request
<1> HIDE DEF j
<1>10. \A g \in Handlers : jobs'[g] = IF g = h THEN j ELSE jobs[g]
  BY <1>8 DEF NInv, NTypeOK
<1>11. NTypeOK'
  BY <1>6, <1>7, <1>8, <1>9 DEF NInv, NTypeOK, P
<1>12. Numbered'
  <2>1. \A i \in 1..Len(all) : all[i].id <= made + 1
    <3>1. \A i \in 1..Len(points) : points[i].id \in Nat /\ points[i].id <= made
      <4>1. \A i \in 1..Len(points) : points[i] \in P
        BY <1>4
      <4> QED
        BY <4>1 DEF NInv, Numbered, P
    <3>2. \A i \in 1..Len(all) : i \in 1..Len(points) \/ i = Len(points) + 1
      BY <1>4
    <3>3. \A i \in 1..Len(points) : all[i].id <= made + 1
      BY <1>4, <1>7, <3>1
    <3>4. all[Len(points) + 1].id <= made + 1
      BY <1>3, <1>4, <1>7
    <3> QED
      BY <3>2, <3>3, <3>4
  <2>2. \A i \in 1..Len(points') : i + Len(all) - Len(points') \in 1..Len(all)
    BY <1>4, <1>5, <1>6
  <2>3. \A i \in 1..Len(points') : points'[i].id <= made + 1
    BY <1>6, <2>1, <2>2
  <2>4. Len(points') <= MaxPoints
    BY <1>4, <1>5, <1>6
  <2> QED
    BY <1>7, <2>3, <2>4 DEF Numbered
<1>13. \A g \in Handlers : JobOK(jobs[g])'
  <2>1. JobOK(jobs[h])'
    <3>1. jobs'[h] = j /\ j.id <= made + 1 /\ made' = made + 1
      <4>1. j.id \in Nat
        BY <1>9 DEF Job
      <4> QED
        BY <1>7, <1>9, <1>10, <4>1
    <3>2. j.does = "repair" => j.todo # <<>>
      BY <1>0, <1>9 DEF JobOK
    <3> QED
      BY <1>9, <3>1, <3>2 DEF JobOK, Restores
  <2>2. ASSUME NEW g \in Handlers, g # h PROVE JobOK(jobs[g])'
    BY <1>7, <1>10, <2>2 DEF NInv, NTypeOK, Job, JobOK
  <2> QED
    BY <2>1, <2>2
<1>14. \A g \in Handlers : g # h /\ jobs[g].id \in Listed' => jobs[g].id \in Listed
  <2>1. SUFFICES ASSUME NEW g \in Handlers, NEW i \in 1..Len(points'), jobs[g].id = points'[i].id
                 PROVE  jobs[g].id \in Listed
    BY DEF Listed
  <2>2. jobs[g].id \in Nat /\ jobs[g].id <= made
    BY DEF NInv, NTypeOK, Job, JobOK
  <2> DEFINE k == i + Len(all) - Len(points')
  <2>3. k \in 1..Len(points) + 1 /\ points'[i] = all[k]
    <3>1. Len(points) \in Nat /\ Len(all) \in Nat /\ Len(points') \in Nat
      BY <1>4, <1>6
    <3>2. i \in Int /\ 1 <= i /\ i <= Len(points') /\ Len(points') <= Len(all)
      BY <1>5, <1>6, <3>1
    <3>3. k \in 1..Len(all)
      BY <3>1, <3>2
    <3> QED
      BY <1>4, <1>6, <3>3
  <2>4. k # Len(points) + 1
    BY <1>3, <1>4, <1>7, <2>1, <2>2, <2>3
  <2>5. k \in 1..Len(points) /\ points'[i] = points[k]
    <3>1. Len(points) \in Nat /\ k \in Int
      BY <1>4, <2>3
    <3>2. k \in 1..Len(points)
      BY <2>3, <2>4, <3>1
    <3> QED
      BY <1>4, <2>3, <3>2
  <2> QED
    BY <2>1, <2>5 DEF Listed
<1>15. \A g \in Handlers : RestoredSoFar(jobs[g])'
  <2>1. RestoredSoFar(jobs[h])'
    BY <1>9, <1>10 DEF RestoredSoFar
  <2>2. ASSUME NEW g \in Handlers, g # h PROVE RestoredSoFar(jobs[g])'
    BY <1>7, <1>10, <1>14, <2>2 DEF NInv, RestoredSoFar
  <2> QED
    BY <2>1, <2>2
<1>16. Guarded'
  <2>1. SUFFICES ASSUME orig # Nothing, since' <= MaxPoints PROVE Recoverable'
    BY <1>7, <1>9, <1>10 DEF NInv, Guarded, Restores
  <2>2. since <= MaxPoints /\ since' = since + 1 /\ since + 1 <= MaxPoints
    BY <1>5, <1>7, <2>1
  <2>3. PICK k \in 1..Len(all) : k > Len(all) - since' /\ ProxySettings(all[k].saved) = orig
    <3>1. CASE Recoverable
      <4>1. PICK k \in 1..Len(points) : k > Len(points) - since /\ ProxySettings(points[k].saved) = orig
        BY <3>1 DEF Recoverable
      <4>2. k \in 1..Len(all) /\ k > Len(all) - since' /\ all[k] = points[k]
        BY <1>4, <1>7, <2>2, <4>1
      <4> QED
        BY <4>1, <4>2
    <3>2. CASE ~Recoverable
      <4>1. ProxySettings(jobs[h].saved) = orig
        BY <1>0, <2>1, <2>2, <3>2 DEF NInv, Guarded
      <4>2. Len(all) \in 1..Len(all) /\ Len(all) > Len(all) - since' /\ all[Len(all)] = point
        BY <1>4, <1>7, <2>2
      <4> QED
        BY <1>2, <1>3, <4>1, <4>2
    <3> QED
      BY <3>1, <3>2
  <2> DEFINE i == k - Len(all) + Len(points')
  <2>4. i \in 1..Len(points') /\ i > Len(points') - since' /\ i + Len(all) - Len(points') = k
    <3>1. Len(all) \in Nat /\ Len(points') \in Nat /\ k \in Int
      BY <1>4, <1>6
    <3>2. Len(points') = IF Len(all) > MaxPoints THEN MaxPoints ELSE Len(all)
      BY <1>6
    <3>3. 1 <= k /\ k <= Len(all) /\ k > Len(all) - since' /\ since' <= MaxPoints
      BY <2>2, <2>3
    <3>4. since' \in Nat /\ MaxPoints \in Nat
      BY <1>5, <1>7
    <3>5. 1 <= i /\ i <= Len(points') /\ i > Len(points') - since'
      BY <3>1, <3>2, <3>3, <3>4
    <3> QED
      BY <3>1, <3>5
  <2>5. ProxySettings(points'[i].saved) = orig'
    BY <1>6, <1>7, <2>3, <2>4
  <2> QED
    BY <2>4, <2>5 DEF Recoverable, ProxySettings
<1> QED
  BY <1>11, <1>12, <1>13, <1>15, <1>16 DEF NInv

----------------------------------------------------------------------------
(* Steps that change the machine.                                            *)

\* A change disturbs nothing but the rollbacks of others.
LEMMA TouchedType ==
  ASSUME NEW j \in Job
  PROVE  [j EXCEPT !.touched = TRUE] \in Job
BY DEF Job

LEMMA DisturbedType ==
  ASSUME NInv, NEW h \in Handlers
  PROVE  Disturbed(h) \in [Handlers -> Job] /\ Disturbed(h)[h] = jobs[h]
<1>1. \A g \in Handlers : jobs[g] \in Job
  BY DEF NInv, NTypeOK
<1>2. \A g \in Handlers : Disturbed(h)[g] \in Job
  BY <1>1, TouchedType DEF Disturbed
<1> QED
  BY <1>2 DEF Disturbed

\* What a step of a request that changes the machine has to show: others'
\* rollbacks are disturbed, and what the user had is recoverable.
LEMMA OneChange ==
  ASSUME NInv, NEW h \in Handlers,
         jobs' \in [Handlers -> Job],
         \A g \in Handlers : g # h => jobs'[g] = Disturbed(h)[g],
         live' \in Machine, UNCHANGED <<points, made, latest, plans, issued, orig, since>>,
         JobOK(jobs[h])', RestoredSoFar(jobs[h])',
         orig # Nothing => jobs'[h].at \notin Restores /\ (since <= MaxPoints => Recoverable)
  PROVE  NInv'
<1>1. NTypeOK'
  BY DEF NInv, NTypeOK
<1>2. ASSUME NEW g \in Handlers, g # h
      PROVE  /\ jobs[g].does = "rollback" => jobs'[g] = [jobs[g] EXCEPT !.touched = TRUE]
             /\ jobs[g].does # "rollback" => jobs'[g] = jobs[g]
             /\ jobs[g] \in Job
  BY <1>2 DEF Disturbed, NInv, NTypeOK
<1>3. ASSUME NEW g \in Handlers, g # h
      PROVE  /\ jobs'[g].at = jobs[g].at /\ jobs'[g].does = jobs[g].does /\ jobs'[g].id = jobs[g].id
             /\ jobs'[g].todo = jobs[g].todo /\ jobs'[g].saved = jobs[g].saved
             /\ jobs[g].does = "rollback" => jobs'[g].touched
  <2>1. CASE jobs[g].does = "rollback"
    BY <1>2, <1>3, <2>1 DEF Job
  <2>2. CASE jobs[g].does # "rollback"
    BY <1>2, <1>3, <2>2
  <2> QED
    BY <2>1, <2>2
<1>4. \A g \in Handlers : JobOK(jobs[g])'
  BY <1>3 DEF NInv, JobOK
<1>5. ASSUME NEW g \in Handlers, g # h PROVE RestoredSoFar(jobs[g])'
  <2>1. jobs[g].at \in Restores => jobs[g].does = "rollback"
    BY DEF NInv, JobOK
  <2> QED
    BY <1>3, <1>5, <2>1 DEF RestoredSoFar, Restores
<1>6. Guarded'
  <2>1. Recoverable => Recoverable'
    BY DEF Recoverable
  <2> QED
    BY <1>3, <2>1 DEF NInv, Guarded
<1> QED
  BY <1>1, <1>4, <1>5, <1>6 DEF NInv, Numbered

\* An action of a repair: its recovery point is there, or was retired.
LEMMA ActNInv == ASSUME NInv, NEW h \in Handlers, Act(h) PROVE NInv'
<1>0. /\ jobs[h] \in Job /\ JobOK(jobs[h]) /\ live \in Machine /\ jobs[h].at = "act"
      /\ jobs[h].does = "repair" /\ jobs[h].todo \in Seq(Resets) /\ jobs[h].todo # <<>>
  BY DEF NInv, NTypeOK, Act, Job, JobOK
<1>1. live' \in Machine
  BY <1>0, EffectType, HeadTailProperties DEF Act
<1> DEFINE todo == Tail(jobs[h].todo)
           j == IF Len(jobs[h].todo) = 1 THEN Idle ELSE [jobs[h] EXCEPT !.todo = todo]
<1>2. jobs' = [Disturbed(h) EXCEPT ![h] = j]
  BY DEF Act
<1>3. todo \in Seq(Resets) /\ (Len(jobs[h].todo) # 1 => todo # <<>>)
  <2>1. todo \in Seq(Resets) /\ Len(todo) = Len(jobs[h].todo) - 1
    BY <1>0, HeadTailProperties
  <2> HIDE DEF todo
  <2>2. Len(jobs[h].todo) # 1 => Len(todo) # 0
    BY <1>0, <2>1
  <2>3. todo = <<>> => Len(todo) = 0
    OBVIOUS
  <2> QED
    BY <2>1, <2>2, <2>3
<1> HIDE DEF todo
<1>4. /\ j \in Job /\ j.at \in {"idle", "act"} /\ j.id <= made
      /\ j.at = "act" => j.does = "repair"
      /\ j.does = "repair" => j.todo # <<>>
  <2>1. \/ j = Idle
        \/ j = [jobs[h] EXCEPT !.todo = todo] /\ todo # <<>>
    BY <1>3
  <2> HIDE DEF j
  <2>2. Idle \in Job /\ Idle.at = "idle" /\ Idle.does = "idle" /\ Idle.id = 0
    BY DEF Idle, Request, Job
  <2>3. made \in Nat
    BY DEF NInv, NTypeOK
  <2>4. CASE j = Idle
    BY <2>2, <2>3, <2>4
  <2>5. CASE j = [jobs[h] EXCEPT !.todo = todo] /\ todo # <<>>
    BY <1>0, <1>3, <2>5 DEF Job, JobOK
  <2> QED
    BY <2>1, <2>4, <2>5
<1> HIDE DEF j
<1>5. Disturbed(h) \in [Handlers -> Job]
  BY DisturbedType
<1>6. /\ jobs' \in [Handlers -> Job] /\ jobs'[h] = j
      /\ \A g \in Handlers : g # h => jobs'[g] = Disturbed(h)[g]
  BY <1>2, <1>4, <1>5
<1>7. UNCHANGED <<points, made, latest, plans, issued, orig, since>>
  BY DEF Act
<1>8. JobOK(jobs[h])' /\ RestoredSoFar(jobs[h])'
  BY <1>4, <1>6, <1>7 DEF JobOK, RestoredSoFar, Restores
<1>9. orig # Nothing => jobs'[h].at \notin Restores /\ (since <= MaxPoints => Recoverable)
  BY <1>0, <1>4, <1>6 DEF NInv, Guarded, Restores
<1> QED
  BY <1>1, <1>6, <1>7, <1>8, <1>9, OneChange

\* A rollback knows no user's settings, so its steps need only say what they
\* have restored.
LEMMA RollbackNInv ==
  ASSUME NInv, NEW h \in Handlers, jobs[h].at \in Restores \ {"report"},
         NEW at \in Restores, NEW ok \in BOOLEAN,
         jobs' = [Disturbed(h) EXCEPT ![h] = [jobs[h] EXCEPT !.at = at, !.ok = ok]],
         live' \in Machine, UNCHANGED <<points, made, latest, plans, issued, orig, since>>,
         ok /\ ~jobs[h].touched =>
           /\ at = "winhttp" /\ jobs[h].id \in Listed =>
                live'.on = jobs[h].saved.on /\ live'.addr = jobs[h].saved.addr
           /\ at \in {"hosts", "report"} => ProxySettings(live)' = ProxySettings(jobs[h].saved)
           /\ at = "report" /\ jobs[h].id \in Listed /\ jobs[h].saved.hosts # Nothing =>
                live'.hosts = jobs[h].saved.hosts
  PROVE  NInv'
<1>0. jobs[h] \in Job /\ JobOK(jobs[h])
  BY DEF NInv, NTypeOK
<1> DEFINE j == [jobs[h] EXCEPT !.at = at, !.ok = ok]
<1>1. /\ j \in Job /\ j.at = at /\ j.ok = ok /\ j.touched = jobs[h].touched
      /\ j.does = jobs[h].does /\ j.id = jobs[h].id /\ j.saved = jobs[h].saved
  BY <1>0 DEF Job
<1>2. jobs' = [Disturbed(h) EXCEPT ![h] = j]
  OBVIOUS
<1> HIDE DEF j
<1>3. Disturbed(h) \in [Handlers -> Job]
  BY DisturbedType
<1>4. /\ jobs' \in [Handlers -> Job] /\ jobs'[h] = j
      /\ \A g \in Handlers : g # h => jobs'[g] = Disturbed(h)[g]
  BY <1>1, <1>2, <1>3
<1>5. orig = Nothing
  BY DEF NInv, Guarded
<1>6. JobOK(jobs[h])'
  BY <1>0, <1>1, <1>4 DEF JobOK, Restores
<1>7. Listed' = Listed
  BY DEF Listed
<1>8. RestoredSoFar(jobs[h])'
  BY <1>1, <1>4, <1>7 DEF RestoredSoFar, ProxySettings
<1> QED
  BY <1>4, <1>5, <1>6, <1>8, OneChange

\* The three steps of a rollback.
LEMMA RestoreNInv ==
  ASSUME NInv, NEW h \in Handlers, RestoreWininet(h) \/ RestoreWinhttp(h) \/ RestoreHosts(h)
  PROVE  NInv'
<1>0. /\ jobs[h] \in Job /\ live \in Machine /\ RestoredSoFar(jobs[h])
      /\ jobs[h].at \in Restores /\ jobs[h].saved \in Machine
  BY DEF NInv, NTypeOK, JobOK, RestoreWininet, RestoreWinhttp, RestoreHosts, Restores
<1>1. UNCHANGED <<points, made, latest, plans, issued, orig, since>>
  BY DEF RestoreWininet, RestoreWinhttp, RestoreHosts
<1>2. Disturbed(h) \in [Handlers -> Job] /\ Disturbed(h)[h] = jobs[h]
  BY DisturbedType
<1>3. CASE RestoreWininet(h)
  <2>1. PICK result \in (IF jobs[h].id \in Listed THEN RestoredWininet(live, jobs[h].saved)
                         ELSE {<<live, TRUE>>}) :
          /\ live' = result[1]
          /\ jobs' = [Disturbed(h) EXCEPT ![h].at = "winhttp", ![h].ok = result[2]]
    BY <1>3 DEF RestoreWininet
  <2>2. /\ result[1] \in Machine /\ result[2] \in BOOLEAN
        /\ result[2] /\ jobs[h].id \in Listed =>
             result[1].on = jobs[h].saved.on /\ result[1].addr = jobs[h].saved.addr
    <3>1. CASE jobs[h].id \notin Listed
      <4>1. result = <<live, TRUE>>
        BY <3>1
      <4> QED
        BY <1>0, <3>1, <4>1
    <3>2. CASE result = <<[live EXCEPT !.on = jobs[h].saved.on, !.addr = jobs[h].saved.addr], TRUE>>
      <4>1. [live EXCEPT !.on = jobs[h].saved.on, !.addr = jobs[h].saved.addr] \in Machine
        BY <1>0 DEF Machine
      <4> QED
        BY <1>0, <3>2, <4>1 DEF Machine
    <3>3. CASE result = <<[live EXCEPT !.on = jobs[h].saved.on], FALSE>>
      <4>1. [live EXCEPT !.on = jobs[h].saved.on] \in Machine
        BY <1>0 DEF Machine
      <4> QED
        BY <3>3, <4>1
    <3>4. CASE result = <<live, FALSE>>
      BY <1>0, <3>4
    <3> QED
      BY <2>1, <3>1, <3>2, <3>3, <3>4 DEF RestoredWininet
  <2>3. jobs' = [Disturbed(h) EXCEPT ![h] = [jobs[h] EXCEPT !.at = "winhttp", !.ok = result[2]]]
    BY <1>2, <2>1
  <2>4. jobs[h].at = "wininet"
    BY <1>3 DEF RestoreWininet
  <2> QED
    BY <1>1, <2>1, <2>2, <2>3, <2>4, RollbackNInv DEF Restores
<1>4. CASE RestoreWinhttp(h)
  <2>1. PICK restored \in (IF jobs[h].id \in Listed THEN BOOLEAN ELSE {FALSE}) :
          /\ live' = IF restored THEN [live EXCEPT !.http = jobs[h].saved.http, !.bypass = Nothing]
                     ELSE live
          /\ jobs' = [Disturbed(h) EXCEPT ![h].at = "hosts", ![h].ok = @ /\ restored]
    BY <1>4 DEF RestoreWinhttp
  <2> DEFINE ok == jobs[h].ok /\ restored
  <2>2. /\ live' \in Machine
        /\ restored => /\ live'.http = jobs[h].saved.http /\ live'.on = live.on
                       /\ live'.addr = live.addr
    BY <1>0, <2>1 DEF Machine, Values
  <2>3. jobs' = [Disturbed(h) EXCEPT ![h] = [jobs[h] EXCEPT !.at = "hosts", !.ok = ok]]
    BY <1>2, <2>1
  <2>4. jobs[h].at = "winhttp" /\ ok \in BOOLEAN
    BY <1>4 DEF RestoreWinhttp
  <2>5. ok /\ ~jobs[h].touched => ProxySettings(live)' = ProxySettings(jobs[h].saved)
    BY <1>0, <2>1, <2>2, <2>4 DEF RestoredSoFar, ProxySettings
  <2> HIDE DEF ok
  <2> QED
    BY <1>1, <2>2, <2>3, <2>4, <2>5, RollbackNInv DEF Restores
<1>5. CASE RestoreHosts(h)
  <2> DEFINE there == jobs[h].id \in Listed /\ jobs[h].saved.hosts # Nothing
  <2>1. PICK copied \in (IF there THEN BOOLEAN ELSE {TRUE}) :
          /\ live' = IF there /\ copied THEN [live EXCEPT !.hosts = jobs[h].saved.hosts] ELSE live
          /\ jobs' = [Disturbed(h) EXCEPT ![h].at = "report", ![h].ok = @ /\ copied]
    BY <1>5 DEF RestoreHosts
  <2> DEFINE ok == jobs[h].ok /\ copied
  <2>2. /\ live' \in Machine
        /\ live'.http = live.http /\ live'.on = live.on /\ live'.addr = live.addr
        /\ there /\ copied => live'.hosts = jobs[h].saved.hosts
    BY <1>0, <2>1 DEF Machine
  <2>3. jobs' = [Disturbed(h) EXCEPT ![h] = [jobs[h] EXCEPT !.at = "report", !.ok = ok]]
    BY <1>2, <2>1
  <2>4. jobs[h].at = "hosts" /\ ok \in BOOLEAN
    BY <1>5 DEF RestoreHosts
  <2>5. ok /\ ~jobs[h].touched => ProxySettings(live)' = ProxySettings(jobs[h].saved)
    BY <1>0, <2>2, <2>4 DEF RestoredSoFar, ProxySettings
  <2>6. ok => copied
    OBVIOUS
  <2> HIDE DEF ok
  <2> QED
    BY <1>1, <2>2, <2>3, <2>4, <2>5, <2>6, RollbackNInv DEF Restores
<1> QED
  BY <1>3, <1>4, <1>5

\* A change by somebody else disturbs every rollback and ends the history; a
\* crash ends every request.
LEMMA WorldNInv == ASSUME NInv, Change \/ ServiceCrash PROVE NInv'
<1>1. CASE Change
  <2>1. /\ live' \in Machine /\ orig' = Nothing
        /\ UNCHANGED <<points, made, latest, plans, issued, since>>
    BY <1>1, SettingsAssumption DEF Change
  <2>2. \A h \in Handlers :
          jobs'[h] = IF jobs[h].does = "rollback" THEN [jobs[h] EXCEPT !.touched = TRUE] ELSE jobs[h]
    BY <1>1 DEF Change
  <2>3. \A h \in Handlers :
          /\ jobs[h] \in Job
          /\ jobs'[h].at = jobs[h].at /\ jobs'[h].does = jobs[h].does /\ jobs'[h].id = jobs[h].id
          /\ jobs'[h].todo = jobs[h].todo /\ jobs'[h].saved = jobs[h].saved
          /\ jobs[h].does = "rollback" => jobs'[h].touched
    <3>1. \A h \in Handlers : jobs[h] \in Job
      BY DEF NInv, NTypeOK
    <3>2. ASSUME NEW j \in Job, NEW k, k = [j EXCEPT !.touched = TRUE]
          PROVE  /\ k.at = j.at /\ k.does = j.does /\ k.id = j.id
                 /\ k.todo = j.todo /\ k.saved = j.saved /\ k.touched
      BY <3>2 DEF Job
    <3>3. ASSUME NEW h \in Handlers
          PROVE  /\ jobs'[h].at = jobs[h].at /\ jobs'[h].does = jobs[h].does /\ jobs'[h].id = jobs[h].id
                 /\ jobs'[h].todo = jobs[h].todo /\ jobs'[h].saved = jobs[h].saved
                 /\ jobs[h].does = "rollback" => jobs'[h].touched
      <4>1. CASE jobs[h].does = "rollback"
        <5>1. jobs'[h] = [jobs[h] EXCEPT !.touched = TRUE]
          BY <2>2, <4>1
        <5> QED
          BY <3>1, <3>2, <5>1
      <4>2. CASE jobs[h].does # "rollback"
        BY <2>2, <4>2
      <4> QED
        BY <4>1, <4>2
    <3> QED
      BY <3>1, <3>3
  <2>4. NTypeOK'
    <3>1. jobs' \in [Handlers -> Job]
      <4>1. \A h \in Handlers : jobs'[h] \in Job
        BY <2>2, <2>3, TouchedType
      <4>2. jobs' = [h \in Handlers |-> jobs'[h]]
        BY <1>1 DEF Change
      <4> QED
        BY <4>1, <4>2
    <3> QED
      BY <2>1, <3>1 DEF NInv, NTypeOK
  <2>5. \A h \in Handlers : JobOK(jobs[h])'
    BY <2>1, <2>3 DEF NInv, JobOK
  <2>6. \A h \in Handlers : RestoredSoFar(jobs[h])'
    BY <2>3 DEF NInv, JobOK, RestoredSoFar, Restores
  <2> QED
    BY <2>1, <2>4, <2>5, <2>6 DEF NInv, Numbered, Guarded
<1>2. CASE ServiceCrash
  <2>1. /\ jobs' = [h \in Handlers |-> Idle] /\ latest' = Nothing /\ plans' = {}
        /\ UNCHANGED <<live, points, made, issued, orig, since>>
    BY <1>2 DEF ServiceCrash
  <2>2. Idle \in Job /\ Idle.at = "idle" /\ Idle.does = "idle" /\ Idle.id = 0
    BY DEF Idle, Request, Job
  <2>3. NTypeOK'
    BY <2>1, <2>2 DEF NInv, NTypeOK
  <2>4. \A h \in Handlers : jobs'[h] = Idle
    BY <2>1
  <2>5. \A h \in Handlers : JobOK(jobs[h])' /\ RestoredSoFar(jobs[h])'
    BY <2>1, <2>2, <2>4 DEF JobOK, RestoredSoFar, Restores, NInv, NTypeOK
  <2>6. Guarded'
    BY <2>1, <2>2, <2>4 DEF NInv, Guarded, Recoverable, Restores
  <2> QED
    BY <2>1, <2>3, <2>5, <2>6 DEF NInv, Numbered
<1> QED
  BY <1>1, <1>2

\* Every step preserves the invariant.
LEMMA NextNInv == NInv /\ [NNext]_nvars => NInv'
<1> SUFFICES ASSUME NInv, [NNext]_nvars PROVE NInv'
  OBVIOUS
<1>1. CASE UNCHANGED nvars
  BY <1>1 DEF nvars, NInv, NTypeOK, JobOK, Numbered, Guarded, Recoverable, RestoredSoFar, Listed
<1>2. ASSUME NEW h \in Handlers, Requests(h) PROVE NInv'
  BY <1>2, RepairNInv, RequestNInv DEF Requests
<1>3. ASSUME NEW h \in Handlers, Works(h) PROVE NInv'
  BY <1>3, ProgressNInv, StoreNInv, ActNInv, RestoreNInv DEF Works
<1>4. CASE Diagnose \/ GetPlan \/ Change \/ ServiceCrash
  BY <1>4, AdviceNInv, WorldNInv
<1> QED
  BY <1>1, <1>2, <1>3, <1>4 DEF NNext

----------------------------------------------------------------------------
(* The theorems.                                                             *)

\* The invariant, for any requests, settings and retention: before a repair
\* has touched anything its recovery point is complete, and a rollback has
\* restored what its step says.
THEOREM RepairInvariant == NSpec => []NInv
<1>1. NInit => NInv
  BY InitNInv
<1>2. NInv /\ [NNext]_nvars => NInv'
  BY NextNInv
<1> QED
  BY <1>1, <1>2, PTL DEF NSpec

\* Whatever repairs, snapshots and crashes came since, the user's proxies are
\* as they were or in a recovery point the service lists, until it has made
\* more newer ones than it retains (execute_actions, create_snapshot,
\* cleanup_old_snapshots).
THEOREM RepairsAreRecoverable ==
  NSpec => []UserSettingsRecoverable
<1>1. NInv => UserSettingsRecoverable
  BY DEF NInv, Guarded, Recoverable, UserSettingsRecoverable
<1> QED
  BY <1>1, RepairInvariant, PTL

\* An undisturbed rollback that reports success has restored its recovery
\* point (SnapshotManager::rollback).
THEOREM RollbacksRestore ==
  NSpec => []RollbackRestores
<1>1. NInv => RollbackRestores
  BY DEF NInv, RestoredSoFar, RollbackRestores
<1> QED
  BY <1>1, RepairInvariant, PTL

----------------------------------------------------------------------------
(* The pipe.                                                                 *)

\* A client's instance is counted once.
LEMMA HeldChanges ==
  ASSUME PipeTypeOK, NEW c \in Clients
  PROVE  /\ IsFiniteSet(Held) /\ Cardinality(Held) \in Nat
         /\ (\E next : handler' = [handler EXCEPT ![c] = next] /\ next # "none")
              /\ handler[c] # "none" => Held' = Held
         /\ handler' = [handler EXCEPT ![c] = "none"] =>
              Cardinality(Held') \in Nat /\ Cardinality(Held') <= Cardinality(Held)
         /\ handler' = [handler EXCEPT ![c] = "identify"] /\ handler[c] = "none" =>
              Cardinality(Held') = Cardinality(Held) + 1
<1> USE DEF PipeTypeOK
<1>1. IsFiniteSet(Held) /\ Cardinality(Held) \in Nat
  <2>1. Held \subseteq Clients
    BY DEF Held
  <2>2. QED
    BY <2>1, PipeAssumption, FS_Subset, FS_CardinalityType
<1>2. ASSUME NEW next, handler' = [handler EXCEPT ![c] = next], next # "none",
             handler[c] # "none"
      PROVE  Held' = Held
  BY <1>2 DEF Held
<1>3. ASSUME handler' = [handler EXCEPT ![c] = "none"]
      PROVE  Cardinality(Held') \in Nat /\ Cardinality(Held') <= Cardinality(Held)
  <2>1. Held' \subseteq Held
    BY <1>3 DEF Held
  <2>2. QED
    BY <2>1, <1>1, FS_Subset, FS_CardinalityType
<1>4. ASSUME handler' = [handler EXCEPT ![c] = "identify"], handler[c] = "none"
      PROVE  Cardinality(Held') = Cardinality(Held) + 1
  <2>1. Held' = Held \cup {c} /\ c \notin Held
    BY <1>4 DEF Held
  <2>2. QED
    BY <2>1, <1>1, FS_AddElement
<1>5. QED
  BY <1>1, <1>2, <1>3, <1>4

\* Every step of a client and of its instance, and what it leaves alone.
LEMMA InstanceSteps ==
  ASSUME PipeInv, NEW c \in Clients, Serves(c) \/ Expire(c)
  PROVE  /\ UNCHANGED <<listener, ready>>
         /\ handler[c] # "none"
         /\ \A d \in Clients \ {c} : /\ handler'[d] = handler[d] /\ request'[d] = request[d]
                                     /\ answer'[d] = answer[d]
         /\ \/ Ends(c)
            \/ /\ request' = request /\ UNCHANGED client
               /\ \/ answer' = answer /\ \E next \in {"length", "payload", "dispatch"} :
                                          handler' = [handler EXCEPT ![c] = next]
                  \/ /\ handler[c] # "write"
                     /\ \E a \in Refused \cup Routed : Answers(c, a)
         /\ PipeTypeOK'
<1> USE DEF PipeInv, PipeTypeOK, Refused, Routed, Answers, Proceeds, Ends
<1>1. CASE Identify(c)
  BY <1>1 DEF Identify
<1>2. CASE ReadLength(c)
  BY <1>2 DEF ReadLength
<1>3. CASE ReadPayload(c)
  BY <1>3 DEF ReadPayload, Verdict
<1>4. CASE Dispatch(c)
  BY <1>4 DEF Dispatch, Refusals
<1>5. CASE WriteResponse(c)
  BY <1>5 DEF WriteResponse
<1>6. CASE ReadBroken(c)
  BY <1>6 DEF ReadBroken
<1>7. CASE Broken(c)
  BY <1>7 DEF Broken
<1>8. CASE Expire(c)
  BY <1>8 DEF Expire
<1>9. QED
  BY <1>1, <1>2, <1>3, <1>4, <1>5, <1>6, <1>7, <1>8 DEF Serves

\* Nothing is open before the pipe is there.
LEMMA PipeInit == IInit => PipeInv
<1>1. SUFFICES ASSUME IInit
               PROVE  PipeInv
  OBVIOUS
<1> USE <1>1, PipeAssumption DEF IInit
<1>2. PipeTypeOK
  BY DEF PipeTypeOK
<1>3. Held = {}
  BY DEF Held
<1>4. WithinInstances
  BY <1>3, FS_EmptySet DEF WithinInstances, Instances
<1>5. OnlyPermittedRouted /\ ReadyFirst /\ \A c \in Clients : InstanceOK(c)
  BY <1>3 DEF OnlyPermittedRouted, ReadyFirst, InstanceOK
<1>6. QED
  BY <1>2, <1>4, <1>5 DEF PipeInv

\* The listener's steps take an instance into use only below the limit.
LEMMA ListenerStep ==
  ASSUME PipeInv, Create \/ CreateFails \/ ConnectFails \/ Retry
  PROVE  PipeInv'
<1> USE DEF PipeInv, Create, CreateFails, ConnectFails, Retry
<1>1. PipeTypeOK'
  BY DEF PipeTypeOK
<1>2. Held' = Held /\ IsFiniteSet(Held) /\ Cardinality(Held) \in Nat
  <2>1. Held' = Held /\ Held \subseteq Clients
    BY DEF Held
  <2>2. QED
    BY <2>1, PipeAssumption, FS_Subset, FS_CardinalityType
<1>3. WithinInstances'
  BY <1>2, PipeAssumption DEF WithinInstances, Instances
<1>4. OnlyPermittedRouted' /\ ReadyFirst' /\ \A c \in Clients : InstanceOK(c)'
  BY <1>2 DEF OnlyPermittedRouted, ReadyFirst, InstanceOK
<1>5. QED
  BY <1>1, <1>3, <1>4

\* A client takes over the instance that listened.
LEMMA OpenStep ==
  ASSUME PipeInv, NEW c \in Clients, Open(c)
  PROVE  PipeInv'
<1> USE DEF PipeInv, Open
<1>1. PipeTypeOK'
  BY DEF PipeTypeOK
<1>2. /\ IsFiniteSet(Held) /\ Cardinality(Held) \in Nat
      /\ Cardinality(Held') = Cardinality(Held) + 1
  BY HeldChanges
<1>3. WithinInstances'
  BY <1>2, PipeAssumption DEF WithinInstances, Instances
<1>4. ReadyFirst'
  BY DEF ReadyFirst
<1>5. PICK r \in IpcRequests : request' = [request EXCEPT ![c] = r]
  OBVIOUS
<1>6. handler[c] = "none" /\ answer[c] = Empty
  BY DEF InstanceOK
<1>7. /\ handler'[c] = "identify" /\ request'[c] = r /\ answer'[c] = Empty
      /\ \A d \in Clients \ {c} : /\ handler'[d] = handler[d] /\ request'[d] = request[d]
                                  /\ answer'[d] = answer[d]
  BY <1>5, <1>6 DEF PipeTypeOK
<1>8. \A d \in Clients : InstanceOK(d)'
  BY <1>5, <1>7, PipeAssumption DEF InstanceOK
<1>9. OnlyPermittedRouted'
  BY <1>7, PipeAssumption DEF OnlyPermittedRouted
<1>10. QED
  BY <1>1, <1>3, <1>4, <1>8, <1>9

\* A client's instance goes through the checks in their order.
LEMMA ServesStep ==
  ASSUME PipeInv, NEW c \in Clients, Serves(c) \/ Expire(c)
  PROVE  PipeInv'
<1> USE DEF PipeInv
<1>1. /\ UNCHANGED <<listener, ready>> /\ handler[c] # "none" /\ PipeTypeOK'
      /\ \A d \in Clients \ {c} : /\ handler'[d] = handler[d] /\ request'[d] = request[d]
                                  /\ answer'[d] = answer[d]
  BY InstanceSteps
<1>2. /\ Cardinality(Held) \in Nat /\ Cardinality(Held') \in Nat
      /\ Cardinality(Held') <= Cardinality(Held) /\ Held # {}
  <2>1. c \in Held
    BY <1>1 DEF Held
  <2>2. \/ handler' = [handler EXCEPT ![c] = "none"]
        \/ \E next : handler' = [handler EXCEPT ![c] = next] /\ next # "none"
    BY InstanceSteps DEF Ends, Answers, Proceeds
  <2>3. QED
    BY <2>1, <2>2, <1>1, HeldChanges
<1>3. WithinInstances'
  BY <1>1, <1>2, PipeAssumption DEF WithinInstances, Instances
<1>4. ReadyFirst'
  BY <1>1, <1>2 DEF ReadyFirst
<1>5. InstanceOK(c)' /\ (handler'[c] = "dispatch" \/ answer'[c] \in Routed =>
                           Authorized(request'[c]) /\ FrameFits(request'[c])
                           /\ Verdict(request'[c]) = "route")
  <2> USE PipeAssumption DEF PipeTypeOK, InstanceOK, OnlyPermittedRouted, Refused, Routed,
                             Answers, Proceeds, Ends
  <2>1. CASE Identify(c)
    BY <2>1 DEF Identify
  <2>2. CASE ReadLength(c)
    BY <2>2 DEF ReadLength
  <2>3. CASE ReadPayload(c)
    BY <2>3 DEF ReadPayload, Verdict
  <2>4. CASE Dispatch(c)
    BY <2>4 DEF Dispatch, Refusals
  <2>5. CASE WriteResponse(c)
    BY <2>5 DEF WriteResponse
  <2>6. CASE ReadBroken(c)
    BY <2>6 DEF ReadBroken
  <2>7. CASE Broken(c)
    BY <2>7 DEF Broken
  <2>8. CASE Expire(c)
    BY <2>8 DEF Expire
  <2>9. QED
    BY <2>1, <2>2, <2>3, <2>4, <2>5, <2>6, <2>7, <2>8 DEF Serves
<1>6. (\A d \in Clients : InstanceOK(d)') /\ OnlyPermittedRouted'
  BY <1>1, <1>5 DEF InstanceOK, OnlyPermittedRouted
<1>7. QED
  BY <1>1, <1>3, <1>4, <1>6

\* Every step of the listener, of a client and of an instance.
LEMMA PipeNext == PipeInv /\ [INext]_ivars => PipeInv'
<1>1. SUFFICES ASSUME PipeInv, [INext]_ivars
               PROVE  PipeInv'
  OBVIOUS
<1>2. CASE Create \/ CreateFails \/ ConnectFails \/ Retry
  BY <1>1, <1>2, ListenerStep
<1>3. ASSUME NEW c \in Clients, Open(c)
      PROVE  PipeInv'
  BY <1>1, <1>3, OpenStep
<1>4. ASSUME NEW c \in Clients, Send(c) \/ Leave(c)
      PROVE  PipeInv'
  <2>1. UNCHANGED <<listener, ready, handler, request, answer>>
    BY <1>4 DEF Send, Leave
  <2>2. PipeTypeOK'
    BY <1>1, <1>4 DEF PipeInv, PipeTypeOK, Send, Leave
  <2>3. QED
    BY <1>1, <2>1, <2>2 DEF PipeInv, WithinInstances, Instances, Held, OnlyPermittedRouted,
       ReadyFirst, InstanceOK
<1>5. ASSUME NEW c \in Clients, Serves(c) \/ Expire(c)
      PROVE  PipeInv'
  BY <1>1, <1>5, ServesStep
<1>6. CASE UNCHANGED ivars
  BY <1>1, <1>6 DEF ivars, PipeInv, PipeTypeOK, WithinInstances, Instances, Held,
     OnlyPermittedRouted, ReadyFirst, InstanceOK
<1>7. QED
  BY <1>1, <1>2, <1>3, <1>4, <1>5, <1>6 DEF INext

\* The checks in front of the router, the instances and the answers agree in
\* every state, for any clients, requests and limit (serve, handle_client).
THEOREM PipeInvariant == ISpec => []PipeInv
  BY PipeInit, PipeNext, PTL DEF ISpec

\* Whatever its clients do, the pipe holds no more than max_instances, and the
\* router sees no request but a permitted one (create_pipe, dispatch).
THEOREM OnlyPermittedRequestsRouted == ISpec => [](WithinInstances /\ OnlyPermittedRouted)
<1>1. PipeInv => WithinInstances /\ OnlyPermittedRouted
  BY DEF PipeInv
<1>2. QED
  BY <1>1, PipeInvariant, PTL

\* A request is answered once: neither it nor its answer changes while the
\* instance is held, a late answer of the router included (write_response).
THEOREM RequestsAnsweredOnce == ISpec => OneAnswer
<1> DEFINE Once == \A c \in Clients : answer[c] # Empty /\ handler'[c] # "none" =>
                                     answer'[c] = answer[c] /\ request'[c] = request[c]
<1>1. ASSUME PipeInv, INext
      PROVE  Once
  <2>1. ASSUME NEW c \in Clients, Serves(c) \/ Expire(c)
        PROVE  Once
    <3>1. ASSUME answer[c] # Empty, handler'[c] # "none"
          PROVE  answer'[c] = answer[c] /\ request'[c] = request[c]
      <4>1. handler[c] = "write"
        BY <1>1, <3>1 DEF PipeInv, InstanceOK
      <4>2. Ends(c)
        BY <2>1, <4>1 DEF Serves, Expire, Identify, ReadLength, ReadPayload, Dispatch,
           WriteResponse, ReadBroken, Broken
      <4>3. QED
        BY <1>1, <3>1, <4>2 DEF Ends, PipeInv, PipeTypeOK
    <3>2. QED
      BY <1>1, <2>1, <3>1, InstanceSteps
  <2>2. ASSUME NEW c \in Clients, Open(c)
        PROVE  Once
    BY <1>1, <2>2 DEF Open, PipeInv, PipeTypeOK, InstanceOK
  <2>3. QED
    BY <1>1, <2>1, <2>2 DEF INext, Create, CreateFails, ConnectFails, Retry, Send, Leave
<1>2. PipeInv /\ [INext]_ivars => [Once]_ivars
  BY <1>1
<1>3. QED
  BY <1>2, PipeInvariant, PTL DEF ISpec, OneAnswer

----------------------------------------------------------------------------
(* The service and the window.                                               *)

\* A process that failed leaves a stopped service, and one more restart only
\* of the two that are configured.
LEMMA FailedAgrees ==
  ASSUME HostTypeOK, ServiceAgrees, NEW counts \in BOOLEAN, Failed(counts),
         UNCHANGED <<recovery, normal_stop, shared, command>>, process # "none"
  PROVE  HostTypeOK' /\ ServiceAgrees'
  BY DEF HostTypeOK, ServiceAgrees, Failed

\* The steps of --install, --start and --uninstall.
LEMMA InstallsAgree ==
  ASSUME HostTypeOK, ServiceAgrees, Installs
  PROVE  HostTypeOK' /\ ServiceAgrees'
<1> USE DEF HostTypeOK, ServiceAgrees, Same, Goes
<1>1. CASE Migrate \/ MigrateSave \/ InstallPrepare \/ InstallCopy \/ Update \/ Awaited
  BY <1>1 DEF Migrate, MigrateSave, InstallPrepare, InstallCopy, Update, Awaited, Readable
<1>2. CASE CreateService
  BY <1>2 DEF CreateService
<1>3. CASE AskToStop
  BY <1>3 DEF AskToStop, Stops
<1>4. CASE SetFlag
  BY <1>4 DEF SetFlag
<1>5. CASE SetActions
  BY <1>5 DEF SetActions
<1>6. CASE Delete
  <2>1. /\ scm' = "absent" /\ process = "none" /\ process' = "none"
        /\ failures' = 0 /\ failures' \in 0..3
    BY <1>6 DEF Delete
  <2>2. recovery' = {} /\ command' = "none" /\ UNCHANGED <<normal_stop, shared>>
    BY <1>6 DEF Delete
  <2>3. ~restart' /\ restart' \in BOOLEAN
    BY <1>6, Zenon DEF Delete
  <2>4. QED
    BY <2>1, <2>2, <2>3
<1>7. CASE Start
  BY <1>7 DEF Start, Starts
<1>8. QED
  BY <1>1, <1>2, <1>3, <1>4, <1>5, <1>6, <1>7 DEF Installs

\* Every step beside the window: the process, its manager, the administrator.
LEMMA HostAgrees ==
  ASSUME HostTypeOK, ServiceAgrees, HostNext
  PROVE  HostTypeOK' /\ ServiceAgrees'
<1>1. CASE Prepare
  <2>1. CASE Died
    BY <1>1, <2>1, FailedAgrees DEF Prepare, Died
  <2>2. CASE process' = "boot" /\ UNCHANGED <<scm, failures, restart>>
    BY <1>1, <2>2 DEF Prepare, HostTypeOK, ServiceAgrees
  <2>3. QED
    BY <1>1, <2>1, <2>2 DEF Prepare
<1>2. CASE Boot \/ FirstConfig \/ Ready \/ NotReady
  BY <1>2 DEF Boot, FirstConfig, ProcessWrites, Readable, Ready, NotReady, HostTypeOK, ServiceAgrees
<1>3. CASE End
  <2>1. CASE Failed(FALSE)
    BY <1>3, <2>1, FailedAgrees DEF End
  <2>2. CASE ReportedError
    <3>1. ("flag" \in recovery) \in BOOLEAN
      OBVIOUS
    <3>2. QED
      BY <1>3, <2>2, <3>1, FailedAgrees DEF End, ReportedError
  <2>3. QED
    BY <1>3, <2>1, <2>2 DEF End
<1>4. CASE RestartDue
  BY <1>4 DEF RestartDue, Starts, HostTypeOK, ServiceAgrees
<1>5. CASE Crash
  BY <1>5, FailedAgrees DEF Crash, Died
<1>6. CASE Damage \/ PutConfig \/ Command \/ Abandon
  BY <1>6 DEF Damage, PutConfig, Readable, Command, Abandon, Goes, HostTypeOK, ServiceAgrees
<1>7. CASE Installs
  BY <1>7, InstallsAgree
<1>8. QED
  BY <1>1, <1>2, <1>3, <1>4, <1>5, <1>6, <1>7 DEF HostNext, Runs

\* A step that neither writes the shared configuration nor begins to.
LEMMA OthersSeeNone ==
  ASSUME SeenNone, UNCHANGED raced, shared = "absent" <=> shared' = "absent",
         InstallerWrites' => InstallerWrites, ProcessWrites' => ProcessWrites,
         process' \in {"pipe", "serve"} => process \in {"pipe", "serve"}
  PROVE  SeenNone'
  BY DEF SeenNone

\* Nobody writes a shared configuration over one that was there when they looked.
LEMMA HostSeesNone ==
  ASSUME SeenNone, HostNext
  PROVE  SeenNone'
<1>1. CASE Migrate \/ InstallPrepare \/ Boot
  BY <1>1 DEF Migrate, InstallPrepare, Boot, Goes, SeenNone, InstallerWrites, ProcessWrites
<1>2. CASE MigrateSave \/ InstallCopy \/ FirstConfig
  BY <1>2 DEF MigrateSave, InstallCopy, FirstConfig, Goes, SeenNone, InstallerWrites, ProcessWrites
<1>3. CASE Damage \/ PutConfig
  <2>1. UNCHANGED <<raced, command>> /\ process' = process /\ shared' # "absent"
    BY <1>3 DEF Damage, PutConfig, Unreadable
  <2>2. CASE Damage
    BY <2>1, <2>2 DEF Damage, Readable, SeenNone, InstallerWrites, ProcessWrites
  <2>3. CASE PutConfig
    BY <2>1, <2>3 DEF PutConfig, SeenNone, InstallerWrites, ProcessWrites
  <2>4. QED
    BY <1>3, <2>2, <2>3
<1>4. ASSUME UNCHANGED <<shared, raced>>,
             command' = command \/ command' \notin {"save", "copy"},
             process' = process \/ process' # "first",
             process' \in {"pipe", "serve"} => process \in {"pipe", "serve"}
      PROVE  SeenNone'
  BY <1>4, OthersSeeNone DEF InstallerWrites, ProcessWrites
<1>5. CASE Prepare \/ Ready \/ NotReady \/ End \/ RestartDue \/ Crash
  BY <1>4, <1>5 DEF Prepare, Ready, NotReady, End, RestartDue, Crash, Starts, Died,
     ReportedError, Failed
<1>6. CASE CreateService \/ AskToStop \/ Update \/ SetFlag \/ SetActions \/ Delete
           \/ Start \/ Awaited \/ Command \/ Abandon
  BY <1>4, <1>6 DEF CreateService, AskToStop, Update, SetFlag, SetActions, Delete, Start,
     Starts, Stops, Awaited, Command, Abandon, Goes, Same
<1>7. QED
  BY <1>1, <1>2, <1>3, <1>5, <1>6 DEF HostNext, Installs, Runs

\* The desktop starts with an attempt.
LEMMA DesktopStart == DesktopInit => DesktopInv
<1>1. SUFFICES ASSUME DesktopInit
               PROVE  DesktopInv
  OBVIOUS
<1> USE <1>1 DEF DesktopInit, HostInit
<1>2. HostTypeOK /\ attempt \in Nat
  <2>1. failures \in 0..3 /\ attempt \in Nat
    OBVIOUS
  <2>2. QED
    BY <2>1, Zenon DEF HostTypeOK, Readable
<1>3. ServiceAgrees /\ SeenNone
  BY DEF ServiceAgrees, SeenNone, InstallerWrites, ProcessWrites
<1>4. timer \in BOOLEAN /\ online \in BOOLEAN /\ owns \in BOOLEAN
  OBVIOUS
<1>5. NoTimerOnline
  BY DEF NoTimerOnline
<1>6. QED
  BY <1>2, <1>3, <1>4, <1>5 DEF DesktopInv

\* Every step of the window, its timers and its core.
LEMMA DesktopStep == DesktopInv /\ [DesktopNext]_dvars => DesktopInv'
<1>1. SUFFICES ASSUME DesktopInv, [DesktopNext]_dvars
               PROVE  DesktopInv'
  OBVIOUS
<1> USE <1>1
<1>2. CASE HostNext /\ UNCHANGED uvars
  <2>1. HostTypeOK' /\ ServiceAgrees' /\ SeenNone'
    BY <1>2, HostAgrees, HostSeesNone DEF DesktopInv
  <2>2. QED
    BY <1>2, <2>1 DEF uvars, DesktopInv, NoTimerOnline
<1>3. ASSUME UNCHANGED <<scm, recovery, failures, restart, process, normal_stop, shared, raced,
                         command>>
      PROVE  HostTypeOK' /\ ServiceAgrees' /\ SeenNone'
  BY <1>3 DEF DesktopInv, HostTypeOK, ServiceAgrees, SeenNone, InstallerWrites, ProcessWrites
<1> USE DEF hvars, DesktopInv, NoTimerOnline
<1>4. CASE Look \/ Probe
  <2>1. UNCHANGED <<attempt, timer, online>> /\ owns' \in BOOLEAN
    BY <1>4, Zenon DEF Look, Probe
  <2>2. QED
    BY <1>3, <1>4, <2>1 DEF Look, Probe
<1>5. CASE Loaded \/ LiveData
  <2>1. timer' = FALSE /\ online' \in BOOLEAN
    BY <1>5, Zenon DEF Loaded, LiveData, GoesOnline
  <2>2. attempt' \in Nat
    BY <1>5 DEF Loaded, LiveData
  <2>3. QED
    BY <1>3, <1>5, <2>1, <2>2 DEF Loaded, LiveData
<1>6. CASE NotLoaded
  <2>1. ~online' /\ online' \in BOOLEAN /\ timer' \in BOOLEAN
    BY <1>6, Zenon DEF NotLoaded
  <2>2. attempt' \in Nat
    BY <1>6 DEF NotLoaded
  <2>3. QED
    BY <1>3, <1>6, <2>1, <2>2 DEF NotLoaded
<1>7. CASE Skipped
  <2>1. (timer' <=> timer \/ ~online) /\ timer' \in BOOLEAN /\ online' = online
    BY <1>7, Zenon DEF Skipped
  <2>2. attempt' \in Nat
    BY <1>7 DEF Skipped
  <2>3. QED
    BY <1>3, <1>7, <2>1, <2>2 DEF Skipped
<1>8. CASE Timer
  <2>1. ~timer' /\ timer' \in BOOLEAN /\ online' = online
    BY <1>8, Zenon DEF Timer
  <2>2. attempt' \in Nat
    BY <1>8 DEF Timer
  <2>3. QED
    BY <1>3, <1>8, <2>1, <2>2 DEF Timer
<1>9. CASE Poll
  <2>1. ~online' /\ online' \in BOOLEAN /\ timer' \in BOOLEAN
    BY <1>9, Zenon DEF Poll, GoesOffline
  <2>2. QED
    BY <1>3, <1>9, <2>1 DEF Poll
<1>10. CASE Refreshed
  <2>1. online' \in BOOLEAN /\ timer' \in BOOLEAN /\ (online' => ~timer')
    BY <1>10, Zenon DEF Refreshed, GoesOnline, GoesOffline
  <2>2. QED
    BY <1>3, <1>10, <2>1 DEF Refreshed
<1>11. CASE Refresh \/ Reconnect
  BY <1>3, <1>11 DEF Refresh, Reconnect
<1>12. CASE Complaint
  BY <1>3, <1>12 DEF Complaint
<1>13. CASE FiveSeconds \/ PortableUp \/ PortableEnds
  BY <1>3, <1>13 DEF FiveSeconds, PortableUp, PortableEnds
<1>14. CASE Reopen
  <2>1. ~online' /\ online' \in BOOLEAN /\ ~timer' /\ timer' \in BOOLEAN /\ owns' \in BOOLEAN
    BY <1>14, Zenon DEF Reopen
  <2>2. attempt' \in Nat
    BY <1>14 DEF Reopen
  <2>3. QED
    BY <1>3, <1>14, <2>1, <2>2 DEF Reopen
<1>15. CASE UNCHANGED dvars
  BY <1>3, <1>15 DEF dvars, uvars
<1>16. QED
  BY <1>2, <1>4, <1>5, <1>6, <1>7, <1>8, <1>9, <1>10, <1>11, <1>12, <1>13, <1>14, <1>15
     DEF DesktopNext, Connects, Asked

\* The manager and its process agree, who is about to write the shared
\* configuration has seen none, and a window that is online has no timer that
\* would start another attempt, in every state, for any number of faults,
\* commands and attempts.
THEOREM DesktopInvariant == DesktopSpec => []DesktopInv
  BY DesktopStart, DesktopStep, PTL DEF DesktopSpec

\* Whatever happens to the service and whatever the user refreshes meanwhile, a
\* window that tries to connect goes on trying until it is online: an attempt
\* that took the user's refresh for its own included (connectWithRetry,
\* refreshAll, scheduleReconnect).
THEOREM WindowKeepsTrying == DesktopSpec => TriesUntilOnline
<1> DEFINE Tries == Trying /\ ~Trying' => online'
<1>1. ASSUME DesktopInv, DesktopNext
      PROVE  Tries
  <2> USE <1>1 DEF Trying
  <2>1. CASE Loaded \/ LiveData
    BY <2>1, Zenon DEF Loaded, LiveData, GoesOnline
  <2>2. CASE NotLoaded
    <3>1. attempt > 0 /\ attempt \in Nat
      BY <2>2 DEF NotLoaded, DesktopInv
    <3>2. timer' \/ attempt' = attempt + 1
      BY <2>2, Zenon DEF NotLoaded
    <3>3. timer' \/ attempt' > 0
      BY <3>1, <3>2
    <3>4. QED
      BY <3>3, Zenon
  <2>3. CASE Skipped
    BY <2>3, Zenon DEF Skipped
  <2>4. CASE Timer \/ Reconnect \/ Reopen
    <3>1. attempt' > 0
      BY <2>4 DEF Timer, Reconnect, Reopen, DesktopInv
    <3>2. QED
      BY <3>1, Zenon
  <2>5. CASE UNCHANGED attempt /\ (timer => timer')
    BY <2>5, Zenon
  <2>6. CASE Poll \/ Refreshed
    <3>1. GoesOnline \/ GoesOffline
      BY <2>6, Zenon DEF Poll, Refreshed
    <3>2. CASE GoesOnline
      BY <3>2, Zenon DEF GoesOnline
    <3>3. CASE GoesOffline
      BY <2>5, <2>6, <3>3, Zenon DEF GoesOffline, Poll, Refreshed
    <3>4. QED
      BY <3>1, <3>2, <3>3
  <2>7. DesktopNext => \/ Loaded \/ LiveData \/ NotLoaded \/ Skipped \/ Timer \/ Reconnect \/ Reopen
                      \/ Poll \/ Refreshed \/ (UNCHANGED attempt /\ (timer => timer'))
    BY DEF DesktopNext, Connects, Asked, uvars, Look, Probe, Chosen, Refresh, Complaint,
       FiveSeconds, PortableUp, PortableEnds
  <2>8. QED
    BY <2>1, <2>2, <2>3, <2>4, <2>5, <2>6, <2>7, Zenon
<1>2. DesktopInv /\ [DesktopNext]_dvars => [Tries]_dvars
  BY <1>1
<1>3. QED
  BY <1>2, DesktopInvariant, PTL DEF DesktopSpec, TriesUntilOnline

\* At most two automatic restarts, none of a removed service, and no start
\* while a process of the service still runs (run_service, failure actions).
THEOREM ServiceStartsOnce == DesktopSpec => []ServiceAgrees /\ NeverStartedTwice
<1> DEFINE Once == process' = "prepare" /\ process # "prepare" =>
                     process = "none" /\ scm = "stopped"
<1>1. ASSUME DesktopInv, HostNext
      PROVE  Once
  <2>1. CASE Installs
    BY <1>1, <2>1 DEF Installs, Same, Migrate, MigrateSave, InstallPrepare, InstallCopy, CreateService,
       AskToStop, Stops, Update, SetFlag, SetActions, Delete, Start, Starts, Awaited,
       DesktopInv, HostTypeOK, ServiceAgrees
  <2>2. CASE Runs
    BY <1>1, <2>2 DEF Runs, Prepare, Boot, FirstConfig, Ready, End, RestartDue, Starts, Died, ReportedError,
       Failed, DesktopInv, HostTypeOK, ServiceAgrees
  <2>3. QED
    BY <1>1, <2>1, <2>2 DEF HostNext, NotReady, Crash, Died, Failed, Damage, PutConfig,
       Command, Abandon
<1>2. DesktopNext => HostNext \/ UNCHANGED process
  BY DEF DesktopNext, Connects, Look, Probe, Loaded, NotLoaded, Skipped, Timer, Poll, Asked,
     Refresh, Reconnect, LiveData, Complaint, Refreshed, FiveSeconds, PortableUp, PortableEnds,
     Reopen, hvars
<1>3. DesktopInv /\ [DesktopNext]_dvars => [Once]_hvars
  BY <1>1, <1>2 DEF dvars
<1>4. DesktopInv => ServiceAgrees
  BY DEF DesktopInv
<1>5. QED
  BY <1>3, <1>4, DesktopInvariant, PTL DEF DesktopSpec, NeverStartedTwice

\* No installation, migration or start of the service writes over a shared
\* configuration that is there, whoever wrote it and a damaged one included,
\* but where an installer and a first start both saw none and write one after
\* the other (prepare_shared_config, migrate_user_secrets, load_or_init).
THEOREM SharedConfigKept == DesktopSpec => SharedIsKept
<1> DEFINE Kept == shared # "absent" /\ shared' # shared =>
                     \/ shared \in Readable /\ shared' \in Unreadable /\ faults < MaxFaults
                     \/ shared' = "edited" /\ scm = "running"
                     \/ raced
<1>1. ASSUME DesktopInv, HostNext
      PROVE  Kept
  <2>1. CASE Damage
    BY <2>1 DEF Damage, Fault
  <2>2. CASE PutConfig
    BY <1>1, <2>2 DEF PutConfig, DesktopInv, ServiceAgrees
  <2>3. CASE MigrateSave \/ InstallCopy \/ FirstConfig
    BY <1>1, <2>3 DEF MigrateSave, InstallCopy, FirstConfig, DesktopInv, SeenNone,
       InstallerWrites
  <2>4. CASE UNCHANGED shared
    BY <2>4
  <2>5. HostNext => \/ UNCHANGED shared \/ Damage \/ PutConfig
                    \/ MigrateSave \/ InstallCopy \/ FirstConfig
    BY DEF HostNext, Installs, Runs, Migrate, InstallPrepare, CreateService, AskToStop, Update,
       SetFlag, SetActions, Delete, Start, Awaited, Prepare, Boot, Ready, End, RestartDue,
       NotReady, Crash, Command, Abandon
  <2>6. QED
    BY <1>1, <2>1, <2>2, <2>3, <2>4, <2>5
<1>2. DesktopNext => HostNext \/ UNCHANGED shared
  BY DEF DesktopNext, Connects, Look, Probe, Loaded, NotLoaded, Skipped, Timer, Poll, Asked,
     Refresh, Reconnect, LiveData, Complaint, Refreshed, FiveSeconds, PortableUp, PortableEnds,
     Reopen, hvars
<1>3. DesktopInv /\ [DesktopNext]_dvars => [Kept]_hvars
  BY <1>1, <1>2 DEF dvars
<1>4. QED
  BY <1>3, DesktopInvariant, PTL DEF DesktopSpec, SharedIsKept
=============================================================================
