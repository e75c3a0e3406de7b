------------------------ MODULE ProxifyreBackendProofs ------------------------
(***************************************************************************)
(* For any number of threads and any set of configurations: the inductive   *)
(* invariant of ProxifyreBackend, part by part, and the safety properties   *)
(* that follow from it.                                                     *)
(***************************************************************************)
EXTENDS ProxifyreBackend, TLAPS

USE DEF flags, firewall, plane, control, environment, history, LockFree

\* The configuration of a stopped backend is one.
LEMMA OffConfigType == OffConfig \in ConfigType
BY DEF OffConfig, ConfigType, Plans

\* What a thread passed is a configuration.
LEMMA ArgType ==
  ASSUME TypeOK, NEW t \in Threads
  PROVE  arg[t] \in ConfigType
BY OffConfigType, ConfigsAssumption DEF TypeOK

\* What reconcile_processes and the apply install are rules.
LEMMA RulesType ==
  ASSUME NEW cfg, NEW seen
  PROVE  /\ RulePaths(cfg, seen) \subseteq Paths
         /\ PolicyRules(cfg, seen) \subseteq Kinds \X Paths
         /\ BlockRules(cfg) \subseteq Kinds \X Paths
BY DEF RulePaths, PolicyRules, BlockRules, Paths, Kinds

\* A fail-closed set that is not empty blocks something.
LEMMA BlockRulesBlock ==
  ASSUME NEW cfg, BlockRules(cfg) # {}
  PROVE  \E p \in Paths : <<"block", p>> \in BlockRules(cfg)
BY DEF BlockRules, RulePaths

\* A reconciliation puts what is wanted in force and on record, and keeps in
\* force only what a failed cleanup had left.
LEMMA ReconciledRules ==
  ASSUME NEW wanted, NEW gone, Reconciled(wanted, gone)
  PROVE  /\ wanted \subseteq (fw \ leftover)' /\ wanted = installed'
         /\ (fw \ leftover)' \subseteq (fw \ leftover) \union wanted
BY DEF Reconciled

\* A rolled back one takes no rule on record along.
LEMMA RolledBackRules ==
  ASSUME NEW wanted, RolledBack(wanted)
  PROVE  /\ installed' = installed
         /\ (fw \ leftover)' \subseteq fw \ leftover
         /\ (fw \intersect installed)' = fw \intersect installed
BY DEF RolledBack, Unrecorded

\* Policy rules block nothing.
LEMMA NoBlockInPolicy ==
  ASSUME NEW cfg, NEW seen, NEW p
  PROVE  <<"block", p>> \notin PolicyRules(cfg, seen)
BY DEF PolicyRules

\* Strict protection is required from then on, and active only over block rules.
LEMMA StrictBlocks ==
  ASSUME NEW cfg, NEW gone, StrictInstalled(cfg, gone)
  PROVE  strictReq' = TRUE /\ (failClosed' => Blocked')
BY ReconciledRules, BlockRulesBlock DEF StrictInstalled, Blocked

\* A refused attempt changes nothing of that.
LEMMA RefusedBlocks ==
  ASSUME Accounted, NEW cfg, StrictRefused(cfg)
  PROVE  /\ strictReq' = TRUE /\ failClosed' = failClosed
         /\ Blocked' <=> Blocked
<1>1. (fw \ leftover)' = fw \ leftover
  BY DEF StrictRefused, RolledBack, Unrecorded, Accounted
<1>2. QED
  BY <1>1 DEF StrictRefused, Blocked

\* The rules of a policy, rolled back or not, block nothing new.
LEMMA PolicyBlocks ==
  ASSUME NEW cfg, NEW seen, NEW gone,
         Reconciled(PolicyRules(cfg, seen), gone)
  PROVE  Blocked' => Blocked
BY ReconciledRules, NoBlockInPolicy DEF Blocked

LEMMA RollbackBlocks ==
  ASSUME NEW wanted, RolledBack(wanted)
  PROVE  Blocked' => Blocked
BY RolledBackRules DEF Blocked

\* After a cleanup only what it left may block.
LEMMA CleanedBlocks == Cleaned => ~Blocked'
BY DEF Cleaned, Blocked

\* What leaves the firewall alone leaves its blocks.
LEMMA SameBlocks == UNCHANGED firewall => (Blocked' <=> Blocked)
BY DEF Blocked

\* Every step keeps the flags Boolean.
LEMMA FlagsTyped == TypeOK /\ [Next]_vars => FlagsOK'
<1> SUFFICES ASSUME TypeOK, [Next]_vars
             PROVE  FlagsOK'
  OBVIOUS
<1> USE DEF TypeOK, FlagsOK
<1>1. ASSUME NEW t \in Threads, ApplyBegin(t) PROVE FlagsOK'
  BY <1>1, ArgType DEF ApplyBegin, ConfigType
<1>2. ASSUME NEW t \in Threads, BuildPaused(t) PROVE FlagsOK'
  BY <1>2 DEF BuildPaused
<1>3. ASSUME NEW t \in Threads, BuildFails(t) PROVE FlagsOK'
  BY <1>3 DEF BuildFails
<1>4. ASSUME NEW t \in Threads, BuildNoProxies(t) PROVE FlagsOK'
  BY ZenonT(60), <1>4 DEF BuildNoProxies
<1>5. ASSUME NEW t \in Threads, BuildProxies(t) PROVE FlagsOK'
  BY <1>5 DEF BuildProxies
<1>6. ASSUME NEW t \in Threads, SpawnChild(t) PROVE FlagsOK'
  BY <1>6 DEF SpawnChild
<1>7. ASSUME NEW t \in Threads, ProbeReachable(t) PROVE FlagsOK'
  BY <1>7 DEF ProbeReachable
<1>8. ASSUME NEW t \in Threads, ProbeUnreachable(t) PROVE FlagsOK'
  BY ZenonT(60), <1>8 DEF ProbeUnreachable
<1>9. ASSUME NEW t \in Threads, Harden(t) PROVE FlagsOK'
  BY ZenonT(60), <1>9 DEF Harden
<1>10. ASSUME NEW t \in Threads, HardenFails(t) PROVE FlagsOK'
  BY <1>10 DEF HardenFails
<1>11. ASSUME NEW t \in Threads, FailClosed(t) PROVE FlagsOK'
  BY ZenonT(60), <1>11 DEF FailClosed, StrictInstalled, StrictRefused
<1>12. ASSUME NEW t \in Threads, Recover(t) PROVE FlagsOK'
  BY <1>12 DEF Recover, Leave, StrictInstalled, StrictRefused
<1>13. ASSUME NEW t \in Threads, Finish(t) PROVE FlagsOK'
  BY <1>13 DEF Finish, Leave
<1>14. ASSUME NEW t \in Threads, ClearRestart(t) PROVE FlagsOK'
  BY <1>14 DEF ClearRestart, Leave
<1>15. ASSUME NEW t \in Threads, StopFinish(t) PROVE FlagsOK'
  BY <1>15 DEF StopFinish
<1>16. ASSUME NEW t \in Threads, NEW cfg \in Configs, Start(t, cfg)
      PROVE  FlagsOK'
  BY ZenonT(60), <1>16 DEF Start
<1>17. ASSUME NEW t \in Threads, NEW cfg \in Configs, Reload(t, cfg)
      PROVE  FlagsOK'
  BY <1>17 DEF Reload
<1>18. ASSUME NEW t \in Threads, NEW cfg \in Configs, MaintainRestart(t, cfg)
      PROVE  FlagsOK'
  BY <1>18 DEF MaintainRestart, Reload
<1>19. ASSUME NEW t \in Threads, NEW cfg \in Configs, MaintainProbe(t, cfg)
      PROVE  FlagsOK'
  BY <1>19 DEF MaintainProbe, Reload
<1>20. ASSUME NEW t \in Threads, NEW cfg \in Configs, ReconcileStrict(t, cfg)
      PROVE  FlagsOK'
  BY <1>20 DEF ReconcileStrict, RefreshDue, StrictInstalled, StrictRefused
<1>21. ASSUME NEW t \in Threads, NEW cfg \in Configs, NEW seen \in BOOLEAN,
             ReconcilePolicy(t, cfg, seen)
      PROVE  FlagsOK'
  <2>1. cfg.strict \in BOOLEAN
    BY ConfigsAssumption DEF ConfigType
  <2>2. QED
    BY <1>21, <2>1 DEF ReconcilePolicy, PolicyDue, StrictInstalled
<1>22. ASSUME NEW t \in Threads, StopBegin(t) PROVE FlagsOK'
  BY <1>22 DEF StopBegin
<1>23. ASSUME NEW t \in Threads, Return(t) PROVE FlagsOK'
  BY <1>23 DEF Return
<1>24. CASE Status
  BY <1>24 DEF Status
<1>25. CASE ChildExits
  BY <1>25 DEF ChildExits
<1>26. CASE EndpointChanges
  BY <1>26 DEF EndpointChanges
<1>27. CASE ProcessesChange
  BY <1>27 DEF ProcessesChange
<1>28. CASE UNCHANGED vars
  BY <1>28 DEF vars
<1>29. ASSUME NEW t \in Threads, Step(t)
       PROVE  FlagsOK'
  BY <1>1, <1>2, <1>3, <1>4, <1>5, <1>6, <1>7, <1>8, <1>9, <1>10, <1>11, <1>12, <1>13, <1>14,
     <1>15, <1>29 DEF Step
<1>30. CASE Environment
  BY <1>25, <1>26, <1>27, <1>30 DEF Environment
<1>31. QED
  BY <1>16, <1>17, <1>18, <1>19, <1>20, <1>21, <1>22, <1>23, <1>24, <1>28, <1>29, <1>30
     DEF Next

\* Every step keeps the other types.
LEMMA TypePreserved == TypeOK /\ [Next]_vars => TypeOK'
<1> SUFFICES ASSUME TypeOK, [Next]_vars
             PROVE  TypeOK'
  OBVIOUS
<1> USE FlagsTyped, RulesType DEF TypeOK, Points, Cleaned, Reconciled, RolledBack, Unrecorded
<1>1. ASSUME NEW t \in Threads, ApplyBegin(t) PROVE TypeOK'
  BY <1>1 DEF ApplyBegin, Go
<1>2. ASSUME NEW t \in Threads, BuildPaused(t) PROVE TypeOK'
  BY <1>2 DEF BuildPaused, Go
<1>3. ASSUME NEW t \in Threads, BuildFails(t) PROVE TypeOK'
  BY <1>3 DEF BuildFails, Go
<1>4. ASSUME NEW t \in Threads, BuildNoProxies(t) PROVE TypeOK'
  BY <1>4 DEF BuildNoProxies, Go
<1>5. ASSUME NEW t \in Threads, BuildProxies(t) PROVE TypeOK'
  BY <1>5 DEF BuildProxies, Go
<1>6. ASSUME NEW t \in Threads, SpawnChild(t) PROVE TypeOK'
  BY <1>6 DEF SpawnChild, Go
<1>7. ASSUME NEW t \in Threads, ProbeReachable(t) PROVE TypeOK'
  BY <1>7 DEF ProbeReachable, Go
<1>8. ASSUME NEW t \in Threads, ProbeUnreachable(t) PROVE TypeOK'
  BY <1>8 DEF ProbeUnreachable, Go
<1>9. ASSUME NEW t \in Threads, Harden(t) PROVE TypeOK'
  BY <1>9 DEF Harden, Go
<1>10. ASSUME NEW t \in Threads, HardenFails(t) PROVE TypeOK'
  BY <1>10 DEF HardenFails, Go
<1>11. ASSUME NEW t \in Threads, FailClosed(t) PROVE TypeOK'
  BY <1>11 DEF FailClosed, Go, StrictInstalled, StrictRefused
<1>12. ASSUME NEW t \in Threads, Recover(t) PROVE TypeOK'
  BY <1>12 DEF Recover, Go, Leave, StrictInstalled, StrictRefused
<1>13. ASSUME NEW t \in Threads, Finish(t) PROVE TypeOK'
  BY <1>13 DEF Finish, Go, Leave
<1>14. ASSUME NEW t \in Threads, ClearRestart(t) PROVE TypeOK'
  BY <1>14 DEF ClearRestart, Go, Leave
<1>15. ASSUME NEW t \in Threads, StopFinish(t) PROVE TypeOK'
  BY <1>15 DEF StopFinish, Go
<1>16. ASSUME NEW t \in Threads, NEW cfg \in Configs, Start(t, cfg)
      PROVE  TypeOK'
  BY <1>16 DEF Start, Go
<1>17. ASSUME NEW t \in Threads, NEW cfg \in Configs, Reload(t, cfg)
      PROVE  TypeOK'
  BY <1>17 DEF Reload, Go
<1>18. ASSUME NEW t \in Threads, NEW cfg \in Configs, MaintainRestart(t, cfg)
      PROVE  TypeOK'
  BY <1>18 DEF MaintainRestart, Reload, Go
<1>19. ASSUME NEW t \in Threads, NEW cfg \in Configs, MaintainProbe(t, cfg)
      PROVE  TypeOK'
  BY <1>19 DEF MaintainProbe, Reload, Go
<1>20. ASSUME NEW t \in Threads, NEW cfg \in Configs, ReconcileStrict(t, cfg)
      PROVE  TypeOK'
  BY <1>20 DEF ReconcileStrict, RefreshDue, StrictInstalled, StrictRefused,
     Go
<1>21. ASSUME NEW t \in Threads, NEW cfg \in Configs, NEW seen \in BOOLEAN,
             ReconcilePolicy(t, cfg, seen)
      PROVE  TypeOK'
  BY <1>21 DEF ReconcilePolicy, PolicyDue, StrictInstalled, StrictRefused, Go
<1>22. ASSUME NEW t \in Threads, StopBegin(t) PROVE TypeOK'
  BY <1>22 DEF StopBegin, Go
<1>23. ASSUME NEW t \in Threads, Return(t) PROVE TypeOK'
  BY <1>23 DEF Return, Go
<1>24. CASE Status
  BY <1>24 DEF Status
<1>25. CASE ChildExits
  BY <1>25 DEF ChildExits
<1>26. CASE EndpointChanges
  BY <1>26 DEF EndpointChanges
<1>27. CASE ProcessesChange
  BY <1>27 DEF ProcessesChange
<1>28. CASE UNCHANGED vars
  BY <1>28 DEF vars
<1>29. ASSUME NEW t \in Threads, Step(t)
       PROVE  TypeOK'
  BY <1>1, <1>2, <1>3, <1>4, <1>5, <1>6, <1>7, <1>8, <1>9, <1>10, <1>11, <1>12, <1>13, <1>14,
     <1>15, <1>29 DEF Step
<1>30. CASE Environment
  BY <1>25, <1>26, <1>27, <1>30 DEF Environment
<1>31. QED
  BY <1>16, <1>17, <1>18, <1>19, <1>20, <1>21, <1>22, <1>23, <1>24, <1>28, <1>29, <1>30
     DEF Next

\* The lock is held exactly by the call inside apply_config.
LEMMA LockPreserved ==
  TypeOK /\ LockDiscipline /\ [Next]_vars
  => LockDiscipline'
<1> SUFFICES ASSUME TypeOK, LockDiscipline, [Next]_vars
             PROVE  LockDiscipline'
  OBVIOUS
<1> USE ThreadsAssumption DEF TypeOK, LockDiscipline, Locked, Points
<1>1. ASSUME NEW t \in Threads, ApplyBegin(t) PROVE LockDiscipline'
  BY <1>1 DEF ApplyBegin, Go
<1>2. ASSUME NEW t \in Threads, BuildPaused(t) PROVE LockDiscipline'
  BY <1>2 DEF BuildPaused, Go
<1>3. ASSUME NEW t \in Threads, BuildFails(t) PROVE LockDiscipline'
  BY <1>3 DEF BuildFails, Go
<1>4. ASSUME NEW t \in Threads, BuildNoProxies(t) PROVE LockDiscipline'
  BY <1>4 DEF BuildNoProxies, Go
<1>5. ASSUME NEW t \in Threads, BuildProxies(t) PROVE LockDiscipline'
  BY <1>5 DEF BuildProxies, Go
<1>6. ASSUME NEW t \in Threads, SpawnChild(t) PROVE LockDiscipline'
  BY <1>6 DEF SpawnChild, Go
<1>7. ASSUME NEW t \in Threads, ProbeReachable(t) PROVE LockDiscipline'
  BY <1>7 DEF ProbeReachable, Go
<1>8. ASSUME NEW t \in Threads, ProbeUnreachable(t) PROVE LockDiscipline'
  BY <1>8 DEF ProbeUnreachable, Go
<1>9. ASSUME NEW t \in Threads, Harden(t) PROVE LockDiscipline'
  BY <1>9 DEF Harden, Go
<1>10. ASSUME NEW t \in Threads, HardenFails(t) PROVE LockDiscipline'
  BY <1>10 DEF HardenFails, Go
<1>11. ASSUME NEW t \in Threads, FailClosed(t) PROVE LockDiscipline'
  BY <1>11 DEF FailClosed, Go, StrictInstalled, StrictRefused
<1>12. ASSUME NEW t \in Threads, Recover(t) PROVE LockDiscipline'
  BY <1>12 DEF Recover, Go, Leave, StrictInstalled, StrictRefused
<1>13. ASSUME NEW t \in Threads, Finish(t) PROVE LockDiscipline'
  BY <1>13 DEF Finish, Go, Leave
<1>14. ASSUME NEW t \in Threads, ClearRestart(t) PROVE LockDiscipline'
  BY <1>14 DEF ClearRestart, Go, Leave
<1>15. ASSUME NEW t \in Threads, StopFinish(t) PROVE LockDiscipline'
  BY <1>15 DEF StopFinish, Go
<1>16. ASSUME NEW t \in Threads, NEW cfg \in Configs, Start(t, cfg)
      PROVE  LockDiscipline'
  BY <1>16 DEF Start, Go
<1>17. ASSUME NEW t \in Threads, NEW cfg \in Configs, Reload(t, cfg)
      PROVE  LockDiscipline'
  BY <1>17 DEF Reload, Go
<1>18. ASSUME NEW t \in Threads, NEW cfg \in Configs, MaintainRestart(t, cfg)
      PROVE  LockDiscipline'
  BY <1>18 DEF MaintainRestart, Reload, Go
<1>19. ASSUME NEW t \in Threads, NEW cfg \in Configs, MaintainProbe(t, cfg)
      PROVE  LockDiscipline'
  BY <1>19 DEF MaintainProbe, Reload, Go
<1>20. ASSUME NEW t \in Threads, NEW cfg \in Configs, ReconcileStrict(t, cfg)
      PROVE  LockDiscipline'
  BY <1>20 DEF ReconcileStrict, RefreshDue, StrictInstalled, StrictRefused,
     Go
<1>21. ASSUME NEW t \in Threads, NEW cfg \in Configs, NEW seen \in BOOLEAN,
             ReconcilePolicy(t, cfg, seen)
      PROVE  LockDiscipline'
  BY <1>21 DEF ReconcilePolicy, PolicyDue, StrictInstalled, StrictRefused, Go
<1>22. ASSUME NEW t \in Threads, StopBegin(t) PROVE LockDiscipline'
  BY <1>22 DEF StopBegin, Go
<1>23. ASSUME NEW t \in Threads, Return(t) PROVE LockDiscipline'
  BY <1>23 DEF Return, Go
<1>24. CASE Status
  BY <1>24 DEF Status
<1>25. CASE ChildExits
  BY <1>25 DEF ChildExits
<1>26. CASE EndpointChanges
  BY <1>26 DEF EndpointChanges
<1>27. CASE ProcessesChange
  BY <1>27 DEF ProcessesChange
<1>28. CASE UNCHANGED vars
  BY <1>28 DEF vars
<1>29. ASSUME NEW t \in Threads, Step(t)
       PROVE  LockDiscipline'
  BY <1>1, <1>2, <1>3, <1>4, <1>5, <1>6, <1>7, <1>8, <1>9, <1>10, <1>11, <1>12, <1>13, <1>14,
     <1>15, <1>29 DEF Step
<1>30. CASE Environment
  BY <1>25, <1>26, <1>27, <1>30 DEF Environment
<1>31. QED
  BY <1>16, <1>17, <1>18, <1>19, <1>20, <1>21, <1>22, <1>23, <1>24, <1>28, <1>29, <1>30
     DEF Next

\* A thread is in stop only while running is FALSE.
LEMMA StopPreserved ==
  TypeOK /\ LockDiscipline /\ StopIsDown /\ [Next]_vars
  => StopIsDown'
<1> SUFFICES ASSUME TypeOK, LockDiscipline, StopIsDown, [Next]_vars
             PROVE  StopIsDown'
  OBVIOUS
<1> USE DEF TypeOK, LockDiscipline, StopIsDown, Points, Locked
<1>1. ASSUME NEW t \in Threads, ApplyBegin(t) PROVE StopIsDown'
  BY <1>1 DEF ApplyBegin, Go
<1>2. ASSUME NEW t \in Threads, BuildPaused(t) PROVE StopIsDown'
  BY <1>2 DEF BuildPaused, Go
<1>3. ASSUME NEW t \in Threads, BuildFails(t) PROVE StopIsDown'
  BY <1>3 DEF BuildFails, Go
<1>4. ASSUME NEW t \in Threads, BuildNoProxies(t) PROVE StopIsDown'
  BY <1>4 DEF BuildNoProxies, Go
<1>5. ASSUME NEW t \in Threads, BuildProxies(t) PROVE StopIsDown'
  BY <1>5 DEF BuildProxies, Go
<1>6. ASSUME NEW t \in Threads, SpawnChild(t) PROVE StopIsDown'
  BY <1>6 DEF SpawnChild, Go
<1>7. ASSUME NEW t \in Threads, ProbeReachable(t) PROVE StopIsDown'
  BY <1>7 DEF ProbeReachable, Go
<1>8. ASSUME NEW t \in Threads, ProbeUnreachable(t) PROVE StopIsDown'
  BY <1>8 DEF ProbeUnreachable, Go
<1>9. ASSUME NEW t \in Threads, Harden(t) PROVE StopIsDown'
  BY <1>9 DEF Harden, Go
<1>10. ASSUME NEW t \in Threads, HardenFails(t) PROVE StopIsDown'
  BY <1>10 DEF HardenFails, Go
<1>11. ASSUME NEW t \in Threads, FailClosed(t) PROVE StopIsDown'
  BY <1>11 DEF FailClosed, Go, StrictInstalled, StrictRefused
<1>12. ASSUME NEW t \in Threads, Recover(t) PROVE StopIsDown'
  BY <1>12 DEF Recover, Go, Leave, StrictInstalled, StrictRefused
<1>13. ASSUME NEW t \in Threads, Finish(t) PROVE StopIsDown'
  BY <1>13 DEF Finish, Go, Leave
<1>14. ASSUME NEW t \in Threads, ClearRestart(t) PROVE StopIsDown'
  BY <1>14 DEF ClearRestart, Go, Leave
<1>15. ASSUME NEW t \in Threads, StopFinish(t) PROVE StopIsDown'
  BY <1>15 DEF StopFinish, Go
<1>16. ASSUME NEW t \in Threads, NEW cfg \in Configs, Start(t, cfg)
      PROVE  StopIsDown'
  BY <1>16 DEF Start, Go
<1>17. ASSUME NEW t \in Threads, NEW cfg \in Configs, Reload(t, cfg)
      PROVE  StopIsDown'
  BY <1>17 DEF Reload, Go
<1>18. ASSUME NEW t \in Threads, NEW cfg \in Configs, MaintainRestart(t, cfg)
      PROVE  StopIsDown'
  BY <1>18 DEF MaintainRestart, Reload, Go
<1>19. ASSUME NEW t \in Threads, NEW cfg \in Configs, MaintainProbe(t, cfg)
      PROVE  StopIsDown'
  BY <1>19 DEF MaintainProbe, Reload, Go
<1>20. ASSUME NEW t \in Threads, NEW cfg \in Configs, ReconcileStrict(t, cfg)
      PROVE  StopIsDown'
  BY <1>20 DEF ReconcileStrict, RefreshDue, StrictInstalled, StrictRefused,
     Go
<1>21. ASSUME NEW t \in Threads, NEW cfg \in Configs, NEW seen \in BOOLEAN,
             ReconcilePolicy(t, cfg, seen)
      PROVE  StopIsDown'
  BY <1>21 DEF ReconcilePolicy, PolicyDue, StrictInstalled, StrictRefused, Go
<1>22. ASSUME NEW t \in Threads, StopBegin(t) PROVE StopIsDown'
  BY <1>22 DEF StopBegin, Go
<1>23. ASSUME NEW t \in Threads, Return(t) PROVE StopIsDown'
  BY <1>23 DEF Return, Go
<1>24. CASE Status
  BY <1>24 DEF Status
<1>25. CASE ChildExits
  BY <1>25 DEF ChildExits
<1>26. CASE EndpointChanges
  BY <1>26 DEF EndpointChanges
<1>27. CASE ProcessesChange
  BY <1>27 DEF ProcessesChange
<1>28. CASE UNCHANGED vars
  BY <1>28 DEF vars
<1>29. ASSUME NEW t \in Threads, Step(t)
       PROVE  StopIsDown'
  BY <1>1, <1>2, <1>3, <1>4, <1>5, <1>6, <1>7, <1>8, <1>9, <1>10, <1>11, <1>12, <1>13, <1>14,
     <1>15, <1>29 DEF Step
<1>30. CASE Environment
  BY <1>25, <1>26, <1>27, <1>30 DEF Environment
<1>31. QED
  BY <1>16, <1>17, <1>18, <1>19, <1>20, <1>21, <1>22, <1>23, <1>24, <1>28, <1>29, <1>30
     DEF Next

\* Every rule in force is on record or was left by a failed cleanup.
LEMMA AccountedPreserved ==
  Accounted /\ [Next]_vars
  => Accounted'
<1> SUFFICES ASSUME Accounted, [Next]_vars
             PROVE  Accounted'
  OBVIOUS
<1> USE DEF Accounted, Cleaned, Reconciled, RolledBack, Unrecorded
<1>1. ASSUME NEW t \in Threads, ApplyBegin(t) PROVE Accounted'
  BY <1>1 DEF ApplyBegin
<1>2. ASSUME NEW t \in Threads, BuildPaused(t) PROVE Accounted'
  BY <1>2 DEF BuildPaused
<1>3. ASSUME NEW t \in Threads, BuildFails(t) PROVE Accounted'
  BY <1>3 DEF BuildFails
<1>4. ASSUME NEW t \in Threads, BuildNoProxies(t) PROVE Accounted'
  BY <1>4 DEF BuildNoProxies
<1>5. ASSUME NEW t \in Threads, BuildProxies(t) PROVE Accounted'
  BY <1>5 DEF BuildProxies
<1>6. ASSUME NEW t \in Threads, SpawnChild(t) PROVE Accounted'
  BY <1>6 DEF SpawnChild
<1>7. ASSUME NEW t \in Threads, ProbeReachable(t) PROVE Accounted'
  BY <1>7 DEF ProbeReachable
<1>8. ASSUME NEW t \in Threads, ProbeUnreachable(t) PROVE Accounted'
  BY <1>8 DEF ProbeUnreachable
<1>9. ASSUME NEW t \in Threads, Harden(t) PROVE Accounted'
  BY <1>9 DEF Harden
<1>10. ASSUME NEW t \in Threads, HardenFails(t) PROVE Accounted'
  BY <1>10 DEF HardenFails
<1>11. ASSUME NEW t \in Threads, FailClosed(t) PROVE Accounted'
  BY <1>11 DEF FailClosed, StrictInstalled, StrictRefused
<1>12. ASSUME NEW t \in Threads, Recover(t) PROVE Accounted'
  BY <1>12 DEF Recover, Leave, StrictInstalled, StrictRefused
<1>13. ASSUME NEW t \in Threads, Finish(t) PROVE Accounted'
  BY <1>13 DEF Finish, Leave
<1>14. ASSUME NEW t \in Threads, ClearRestart(t) PROVE Accounted'
  BY <1>14 DEF ClearRestart, Leave
<1>15. ASSUME NEW t \in Threads, StopFinish(t) PROVE Accounted'
  BY <1>15 DEF StopFinish
<1>16. ASSUME NEW t \in Threads, NEW cfg \in Configs, Start(t, cfg)
      PROVE  Accounted'
  BY <1>16 DEF Start
<1>17. ASSUME NEW t \in Threads, NEW cfg \in Configs, Reload(t, cfg)
      PROVE  Accounted'
  BY <1>17 DEF Reload
<1>18. ASSUME NEW t \in Threads, NEW cfg \in Configs, MaintainRestart(t, cfg)
      PROVE  Accounted'
  BY <1>18 DEF MaintainRestart, Reload
<1>19. ASSUME NEW t \in Threads, NEW cfg \in Configs, MaintainProbe(t, cfg)
      PROVE  Accounted'
  BY <1>19 DEF MaintainProbe, Reload
<1>20. ASSUME NEW t \in Threads, NEW cfg \in Configs, ReconcileStrict(t, cfg)
      PROVE  Accounted'
  BY <1>20 DEF ReconcileStrict, RefreshDue, StrictInstalled, StrictRefused
<1>21. ASSUME NEW t \in Threads, NEW cfg \in Configs, NEW seen \in BOOLEAN,
             ReconcilePolicy(t, cfg, seen)
      PROVE  Accounted'
  BY <1>21 DEF ReconcilePolicy, PolicyDue, StrictInstalled, StrictRefused
<1>22. ASSUME NEW t \in Threads, StopBegin(t) PROVE Accounted'
  BY <1>22 DEF StopBegin
<1>23. ASSUME NEW t \in Threads, Return(t) PROVE Accounted'
  BY <1>23 DEF Return
<1>24. CASE Status
  BY <1>24 DEF Status
<1>25. CASE ChildExits
  BY <1>25 DEF ChildExits
<1>26. CASE EndpointChanges
  BY <1>26 DEF EndpointChanges
<1>27. CASE ProcessesChange
  BY <1>27 DEF ProcessesChange
<1>28. CASE UNCHANGED vars
  BY <1>28 DEF vars
<1>29. ASSUME NEW t \in Threads, Step(t)
       PROVE  Accounted'
  BY <1>1, <1>2, <1>3, <1>4, <1>5, <1>6, <1>7, <1>8, <1>9, <1>10, <1>11, <1>12, <1>13, <1>14,
     <1>15, <1>29 DEF Step
<1>30. CASE Environment
  BY <1>25, <1>26, <1>27, <1>30 DEF Environment
<1>31. QED
  BY <1>16, <1>17, <1>18, <1>19, <1>20, <1>21, <1>22, <1>23, <1>24, <1>28, <1>29, <1>30
     DEF Next

\* The holder of the lock applies what was begun last.
LEMMA HolderPreserved ==
  TypeOK /\ LockDiscipline /\ HolderApplies /\ [Next]_vars
  => HolderApplies'
<1> SUFFICES ASSUME TypeOK, LockDiscipline, HolderApplies, [Next]_vars
             PROVE  HolderApplies'
  OBVIOUS
<1> USE ThreadsAssumption DEF TypeOK, LockDiscipline, HolderApplies, Points,
      Locked
<1>1. ASSUME NEW t \in Threads, ApplyBegin(t) PROVE HolderApplies'
  BY <1>1 DEF ApplyBegin, Go
<1>2. ASSUME NEW t \in Threads, BuildPaused(t) PROVE HolderApplies'
  BY <1>2 DEF BuildPaused, Go
<1>3. ASSUME NEW t \in Threads, BuildFails(t) PROVE HolderApplies'
  BY <1>3 DEF BuildFails, Go
<1>4. ASSUME NEW t \in Threads, BuildNoProxies(t) PROVE HolderApplies'
  BY <1>4 DEF BuildNoProxies, Go
<1>5. ASSUME NEW t \in Threads, BuildProxies(t) PROVE HolderApplies'
  BY <1>5 DEF BuildProxies, Go
<1>6. ASSUME NEW t \in Threads, SpawnChild(t) PROVE HolderApplies'
  BY <1>6 DEF SpawnChild, Go
<1>7. ASSUME NEW t \in Threads, ProbeReachable(t) PROVE HolderApplies'
  BY <1>7 DEF ProbeReachable, Go
<1>8. ASSUME NEW t \in Threads, ProbeUnreachable(t) PROVE HolderApplies'
  BY <1>8 DEF ProbeUnreachable, Go
<1>9. ASSUME NEW t \in Threads, Harden(t) PROVE HolderApplies'
  BY <1>9 DEF Harden, Go
<1>10. ASSUME NEW t \in Threads, HardenFails(t) PROVE HolderApplies'
  BY <1>10 DEF HardenFails, Go
<1>11. ASSUME NEW t \in Threads, FailClosed(t) PROVE HolderApplies'
  BY <1>11 DEF FailClosed, Go, StrictInstalled, StrictRefused
<1>12. ASSUME NEW t \in Threads, Recover(t) PROVE HolderApplies'
  BY <1>12 DEF Recover, Go, Leave, StrictInstalled, StrictRefused
<1>13. ASSUME NEW t \in Threads, Finish(t) PROVE HolderApplies'
  BY <1>13 DEF Finish, Go, Leave
<1>14. ASSUME NEW t \in Threads, ClearRestart(t) PROVE HolderApplies'
  BY <1>14 DEF ClearRestart, Go, Leave
<1>15. ASSUME NEW t \in Threads, StopFinish(t) PROVE HolderApplies'
  BY <1>15 DEF StopFinish, Go
<1>16. ASSUME NEW t \in Threads, NEW cfg \in Configs, Start(t, cfg)
      PROVE  HolderApplies'
  BY <1>16 DEF Start, Go
<1>17. ASSUME NEW t \in Threads, NEW cfg \in Configs, Reload(t, cfg)
      PROVE  HolderApplies'
  BY <1>17 DEF Reload, Go
<1>18. ASSUME NEW t \in Threads, NEW cfg \in Configs, MaintainRestart(t, cfg)
      PROVE  HolderApplies'
  BY <1>18 DEF MaintainRestart, Reload, Go
<1>19. ASSUME NEW t \in Threads, NEW cfg \in Configs, MaintainProbe(t, cfg)
      PROVE  HolderApplies'
  BY <1>19 DEF MaintainProbe, Reload, Go
<1>20. ASSUME NEW t \in Threads, NEW cfg \in Configs, ReconcileStrict(t, cfg)
      PROVE  HolderApplies'
  BY <1>20 DEF ReconcileStrict, RefreshDue, StrictInstalled, StrictRefused,
     Go
<1>21. ASSUME NEW t \in Threads, NEW cfg \in Configs, NEW seen \in BOOLEAN,
             ReconcilePolicy(t, cfg, seen)
      PROVE  HolderApplies'
  BY <1>21 DEF ReconcilePolicy, PolicyDue, StrictInstalled, StrictRefused, Go
<1>22. ASSUME NEW t \in Threads, StopBegin(t) PROVE HolderApplies'
  BY <1>22 DEF StopBegin, Go
<1>23. ASSUME NEW t \in Threads, Return(t) PROVE HolderApplies'
  BY <1>23 DEF Return, Go
<1>24. CASE Status
  BY <1>24 DEF Status
<1>25. CASE ChildExits
  BY <1>25 DEF ChildExits
<1>26. CASE EndpointChanges
  BY <1>26 DEF EndpointChanges
<1>27. CASE ProcessesChange
  BY <1>27 DEF ProcessesChange
<1>28. CASE UNCHANGED vars
  BY <1>28 DEF vars
<1>29. ASSUME NEW t \in Threads, Step(t)
       PROVE  HolderApplies'
  BY <1>1, <1>2, <1>3, <1>4, <1>5, <1>6, <1>7, <1>8, <1>9, <1>10, <1>11, <1>12, <1>13, <1>14,
     <1>15, <1>29 DEF Step
<1>30. CASE Environment
  BY <1>25, <1>26, <1>27, <1>30 DEF Environment
<1>31. QED
  BY <1>16, <1>17, <1>18, <1>19, <1>20, <1>21, <1>22, <1>23, <1>24, <1>28, <1>29, <1>30
     DEF Next

\* fail_closed_active implies block rules.
LEMMA BlockedPreserved ==
  TypeOK /\ LockDiscipline /\ Accounted /\ BlockedWhenClosed /\ [Next]_vars
  => BlockedWhenClosed'
<1> SUFFICES ASSUME TypeOK, LockDiscipline, Accounted, BlockedWhenClosed,
                    [Next]_vars
             PROVE  BlockedWhenClosed'
  OBVIOUS
<1> USE ThreadsAssumption, SameBlocks DEF TypeOK, LockDiscipline,
      BlockedWhenClosed, Points, Locked
<1>1. ASSUME NEW t \in Threads, ApplyBegin(t) PROVE BlockedWhenClosed'
  BY <1>1 DEF ApplyBegin, Go
<1>2. ASSUME NEW t \in Threads, BuildPaused(t) PROVE BlockedWhenClosed'
  BY <1>2 DEF BuildPaused, Go
<1>3. ASSUME NEW t \in Threads, BuildFails(t) PROVE BlockedWhenClosed'
  BY <1>3 DEF BuildFails, Go
<1>4. ASSUME NEW t \in Threads, BuildNoProxies(t) PROVE BlockedWhenClosed'
  BY <1>4 DEF BuildNoProxies, Go
<1>5. ASSUME NEW t \in Threads, BuildProxies(t) PROVE BlockedWhenClosed'
  BY <1>5 DEF BuildProxies, Go
<1>6. ASSUME NEW t \in Threads, SpawnChild(t) PROVE BlockedWhenClosed'
  BY <1>6 DEF SpawnChild, Go
<1>7. ASSUME NEW t \in Threads, ProbeReachable(t) PROVE BlockedWhenClosed'
  BY <1>7 DEF ProbeReachable, Go
<1>8. ASSUME NEW t \in Threads, ProbeUnreachable(t) PROVE BlockedWhenClosed'
  BY <1>8 DEF ProbeUnreachable, Go
<1>9. ASSUME NEW t \in Threads, Harden(t) PROVE BlockedWhenClosed'
  BY <1>9 DEF Harden, Go
<1>10. ASSUME NEW t \in Threads, HardenFails(t) PROVE BlockedWhenClosed'
  BY <1>10 DEF HardenFails, Go
<1>11. ASSUME NEW t \in Threads, FailClosed(t) PROVE BlockedWhenClosed'
  <2>1. failClosed' => Blocked'
    BY <1>11, StrictBlocks, RefusedBlocks DEF FailClosed
  <2>2. pc[t] = "failClosed" /\ lock = t /\ ~failClosed
    BY <1>11 DEF FailClosed
  <2>3. \/ pc' = [pc EXCEPT ![t] = "finish"]
        \/ pc' = [pc EXCEPT ![t] = "recover"] /\ failClosed' = failClosed
    BY <1>11, RefusedBlocks DEF FailClosed, Go
  <2>4. ASSUME NEW u \in Threads, u # t
        PROVE  pc[u] \notin Locked
    BY <2>2, <2>4, LockDiscipline, Zenon DEF LockDiscipline
  <2>5. QED
    BY <2>1, <2>2, <2>3, <2>4
<1>12. ASSUME NEW t \in Threads, Recover(t) PROVE BlockedWhenClosed'
  BY <1>12, StrictBlocks, RefusedBlocks DEF Recover, Go, Leave
<1>13. ASSUME NEW t \in Threads, Finish(t) PROVE BlockedWhenClosed'
  BY ZenonT(60), <1>13 DEF Finish, Go, Leave
<1>14. ASSUME NEW t \in Threads, ClearRestart(t) PROVE BlockedWhenClosed'
  BY <1>14 DEF ClearRestart, Go, Leave
<1>15. ASSUME NEW t \in Threads, StopFinish(t) PROVE BlockedWhenClosed'
  BY <1>15 DEF StopFinish, Go
<1>16. ASSUME NEW t \in Threads, NEW cfg \in Configs, Start(t, cfg)
      PROVE  BlockedWhenClosed'
  BY SMTT(30), <1>16 DEF Start, Go
<1>17. ASSUME NEW t \in Threads, NEW cfg \in Configs, Reload(t, cfg)
      PROVE  BlockedWhenClosed'
  BY <1>17 DEF Reload, Go
<1>18. ASSUME NEW t \in Threads, NEW cfg \in Configs, MaintainRestart(t, cfg)
      PROVE  BlockedWhenClosed'
  BY <1>18 DEF MaintainRestart, Reload, Go
<1>19. ASSUME NEW t \in Threads, NEW cfg \in Configs, MaintainProbe(t, cfg)
      PROVE  BlockedWhenClosed'
  BY <1>19 DEF MaintainProbe, Reload, Go
<1>20. ASSUME NEW t \in Threads, NEW cfg \in Configs, ReconcileStrict(t, cfg)
      PROVE  BlockedWhenClosed'
  <2>1. failClosed' => Blocked'
    BY <1>20, StrictBlocks, RefusedBlocks DEF ReconcileStrict
  <2>2. ASSUME NEW u \in Threads
        PROVE  pc'[u] \notin Locked
    BY <1>20 DEF ReconcileStrict, Go
  <2>3. QED
    BY <2>1, <2>2
<1>21. ASSUME NEW t \in Threads, NEW cfg \in Configs, NEW seen \in BOOLEAN,
             ReconcilePolicy(t, cfg, seen)
      PROVE  BlockedWhenClosed'
  <2>1. failClosed' => Blocked'
    BY <1>21, StrictBlocks DEF ReconcilePolicy, PolicyDue
  <2>2. ASSUME NEW u \in Threads
        PROVE  pc'[u] \notin Locked
    BY <1>21 DEF ReconcilePolicy, Go
  <2>3. QED
    BY <2>1, <2>2
<1>22. ASSUME NEW t \in Threads, StopBegin(t) PROVE BlockedWhenClosed'
  BY <1>22 DEF StopBegin, Go
<1>23. ASSUME NEW t \in Threads, Return(t) PROVE BlockedWhenClosed'
  BY <1>23 DEF Return, Go
<1>24. CASE Status
  BY <1>24 DEF Status
<1>25. CASE ChildExits
  BY <1>25 DEF ChildExits
<1>26. CASE EndpointChanges
  BY <1>26 DEF EndpointChanges
<1>27. CASE ProcessesChange
  BY <1>27 DEF ProcessesChange
<1>28. CASE UNCHANGED vars
  BY <1>28 DEF vars
<1> HIDE DEF BlockedWhenClosed, TypeOK, LockDiscipline
<1>29. ASSUME NEW t \in Threads, Step(t)
       PROVE  BlockedWhenClosed'
  BY <1>1, <1>2, <1>3, <1>4, <1>5, <1>6, <1>7, <1>8, <1>9, <1>10, <1>11, <1>12, <1>13, <1>14,
     <1>15, <1>29 DEF Step
<1>30. CASE Environment
  BY <1>25, <1>26, <1>27, <1>30 DEF Environment
<1>31. QED
  BY <1>16, <1>17, <1>18, <1>19, <1>20, <1>21, <1>22, <1>23, <1>24, <1>28, <1>29, <1>30
     DEF Next

\* Once stopped, the backend stays quiet.
LEMMA QuietPreserved ==
  TypeOK /\ LockDiscipline /\ StopIsDown /\ Quiet /\ [Next]_vars
  => Quiet'
<1> SUFFICES ASSUME TypeOK, LockDiscipline, StopIsDown, Quiet, [Next]_vars
             PROVE  Quiet'
  OBVIOUS
<1> USE ThreadsAssumption DEF TypeOK, LockDiscipline, StopIsDown, Quiet,
      Points, Locked
<1>1. ASSUME NEW t \in Threads, ApplyBegin(t) PROVE Quiet'
  BY <1>1 DEF ApplyBegin, Go
<1>2. ASSUME NEW t \in Threads, BuildPaused(t) PROVE Quiet'
  BY <1>2 DEF BuildPaused, Go
<1>3. ASSUME NEW t \in Threads, BuildFails(t) PROVE Quiet'
  BY <1>3 DEF BuildFails, Go
<1>4. ASSUME NEW t \in Threads, BuildNoProxies(t) PROVE Quiet'
  BY <1>4 DEF BuildNoProxies, Go
<1>5. ASSUME NEW t \in Threads, BuildProxies(t) PROVE Quiet'
  BY <1>5 DEF BuildProxies, Go
<1>6. ASSUME NEW t \in Threads, SpawnChild(t) PROVE Quiet'
  BY <1>6 DEF SpawnChild, Go
<1>7. ASSUME NEW t \in Threads, ProbeReachable(t) PROVE Quiet'
  BY <1>7 DEF ProbeReachable, Go
<1>8. ASSUME NEW t \in Threads, ProbeUnreachable(t) PROVE Quiet'
  BY <1>8 DEF ProbeUnreachable, Go
<1>9. ASSUME NEW t \in Threads, Harden(t) PROVE Quiet'
  BY <1>9 DEF Harden, Go
<1>10. ASSUME NEW t \in Threads, HardenFails(t) PROVE Quiet'
  BY <1>10 DEF HardenFails, Go
<1>11. ASSUME NEW t \in Threads, FailClosed(t) PROVE Quiet'
  BY <1>11 DEF FailClosed, Go, StrictInstalled, StrictRefused
<1>12. ASSUME NEW t \in Threads, Recover(t) PROVE Quiet'
  BY <1>12 DEF Recover, Go, Leave, StrictInstalled, StrictRefused
<1>13. ASSUME NEW t \in Threads, Finish(t) PROVE Quiet'
  BY <1>13 DEF Finish, Go, Leave
<1>14. ASSUME NEW t \in Threads, ClearRestart(t) PROVE Quiet'
  BY <1>14 DEF ClearRestart, Go, Leave
<1>15. ASSUME NEW t \in Threads, StopFinish(t) PROVE Quiet'
  BY <1>15 DEF StopFinish, Go, Cleaned
<1>16. ASSUME NEW t \in Threads, NEW cfg \in Configs, Start(t, cfg) PROVE Quiet'
  BY <1>16 DEF Start, Go
<1>17. ASSUME NEW t \in Threads, NEW cfg \in Configs, Reload(t, cfg)
      PROVE  Quiet'
  BY <1>17 DEF Reload, Go
<1>18. ASSUME NEW t \in Threads, NEW cfg \in Configs, MaintainRestart(t, cfg)
      PROVE  Quiet'
  BY <1>18 DEF MaintainRestart, Reload, Go
<1>19. ASSUME NEW t \in Threads, NEW cfg \in Configs, MaintainProbe(t, cfg)
      PROVE  Quiet'
  BY <1>19 DEF MaintainProbe, Reload, Go
<1>20. ASSUME NEW t \in Threads, NEW cfg \in Configs, ReconcileStrict(t, cfg)
      PROVE  Quiet'
  BY <1>20 DEF ReconcileStrict, RefreshDue, StrictInstalled, StrictRefused,
     Go
<1>21. ASSUME NEW t \in Threads, NEW cfg \in Configs, NEW seen \in BOOLEAN,
             ReconcilePolicy(t, cfg, seen)
      PROVE  Quiet'
  BY <1>21 DEF ReconcilePolicy, PolicyDue, StrictInstalled, StrictRefused, Go
<1>22. ASSUME NEW t \in Threads, StopBegin(t) PROVE Quiet'
  BY <1>22 DEF StopBegin, Go
<1>23. ASSUME NEW t \in Threads, Return(t) PROVE Quiet'
  BY <1>23 DEF Return, Go
<1>24. CASE Status
  BY <1>24 DEF Status
<1>25. CASE ChildExits
  BY <1>25 DEF ChildExits
<1>26. CASE EndpointChanges
  BY <1>26 DEF EndpointChanges
<1>27. CASE ProcessesChange
  BY <1>27 DEF ProcessesChange
<1>28. CASE UNCHANGED vars
  BY <1>28 DEF vars
<1>29. ASSUME NEW t \in Threads, Step(t)
       PROVE  Quiet'
  BY <1>1, <1>2, <1>3, <1>4, <1>5, <1>6, <1>7, <1>8, <1>9, <1>10, <1>11, <1>12, <1>13, <1>14,
     <1>15, <1>29 DEF Step
<1>30. CASE Environment
  BY <1>25, <1>26, <1>27, <1>30 DEF Environment
<1>31. QED
  BY <1>16, <1>17, <1>18, <1>19, <1>20, <1>21, <1>22, <1>23, <1>24, <1>28, <1>29, <1>30
     DEF Next

\* Each step of an apply hands the protection on.
LEMMA ProtectingPreserved ==
  TypeOK /\ LockDiscipline /\ StopIsDown /\ HolderApplies /\ Protecting /\ [Next]_vars
  => Protecting'
<1> SUFFICES ASSUME TypeOK, LockDiscipline, StopIsDown, HolderApplies,
                    Protecting, [Next]_vars
             PROVE  Protecting'
  OBVIOUS
<1> USE ThreadsAssumption DEF TypeOK, LockDiscipline, StopIsDown,
      HolderApplies, Protecting, ProtectedAt, Proxied, NeedsProtection,
      Points, Locked
<1>1. ASSUME NEW t \in Threads, ApplyBegin(t) PROVE Protecting'
  BY <1>1 DEF ApplyBegin, Go
<1>2. ASSUME NEW t \in Threads, BuildPaused(t) PROVE Protecting'
  BY <1>2 DEF BuildPaused, Go
<1>3. ASSUME NEW t \in Threads, BuildFails(t) PROVE Protecting'
  BY <1>3 DEF BuildFails, Go
<1>4. ASSUME NEW t \in Threads, BuildNoProxies(t) PROVE Protecting'
  BY ZenonT(60), <1>4 DEF BuildNoProxies, Go, Built
<1>5. ASSUME NEW t \in Threads, BuildProxies(t) PROVE Protecting'
  BY <1>5 DEF BuildProxies, Go, Built
<1>6. ASSUME NEW t \in Threads, SpawnChild(t) PROVE Protecting'
  BY <1>6 DEF SpawnChild, Go
<1>7. ASSUME NEW t \in Threads, ProbeReachable(t) PROVE Protecting'
  BY <1>7 DEF ProbeReachable, Go
<1>8. ASSUME NEW t \in Threads, ProbeUnreachable(t) PROVE Protecting'
  BY <1>8 DEF ProbeUnreachable, Go
<1>9. ASSUME NEW t \in Threads, Harden(t) PROVE Protecting'
  BY <1>9 DEF Harden, Go
<1>10. ASSUME NEW t \in Threads, HardenFails(t) PROVE Protecting'
  BY <1>10 DEF HardenFails, Go
<1>11. ASSUME NEW t \in Threads, FailClosed(t) PROVE Protecting'
  BY <1>11 DEF FailClosed, Go, StrictInstalled, StrictRefused
<1>12. ASSUME NEW t \in Threads, Recover(t) PROVE Protecting'
  BY <1>12 DEF Recover, Go, Leave, StrictInstalled, StrictRefused
<1>13. ASSUME NEW t \in Threads, Finish(t) PROVE Protecting'
  BY <1>13 DEF Finish, Go, Leave
<1>14. ASSUME NEW t \in Threads, ClearRestart(t) PROVE Protecting'
  BY <1>14 DEF ClearRestart, Go, Leave
<1>15. ASSUME NEW t \in Threads, StopFinish(t) PROVE Protecting'
  BY <1>15 DEF StopFinish, Go
<1>16. ASSUME NEW t \in Threads, NEW cfg \in Configs, Start(t, cfg)
      PROVE  Protecting'
  BY <1>16 DEF Start, Go, OffConfig
<1>17. ASSUME NEW t \in Threads, NEW cfg \in Configs, Reload(t, cfg)
      PROVE  Protecting'
  BY <1>17 DEF Reload, Go
<1>18. ASSUME NEW t \in Threads, NEW cfg \in Configs, MaintainRestart(t, cfg)
      PROVE  Protecting'
  BY <1>18 DEF MaintainRestart, Reload, Go
<1>19. ASSUME NEW t \in Threads, NEW cfg \in Configs, MaintainProbe(t, cfg)
      PROVE  Protecting'
  BY <1>19 DEF MaintainProbe, Reload, Go
<1>20. ASSUME NEW t \in Threads, NEW cfg \in Configs, ReconcileStrict(t, cfg)
      PROVE  Protecting'
  BY <1>20 DEF ReconcileStrict, RefreshDue, StrictInstalled, StrictRefused,
     Go
<1>21. ASSUME NEW t \in Threads, NEW cfg \in Configs, NEW seen \in BOOLEAN,
             ReconcilePolicy(t, cfg, seen)
      PROVE  Protecting'
  BY <1>21 DEF ReconcilePolicy, PolicyDue, StrictInstalled, StrictRefused, Go
<1>22. ASSUME NEW t \in Threads, StopBegin(t) PROVE Protecting'
  BY <1>22 DEF StopBegin, Go
<1>23. ASSUME NEW t \in Threads, Return(t) PROVE Protecting'
  BY <1>23 DEF Return, Go
<1>24. CASE Status
  BY <1>24 DEF Status
<1>25. CASE ChildExits
  BY <1>25 DEF ChildExits
<1>26. CASE EndpointChanges
  BY <1>26 DEF EndpointChanges
<1>27. CASE ProcessesChange
  BY <1>27 DEF ProcessesChange
<1>28. CASE UNCHANGED vars
  BY <1>28 DEF vars
<1>29. ASSUME NEW t \in Threads, Step(t)
       PROVE  Protecting'
  BY <1>1, <1>2, <1>3, <1>4, <1>5, <1>6, <1>7, <1>8, <1>9, <1>10, <1>11, <1>12, <1>13, <1>14,
     <1>15, <1>29 DEF Step
<1>30. CASE Environment
  BY <1>25, <1>26, <1>27, <1>30 DEF Environment
<1>31. QED
  BY <1>16, <1>17, <1>18, <1>19, <1>20, <1>21, <1>22, <1>23, <1>24, <1>28, <1>29, <1>30
     DEF Next

\* A recorded fingerprint differs from none.
LEMMA PathsArePrint ==
  ASSUME NEW cfg, NEW seen
  PROVE  RulePaths(cfg, seen) # NoPrint
<1>1. RulePaths(cfg, seen) \subseteq Paths
  BY RulesType
<1>2. "no_fingerprint" \notin Paths /\ "no_fingerprint" \in NoPrint
  BY DEF Paths, NoPrint
<1>3. QED
  BY <1>1, <1>2

\* Block rules are installed with strict_fail_closed_required and removed before
\* it is reset.
LEMMA OwningPreserved ==
  TypeOK /\ LockDiscipline /\ Owning /\ [Next]_vars
  => Owning'
<1> SUFFICES ASSUME TypeOK, LockDiscipline, Owning, [Next]_vars
             PROVE  Owning'
  OBVIOUS
<1> USE ThreadsAssumption, SameBlocks DEF TypeOK, LockDiscipline, Owning, Points,
      Locked
<1>1. ASSUME NEW t \in Threads, ApplyBegin(t) PROVE Owning'
  BY <1>1 DEF ApplyBegin, Go
<1>2. ASSUME NEW t \in Threads, BuildPaused(t) PROVE Owning'
  BY CleanedBlocks, <1>2 DEF BuildPaused, Go
<1>3. ASSUME NEW t \in Threads, BuildFails(t) PROVE Owning'
  BY <1>3 DEF BuildFails, Go
<1>4. ASSUME NEW t \in Threads, BuildNoProxies(t) PROVE Owning'
  BY CleanedBlocks, <1>4 DEF BuildNoProxies, Go
<1>5. ASSUME NEW t \in Threads, BuildProxies(t) PROVE Owning'
  BY <1>5 DEF BuildProxies, Go
<1>6. ASSUME NEW t \in Threads, SpawnChild(t) PROVE Owning'
  BY <1>6 DEF SpawnChild, Go
<1>7. ASSUME NEW t \in Threads, ProbeReachable(t) PROVE Owning'
  BY CleanedBlocks, <1>7 DEF ProbeReachable, Go
<1>8. ASSUME NEW t \in Threads, ProbeUnreachable(t) PROVE Owning'
  BY CleanedBlocks, <1>8 DEF ProbeUnreachable, Go
<1>9. ASSUME NEW t \in Threads, Harden(t) PROVE Owning'
  BY PolicyBlocks, <1>9 DEF Harden, Go
<1>10. ASSUME NEW t \in Threads, HardenFails(t) PROVE Owning'
  BY RollbackBlocks, <1>10 DEF HardenFails, Go
<1>11. ASSUME NEW t \in Threads, FailClosed(t) PROVE Owning'
  BY <1>11 DEF FailClosed, Go, StrictInstalled, StrictRefused
<1>12. ASSUME NEW t \in Threads, Recover(t) PROVE Owning'
  BY <1>12 DEF Recover, Go, Leave, StrictInstalled, StrictRefused
<1>13. ASSUME NEW t \in Threads, Finish(t) PROVE Owning'
  BY <1>13 DEF Finish, Go, Leave
<1>14. ASSUME NEW t \in Threads, ClearRestart(t) PROVE Owning'
  BY <1>14 DEF ClearRestart, Go, Leave
<1>15. ASSUME NEW t \in Threads, StopFinish(t) PROVE Owning'
  BY CleanedBlocks, <1>15 DEF StopFinish, Go
<1>16. ASSUME NEW t \in Threads, NEW cfg \in Configs, Start(t, cfg)
      PROVE  Owning'
  BY <1>16 DEF Start, Go
<1>17. ASSUME NEW t \in Threads, NEW cfg \in Configs, Reload(t, cfg)
      PROVE  Owning'
  BY <1>17 DEF Reload, Go
<1>18. ASSUME NEW t \in Threads, NEW cfg \in Configs, MaintainRestart(t, cfg)
      PROVE  Owning'
  BY <1>18 DEF MaintainRestart, Reload, Go
<1>19. ASSUME NEW t \in Threads, NEW cfg \in Configs, MaintainProbe(t, cfg)
      PROVE  Owning'
  BY <1>19 DEF MaintainProbe, Reload, Go
<1>20. ASSUME NEW t \in Threads, NEW cfg \in Configs, ReconcileStrict(t, cfg)
      PROVE  Owning'
  BY <1>20 DEF ReconcileStrict, RefreshDue, StrictInstalled, StrictRefused, Go
<1>21. ASSUME NEW t \in Threads, NEW cfg \in Configs, NEW seen \in BOOLEAN,
             ReconcilePolicy(t, cfg, seen)
      PROVE  Owning'
  BY PolicyBlocks, RollbackBlocks, <1>21 DEF ReconcilePolicy, PolicyDue,
     StrictInstalled, Go
<1>22. ASSUME NEW t \in Threads, StopBegin(t) PROVE Owning'
  BY <1>22 DEF StopBegin, Go
<1>23. ASSUME NEW t \in Threads, Return(t) PROVE Owning'
  BY <1>23 DEF Return, Go
<1>24. CASE Status
  BY <1>24 DEF Status
<1>25. CASE ChildExits
  BY <1>25 DEF ChildExits
<1>26. CASE EndpointChanges
  BY <1>26 DEF EndpointChanges
<1>27. CASE ProcessesChange
  BY <1>27 DEF ProcessesChange
<1>28. CASE UNCHANGED vars
  BY <1>28 DEF vars
<1> HIDE DEF Owning
<1>29. ASSUME NEW t \in Threads, Step(t)
       PROVE  Owning'
  BY <1>1, <1>2, <1>3, <1>4, <1>5, <1>6, <1>7, <1>8, <1>9, <1>10, <1>11, <1>12, <1>13, <1>14,
     <1>15, <1>29 DEF Step
<1>30. CASE Environment
  BY <1>25, <1>26, <1>27, <1>30 DEF Environment
<1>31. QED
  BY <1>16, <1>17, <1>18, <1>19, <1>20, <1>21, <1>22, <1>23, <1>24, <1>28, <1>29, <1>30
     DEF Next

\* A child that is kept without an error was started with its endpoint reachable.
LEMMA TruthfulPreserved ==
  TypeOK /\ LockDiscipline /\ Owning /\ Truthful /\ [Next]_vars
  => Truthful'
<1> SUFFICES ASSUME TypeOK, LockDiscipline, Owning, Truthful, [Next]_vars
             PROVE  Truthful'
  OBVIOUS
<1> USE ThreadsAssumption, SameBlocks DEF TypeOK, LockDiscipline, Truthful, Owning,
      Honest, Points, Locked
<1>1. ASSUME NEW t \in Threads, ApplyBegin(t) PROVE Truthful'
  BY <1>1 DEF ApplyBegin, Go
<1>2. ASSUME NEW t \in Threads, BuildPaused(t) PROVE Truthful'
  BY CleanedBlocks, <1>2 DEF BuildPaused, Go
<1>3. ASSUME NEW t \in Threads, BuildFails(t) PROVE Truthful'
  BY <1>3 DEF BuildFails, Go
<1>4. ASSUME NEW t \in Threads, BuildNoProxies(t) PROVE Truthful'
  BY CleanedBlocks, <1>4 DEF BuildNoProxies, Go
<1>5. ASSUME NEW t \in Threads, BuildProxies(t) PROVE Truthful'
  BY <1>5 DEF BuildProxies, Go
<1>6. ASSUME NEW t \in Threads, SpawnChild(t) PROVE Truthful'
  BY <1>6 DEF SpawnChild, Go
<1>7. ASSUME NEW t \in Threads, ProbeReachable(t) PROVE Truthful'
  BY CleanedBlocks, <1>7 DEF ProbeReachable, Go
<1>8. ASSUME NEW t \in Threads, ProbeUnreachable(t) PROVE Truthful'
  BY CleanedBlocks, <1>8 DEF ProbeUnreachable, Go
<1>9. ASSUME NEW t \in Threads, Harden(t) PROVE Truthful'
  BY PolicyBlocks, <1>9 DEF Harden, Go
<1>10. ASSUME NEW t \in Threads, HardenFails(t) PROVE Truthful'
  BY RollbackBlocks, <1>10 DEF HardenFails, Go
<1>11. ASSUME NEW t \in Threads, FailClosed(t) PROVE Truthful'
  BY <1>11 DEF FailClosed, Go, StrictInstalled, StrictRefused
<1>12. ASSUME NEW t \in Threads, Recover(t) PROVE Truthful'
  BY <1>12 DEF Recover, Go, Leave, StrictInstalled, StrictRefused
<1>13. ASSUME NEW t \in Threads, Finish(t) PROVE Truthful'
  BY <1>13 DEF Finish, Go, Leave
<1>14. ASSUME NEW t \in Threads, ClearRestart(t) PROVE Truthful'
  BY <1>14 DEF ClearRestart, Go, Leave
<1>15. ASSUME NEW t \in Threads, StopFinish(t) PROVE Truthful'
  BY CleanedBlocks, <1>15 DEF StopFinish, Go
<1>16. ASSUME NEW t \in Threads, NEW cfg \in Configs, Start(t, cfg)
      PROVE  Truthful'
  BY <1>16 DEF Start, Go
<1>17. ASSUME NEW t \in Threads, NEW cfg \in Configs, Reload(t, cfg)
      PROVE  Truthful'
  BY <1>17 DEF Reload, Go
<1>18. ASSUME NEW t \in Threads, NEW cfg \in Configs, MaintainRestart(t, cfg)
      PROVE  Truthful'
  BY <1>18 DEF MaintainRestart, Reload, Go
<1>19. ASSUME NEW t \in Threads, NEW cfg \in Configs, MaintainProbe(t, cfg)
      PROVE  Truthful'
  BY <1>19 DEF MaintainProbe, Reload, Go
<1>20. ASSUME NEW t \in Threads, NEW cfg \in Configs, ReconcileStrict(t, cfg)
      PROVE  Truthful'
  <2>1. CASE pc' = [pc EXCEPT ![t] = "ok"] /\ lastError' = TRUE
    BY <1>20, <2>1 DEF ReconcileStrict
  <2>2. CASE pc' = [pc EXCEPT ![t] = "err"] /\ UNCHANGED lastError /\ (Blocked' => Blocked)
    BY <1>20, <2>2 DEF ReconcileStrict
  <2>3. QED
    BY <1>20, <2>1, <2>2, RollbackBlocks DEF ReconcileStrict, StrictRefused, Go
<1>21. ASSUME NEW t \in Threads, NEW cfg \in Configs, NEW seen \in BOOLEAN,
             ReconcilePolicy(t, cfg, seen)
      PROVE  Truthful'
  BY PolicyBlocks, RollbackBlocks, <1>21 DEF ReconcilePolicy, PolicyDue,
     StrictInstalled, Go
<1>22. ASSUME NEW t \in Threads, StopBegin(t) PROVE Truthful'
  BY <1>22 DEF StopBegin, Go
<1>23. ASSUME NEW t \in Threads, Return(t) PROVE Truthful'
  BY <1>23 DEF Return, Go
<1>24. CASE Status
  BY <1>24 DEF Status
<1>25. CASE ChildExits
  BY <1>25 DEF ChildExits
<1>26. CASE EndpointChanges
  BY <1>26 DEF EndpointChanges
<1>27. CASE ProcessesChange
  BY <1>27 DEF ProcessesChange
<1>28. CASE UNCHANGED vars
  BY <1>28 DEF vars
<1> HIDE DEF Truthful
<1>29. ASSUME NEW t \in Threads, Step(t)
       PROVE  Truthful'
  BY <1>1, <1>2, <1>3, <1>4, <1>5, <1>6, <1>7, <1>8, <1>9, <1>10, <1>11, <1>12, <1>13, <1>14,
     <1>15, <1>29 DEF Step
<1>30. CASE Environment
  BY <1>25, <1>26, <1>27, <1>30 DEF Environment
<1>31. QED
  BY <1>16, <1>17, <1>18, <1>19, <1>20, <1>21, <1>22, <1>23, <1>24, <1>28, <1>29, <1>30
     DEF Next

\* The fingerprint is stored with the rules it stands for, and only strict
\* protection replaces them without forgetting it.
LEMMA EnforcedPreserved ==
  TypeOK /\ LockDiscipline /\ HolderApplies /\ Enforced /\ [Next]_vars
  => Enforced'
<1> SUFFICES ASSUME TypeOK, LockDiscipline, HolderApplies, Enforced,
                    [Next]_vars
             PROVE  Enforced'
  OBVIOUS
<1> USE ThreadsAssumption DEF TypeOK, LockDiscipline, HolderApplies, Enforced,
      Enforcing, PlaneUp, ProxyUp, Points, Locked
<1>1. ASSUME NEW t \in Threads, ApplyBegin(t) PROVE Enforced'
  BY <1>1 DEF ApplyBegin, Go
<1>2. ASSUME NEW t \in Threads, BuildPaused(t) PROVE Enforced'
  BY <1>2 DEF BuildPaused, Go
<1>3. ASSUME NEW t \in Threads, BuildFails(t) PROVE Enforced'
  BY <1>3 DEF BuildFails, Go
<1>4. ASSUME NEW t \in Threads, BuildNoProxies(t) PROVE Enforced'
  BY <1>4 DEF BuildNoProxies, Go
<1>5. ASSUME NEW t \in Threads, BuildProxies(t) PROVE Enforced'
  BY <1>5 DEF BuildProxies, Go
<1>6. ASSUME NEW t \in Threads, SpawnChild(t) PROVE Enforced'
  BY <1>6 DEF SpawnChild, Go
<1>7. ASSUME NEW t \in Threads, ProbeReachable(t) PROVE Enforced'
  BY <1>7 DEF ProbeReachable, Go
<1>8. ASSUME NEW t \in Threads, ProbeUnreachable(t) PROVE Enforced'
  BY <1>8 DEF ProbeUnreachable, Go
<1>9. ASSUME NEW t \in Threads, Harden(t) PROVE Enforced'
  BY PathsArePrint, ReconciledRules, <1>9 DEF Harden, Go, PolicyRules
<1>10. ASSUME NEW t \in Threads, HardenFails(t) PROVE Enforced'
  BY RolledBackRules, <1>10 DEF HardenFails, Go
<1>11. ASSUME NEW t \in Threads, FailClosed(t) PROVE Enforced'
  BY <1>11 DEF FailClosed, Go, StrictInstalled, StrictRefused
<1>12. ASSUME NEW t \in Threads, Recover(t) PROVE Enforced'
  BY <1>12 DEF Recover, Go, Leave, StrictInstalled, StrictRefused
<1>13. ASSUME NEW t \in Threads, Finish(t) PROVE Enforced'
  BY <1>13 DEF Finish, Go, Leave
<1>14. ASSUME NEW t \in Threads, ClearRestart(t) PROVE Enforced'
  BY <1>14 DEF ClearRestart, Go, Leave
<1>15. ASSUME NEW t \in Threads, StopFinish(t) PROVE Enforced'
  BY <1>15 DEF StopFinish, Go
<1>16. ASSUME NEW t \in Threads, NEW cfg \in Configs, Start(t, cfg)
      PROVE  Enforced'
  BY <1>16 DEF Start, Go, OffConfig
<1>17. ASSUME NEW t \in Threads, NEW cfg \in Configs, Reload(t, cfg)
      PROVE  Enforced'
  BY <1>17 DEF Reload, Go
<1>18. ASSUME NEW t \in Threads, NEW cfg \in Configs, MaintainRestart(t, cfg)
      PROVE  Enforced'
  BY <1>18 DEF MaintainRestart, Reload, Go
<1>19. ASSUME NEW t \in Threads, NEW cfg \in Configs, MaintainProbe(t, cfg)
      PROVE  Enforced'
  BY <1>19 DEF MaintainProbe, Reload, Go
<1>20. ASSUME NEW t \in Threads, NEW cfg \in Configs, ReconcileStrict(t, cfg)
      PROVE  Enforced'
  BY <1>20 DEF ReconcileStrict, RefreshDue, StrictInstalled, StrictRefused, Go
<1>21. ASSUME NEW t \in Threads, NEW cfg \in Configs, NEW seen \in BOOLEAN,
             ReconcilePolicy(t, cfg, seen)
      PROVE  Enforced'
  BY PathsArePrint, ReconciledRules, RolledBackRules, <1>21 DEF ReconcilePolicy,
     PolicyDue, StrictInstalled, Go, PolicyRules
<1>22. ASSUME NEW t \in Threads, StopBegin(t) PROVE Enforced'
  BY <1>22 DEF StopBegin, Go
<1>23. ASSUME NEW t \in Threads, Return(t) PROVE Enforced'
  BY <1>23 DEF Return, Go
<1>24. CASE Status
  BY <1>24 DEF Status
<1>25. CASE ChildExits
  BY <1>25 DEF ChildExits
<1>26. CASE EndpointChanges
  BY <1>26 DEF EndpointChanges
<1>27. CASE ProcessesChange
  BY <1>27 DEF ProcessesChange
<1>28. CASE UNCHANGED vars
  BY <1>28 DEF vars
<1> HIDE DEF Enforced
<1>29. ASSUME NEW t \in Threads, Step(t)
       PROVE  Enforced'
  BY <1>1, <1>2, <1>3, <1>4, <1>5, <1>6, <1>7, <1>8, <1>9, <1>10, <1>11, <1>12, <1>13, <1>14,
     <1>15, <1>29 DEF Step
<1>30. CASE Environment
  BY <1>25, <1>26, <1>27, <1>30 DEF Environment
<1>31. QED
  BY <1>16, <1>17, <1>18, <1>19, <1>20, <1>21, <1>22, <1>23, <1>24, <1>28, <1>29, <1>30
     DEF Next

\* A new backend satisfies the invariant.
LEMMA InitInv == Init => Inv
<1> SUFFICES ASSUME Init
             PROVE  Inv
  OBVIOUS
<1>1. FlagsOK
  BY DEF Init, FlagsOK
<1>2. TypeOK
  BY <1>1 DEF Init, TypeOK, Points
<1>3. LockDiscipline /\ StopIsDown /\ HolderApplies /\ Accounted
  BY ThreadsAssumption DEF Init, LockDiscipline, StopIsDown, HolderApplies, Locked,
     Accounted
<1>4. BlockedWhenClosed /\ Quiet
  BY DEF Init, BlockedWhenClosed, Quiet
<1>5. Protecting
  BY DEF Init, Protecting, ProtectedAt
<1>6. Owning /\ Truthful /\ Enforced
  BY ThreadsAssumption DEF Init, Owning, Truthful, Enforced, Honest, Enforcing,
     PlaneUp, ProxyUp, Blocked
<1>7. QED
  BY <1>2, <1>3, <1>4, <1>5, <1>6 DEF Inv

\* Every step preserves the whole invariant.
LEMMA NextInv == Inv /\ [Next]_vars => Inv'
BY TypePreserved, LockPreserved, StopPreserved, AccountedPreserved,
   HolderPreserved, BlockedPreserved, QuietPreserved, ProtectingPreserved, OwningPreserved,
   TruthfulPreserved, EnforcedPreserved DEF Inv

\* Whatever calls are made, by however many threads, the lock, the flags, the
\* child and the rules of the backend stay in agreement.
THEOREM InvHolds == Spec => []Inv
BY InitInv, NextInv, PTL DEF Spec

\* fail_closed_active is never reported without a block rule in force that the
\* backend installed itself.
THEOREM FailClosedIsAlwaysReal == Spec => []FailClosedIsReal
<1>1. Inv => FailClosedIsReal
  BY DEF Inv, BlockedWhenClosed, FailClosedIsReal
<1>2. QED
  BY <1>1, InvHolds, PTL

\* stop leaves no child, and no rule but those its cleanup failed to remove,
\* unless an apply began after it.
THEOREM StopIsQuiet == Spec => []QuietAfterStop
<1>1. Inv => QuietAfterStop
  BY DEF Inv, Quiet, QuietAfterStop
<1>2. QED
  BY <1>1, InvHolds, PTL

\* Between calls, a strict configuration is proxied, about to be restarted, or
\* kept blocked, unless ClearRestart dropped a restart request.
THEOREM StrictStaysProtected == Spec => []StrictProtected
<1>1. Inv => StrictProtected
  BY DEF Inv, Protecting, StrictProtected, ProxyUp
<1>2. QED
  BY <1>1, InvHolds, PTL

\* No program stays blocked with neither strict protection nor a restart due to
\* lift the block, unless by a rule that a failed cleanup left.
THEOREM BlocksAreOwned == Spec => []BlockIsOwned
<1>1. Inv => BlockIsOwned
  BY DEF Inv, Owning, BlockIsOwned
<1>2. QED
  BY <1>1, InvHolds, PTL

\* The phase Running of a proxied configuration is never reported over an
\* endpoint that was down when the child started, nor over block rules other
\* than those that a failed cleanup left.
THEOREM RunningIsAlwaysTruthful == Spec => []RunningIsTruthful
<1>1. Inv => RunningIsTruthful
  <2>1. Phase = "Running" /\ ~directOnly => ~lastError /\ child # "none"
    BY DEF Phase
  <2>2. QED
    BY <2>1 DEF Inv, Truthful, Honest, BlockedWhenClosed, RunningIsTruthful
<1>2. QED
  BY <1>1, InvHolds, PTL

\* The fingerprint of the policy rules never stands for rules that are not in
\* the firewall.
THEOREM PolicyStaysInForce == Spec => []PolicyInForce
<1>1. Inv => PolicyInForce
  BY DEF Inv, Enforced, Enforcing, PolicyInForce
<1>2. QED
  BY <1>1, InvHolds, PTL
=============================================================================
