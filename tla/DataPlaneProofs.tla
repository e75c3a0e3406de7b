---------------------------- MODULE DataPlaneProofs ----------------------------
(***************************************************************************)
(* For any set of configurations and any number of disturbances: the        *)
(* inductive invariant of DataPlane, part by part, and what it says between *)
(* transactions.  A step of DataPlane is a step of the backend, or the loss *)
(* of the process, after which the backend is new but for the firewall.     *)
(***************************************************************************)
EXTENDS DataPlane, ProxifyreBackendProofs

USE DEF flags, firewall, plane, control, environment, history, state, watcher, dvars,
        LockFree, Free

\* The three threads.
LEMMA ThreadsAre ==
  /\ "api" \in Threads /\ "watcher" \in Threads /\ "shutdown" \in Threads
  /\ NoThread \notin {"api", "watcher", "shutdown"}
BY ThreadNames, ThreadsAssumption

\* A step of the whole is a step of the backend, or the process is gone.
LEMMA BackendMoves ==
  DTypeOK /\ [DNext]_dvars => [Next]_vars \/ ProcessGone
<1> SUFFICES ASSUME DTypeOK, [DNext]_dvars, ~ProcessGone
             PROVE  Next \/ UNCHANGED vars
  BY DEF vars
<1> USE ThreadsAre DEF vars
<1>1. {config, disk, next, snap} \subseteq Configs /\ scan \in BOOLEAN
  BY DEF DTypeOK, CoreOK
<1>2. CASE Boot
  BY <1>1, <1>2 DEF Boot, Next
<1>3. CASE BootDone
  BY <1>3 DEF BootDone, Next
<1>4. CASE Shutdown
  BY <1>4 DEF Shutdown, Next
<1>5. CASE Transaction
  <2>1. ASSUME NEW cfg \in Configs, TxBegin(cfg) PROVE Next
    BY <2>1 DEF TxBegin, Next
  <2>2. CASE TxReloaded \/ TxReloadFailed \/ TxRolledBack
    BY <2>2 DEF TxReloaded, TxReloadFailed, TxRolledBack, Next
  <2>3. CASE TxRollback
    BY <1>1, <2>3 DEF TxRollback, Next
  <2>4. CASE TxSaved \/ TxSaveFailed \/ TxPublish
    BY <2>4 DEF TxSaved, TxSaveFailed, TxPublish
  <2>5. QED
    BY <1>5, <2>1, <2>2, <2>3, <2>4 DEF Transaction
<1>6. CASE Watcher
  <2>1. CASE Tick \/ MaintainIdle \/ ReconcileIdle
    BY <2>1 DEF Tick, MaintainIdle, ReconcileIdle
  <2>2. CASE MaintainReaps
    BY <2>2 DEF MaintainReaps, Next
  <2>3. CASE MaintainCall
    BY <1>1, <2>3 DEF MaintainCall, Next
  <2>4. CASE MaintainDone \/ ReconcileDone
    BY <2>4 DEF MaintainDone, ReconcileDone, Next
  <2>5. CASE ReconcileCall
    BY <1>1, <2>5 DEF ReconcileCall, Next
  <2>6. QED
    BY <1>6, <2>1, <2>2, <2>3, <2>4, <2>5 DEF Watcher
<1>7. ASSUME NEW t \in Threads, BackendStep(t) PROVE Next
  BY <1>7 DEF BackendStep, Next
<1>8. CASE Observe
  BY <1>8 DEF Observe, Next
<1>9. CASE Disturb
  BY <1>9 DEF Disturb, Next
<1>10. CASE UNCHANGED dvars
  BY <1>10
<1>11. QED
  BY <1>2, <1>3, <1>4, <1>5, <1>6, <1>7, <1>8, <1>9, <1>10 DEF DNext

\* The loss of the process leaves a well-typed, unlocked backend.
LEMMA GoneResets ==
  ASSUME DTypeOK, ProcessGone
  PROVE  TypeOK' /\ LockDiscipline' /\ HolderApplies'
<1>1. TypeOK'
  BY DEF DTypeOK, CoreOK, ProcessGone, TypeOK, FlagsOK, Points
<1>2. LockDiscipline' /\ HolderApplies'
  BY ThreadsAssumption DEF ProcessGone, LockDiscipline, HolderApplies, Locked
<1>3. QED
  BY <1>1, <1>2

\* What a step of a call does to the state of the threads.
LEMMA StepEffect ==
  ASSUME TypeOK, NEW t \in Threads, Step(t)
  PROVE  /\ pc[t] \notin {"idle", "ok", "err"}
         /\ pc'[t] \notin {"idle", "apply"}
         /\ \A u \in Threads \ {t} : pc'[u] = pc[u] /\ arg'[u] = arg[u]
         /\ running' = running
         /\ IF pc[t] = "apply"
            THEN applied' = arg[t] /\ lock' = t /\ arg' = arg
            ELSE applied' = applied
<1> USE DEF TypeOK
<1>1. CASE ApplyBegin(t)
  BY <1>1 DEF ApplyBegin, Go
<1>2. CASE BuildPaused(t) \/ BuildFails(t) \/ BuildProxies(t)
  BY <1>2 DEF BuildPaused, BuildFails, BuildProxies, Go
<1>3. CASE BuildNoProxies(t)
  BY <1>3 DEF BuildNoProxies, Go
<1>4. CASE SpawnChild(t)
  BY <1>4 DEF SpawnChild, Go
<1>5. CASE ProbeReachable(t) \/ ProbeUnreachable(t)
  BY <1>5 DEF ProbeReachable, ProbeUnreachable, Go
<1>6. CASE Harden(t) \/ HardenFails(t)
  BY <1>6 DEF Harden, HardenFails, Go
<1>7. CASE FailClosed(t)
  BY <1>7 DEF FailClosed, Go
<1>8. CASE Recover(t)
  BY <1>8 DEF Recover, Leave, Go
<1>9. CASE Finish(t) \/ ClearRestart(t)
  BY <1>9 DEF Finish, ClearRestart, Leave, Go
<1>10. CASE StopFinish(t)
  BY <1>10 DEF StopFinish, Go
<1>11. QED
  BY <1>1, <1>2, <1>3, <1>4, <1>5, <1>6, <1>7, <1>8, <1>9, <1>10 DEF Step

\* ... and what the watcher's reconcile_processes does to it.
LEMMA ReconcileEffect ==
  ASSUME TypeOK, ReconcileCall
  PROVE  /\ pc["watcher"] = "idle"
         /\ pc'["watcher"] \in {"ok", "err"}
         /\ \A u \in Threads \ {"watcher"} : pc'[u] = pc[u]
         /\ UNCHANGED <<running, applied, arg, lock>>
<1> USE ThreadsAre DEF TypeOK
<1>1. CASE ReconcileStrict("watcher", snap)
  BY <1>1 DEF ReconcileStrict, Go
<1>2. CASE ReconcilePolicy("watcher", snap, scan)
  BY <1>2 DEF ReconcilePolicy, Go
<1>3. QED
  BY <1>1, <1>2 DEF ReconcileCall

\* Every step keeps the types of what Core adds to the backend.
LEMMA CoreTyped == DTypeOK /\ [DNext]_dvars => CoreOK'
<1> SUFFICES ASSUME DTypeOK, [DNext]_dvars
             PROVE  CoreOK'
  OBVIOUS
<1> USE DefaultAssumption, DisturbancesAssumption DEF DTypeOK, CoreOK,
      Disturbing
<1>1. CASE Boot
  BY <1>1 DEF Boot
<1>2. CASE BootDone
  BY <1>2 DEF BootDone
<1>3. CASE ProcessGone
  <2>1. budget' \in 0..Disturbances
    BY <1>3 DEF ProcessGone
  <2>2. core' = "down" /\ tx' = "idle" /\ watch' = "idle"
    BY <1>3 DEF ProcessGone
  <2>3. config' = Default /\ next' = Default /\ snap' = Default /\ disk' = disk
    BY <1>3 DEF ProcessGone
  <2>4. scan' = FALSE /\ stale' = FALSE
    BY <1>3 DEF ProcessGone
  <2>5. QED
    BY <2>1, <2>2, <2>3, <2>4
<1>4. CASE Shutdown
  BY <1>4 DEF Shutdown
<1>5. ASSUME NEW cfg \in Configs, TxBegin(cfg) PROVE CoreOK'
  BY <1>5 DEF TxBegin
<1>6. CASE TxReloaded
  BY <1>6 DEF TxReloaded
<1>7. CASE TxReloadFailed
  BY <1>7 DEF TxReloadFailed
<1>8. CASE TxSaved
  BY <1>8 DEF TxSaved, vars
<1>9. CASE TxSaveFailed
  BY <1>9 DEF TxSaveFailed, vars
<1>10. CASE TxRollback
  BY <1>10 DEF TxRollback
<1>11. CASE TxRolledBack
  BY <1>11 DEF TxRolledBack
<1>12. CASE TxPublish
  BY <1>12 DEF TxPublish, vars
<1>13. CASE Tick
  BY <1>13 DEF Tick, vars, TypeOK, FlagsOK
<1>14. CASE MaintainReaps
  BY <1>14 DEF MaintainReaps
<1>15. CASE MaintainCall
  BY <1>15 DEF MaintainCall
<1>16. CASE MaintainIdle
  BY <1>16 DEF MaintainIdle, vars
<1>17. CASE MaintainDone
  BY <1>17 DEF MaintainDone
<1>18. CASE ReconcileCall
  BY <1>18 DEF ReconcileCall
<1>19. CASE ReconcileIdle
  BY <1>19 DEF ReconcileIdle, TickDone, vars
<1>20. CASE ReconcileDone
  BY <1>20 DEF ReconcileDone, TickDone
<1>21. ASSUME NEW t \in Threads, BackendStep(t) PROVE CoreOK'
  <2>1. UNCHANGED <<core, config, disk, tx, next, watch, snap, scan>>
    BY <1>21 DEF BackendStep
  <2>2. budget' = budget \/ (budget > 0 /\ budget' = budget - 1)
    BY <1>21 DEF BackendStep
  <2>3. budget' \in 0..Disturbances
    BY <2>2
  <2>4. stale' = stale \/ stale' = (t = "watcher" /\ (stale \/ arg[t] # applied))
    BY <1>21 DEF BackendStep
  <2>5. stale' \in BOOLEAN
    BY <2>4
  <2>6. QED
    BY <2>1, <2>3, <2>5
<1>22. CASE Observe
  BY <1>22 DEF Observe
<1>23. CASE Disturb
  BY <1>23 DEF Disturb
<1>24. CASE UNCHANGED dvars
  BY <1>24 DEF vars
<1> HIDE DEF CoreOK
<1>25. QED
  BY <1>1, <1>2, <1>3, <1>4, <1>5, <1>6, <1>7, <1>8, <1>9, <1>10, <1>11,
     <1>12, <1>13, <1>14, <1>15, <1>16, <1>17, <1>18, <1>19, <1>20, <1>21,
     <1>22, <1>23, <1>24
     DEF DNext, Transaction, Watcher

\* Every step keeps the types.
LEMMA DataTyped ==
  DTypeOK /\ [DNext]_dvars => DTypeOK'
BY BackendMoves, TypePreserved, GoneResets, CoreTyped DEF DTypeOK

\* A caller waits until its call has returned.
LEMMA CallersPreserved == DTypeOK /\ CallersWait /\ Phases /\ [DNext]_dvars =>
  CallersWait'
<1> SUFFICES ASSUME DTypeOK, CallersWait, Phases, [DNext]_dvars
             PROVE  CallersWait'
  OBVIOUS
<1> USE ThreadsAre DEF DTypeOK, CoreOK, TypeOK, CallersWait, Phases
<1>1. CASE Boot
  BY <1>1 DEF Boot, Start, Go
<1>2. CASE BootDone
  BY <1>2 DEF BootDone, Return, Go
<1>3. CASE ProcessGone
  BY <1>3 DEF ProcessGone
<1>4. CASE Shutdown
  BY <1>4 DEF Shutdown, StopBegin, Go
<1>5. ASSUME NEW cfg \in Configs, TxBegin(cfg) PROVE CallersWait'
  BY <1>5 DEF TxBegin, Reload, Go
<1>6. CASE TxReloaded
  BY <1>6 DEF TxReloaded, Return, Go
<1>7. CASE TxReloadFailed
  BY <1>7 DEF TxReloadFailed, Return, Go
<1>8. CASE TxSaved
  BY <1>8 DEF TxSaved, vars
<1>9. CASE TxSaveFailed
  BY <1>9 DEF TxSaveFailed, vars
<1>10. CASE TxRollback
  BY <1>10 DEF TxRollback, Reload, Go
<1>11. CASE TxRolledBack
  BY <1>11 DEF TxRolledBack, Return, Go
<1>12. CASE TxPublish
  BY <1>12 DEF TxPublish, vars
<1>13. CASE Tick
  BY <1>13 DEF Tick, vars
<1>14. CASE MaintainReaps
  BY <1>14 DEF MaintainReaps, Status
<1>15. CASE MaintainCall
  BY <1>15 DEF MaintainCall, MaintainRestart, MaintainProbe, Reload, Go
<1>16. CASE MaintainIdle
  BY <1>16 DEF MaintainIdle, vars
<1>17. CASE MaintainDone
  BY <1>17 DEF MaintainDone, Return, Go
<1>18. CASE ReconcileCall
  BY <1>18, ReconcileEffect DEF ReconcileCall
<1>19. CASE ReconcileIdle
  BY <1>19 DEF ReconcileIdle, TickDone, vars
<1>20. CASE ReconcileDone
  BY <1>20 DEF ReconcileDone, TickDone, Return, Go
<1>21. ASSUME NEW t \in Threads, BackendStep(t) PROVE CallersWait'
  BY <1>21, StepEffect DEF BackendStep
<1>22. CASE Observe
  BY <1>22 DEF Observe, Status
<1>23. CASE Disturb
  BY <1>23 DEF Disturb, Environment, ChildExits, EndpointChanges,
     ProcessesChange
<1>24. CASE UNCHANGED dvars
  BY <1>24 DEF vars
<1> HIDE DEF CallersWait
<1>25. QED
  BY <1>1, <1>2, <1>3, <1>4, <1>5, <1>6, <1>7, <1>8, <1>9, <1>10, <1>11,
     <1>12, <1>13, <1>14, <1>15, <1>16, <1>17, <1>18, <1>19, <1>20, <1>21,
     <1>22, <1>23, <1>24
     DEF DNext, Transaction, Watcher

\* Core serves nobody before it is up.
LEMMA PhasesPreserved == DTypeOK /\ CallersWait /\ Phases /\ [DNext]_dvars =>
  Phases'
<1> SUFFICES ASSUME DTypeOK, CallersWait, Phases, [DNext]_dvars
             PROVE  Phases'
  OBVIOUS
<1> USE ThreadsAre DEF DTypeOK, CoreOK, TypeOK, CallersWait, Phases
<1>1. CASE Boot
  BY <1>1 DEF Boot, Start, Go
<1>2. CASE BootDone
  BY <1>2 DEF BootDone, Return, Go
<1>3. CASE ProcessGone
  BY <1>3 DEF ProcessGone
<1>4. CASE Shutdown
  BY <1>4 DEF Shutdown, StopBegin, Go
<1>5. ASSUME NEW cfg \in Configs, TxBegin(cfg) PROVE Phases'
  BY <1>5 DEF TxBegin, Reload, Go
<1>6. CASE TxReloaded
  BY <1>6 DEF TxReloaded, Return, Go
<1>7. CASE TxReloadFailed
  BY <1>7 DEF TxReloadFailed, Return, Go
<1>8. CASE TxSaved
  BY <1>8 DEF TxSaved, vars
<1>9. CASE TxSaveFailed
  BY <1>9 DEF TxSaveFailed, vars
<1>10. CASE TxRollback
  BY <1>10 DEF TxRollback, Reload, Go
<1>11. CASE TxRolledBack
  BY <1>11 DEF TxRolledBack, Return, Go
<1>12. CASE TxPublish
  BY <1>12 DEF TxPublish, vars
<1>13. CASE Tick
  BY <1>13 DEF Tick, vars
<1>14. CASE MaintainReaps
  BY <1>14 DEF MaintainReaps, Status
<1>15. CASE MaintainCall
  BY <1>15 DEF MaintainCall, MaintainRestart, MaintainProbe, Reload, Go
<1>16. CASE MaintainIdle
  BY <1>16 DEF MaintainIdle, vars
<1>17. CASE MaintainDone
  BY <1>17 DEF MaintainDone, Return, Go
<1>18. CASE ReconcileCall
  BY <1>18, ReconcileEffect DEF ReconcileCall
<1>19. CASE ReconcileIdle
  BY <1>19 DEF ReconcileIdle, TickDone, vars
<1>20. CASE ReconcileDone
  BY <1>20 DEF ReconcileDone, TickDone, Return, Go
<1>21. ASSUME NEW t \in Threads, BackendStep(t) PROVE Phases'
  BY <1>21, StepEffect DEF BackendStep
<1>22. CASE Observe
  BY <1>22 DEF Observe, Status
<1>23. CASE Disturb
  BY <1>23 DEF Disturb, Environment, ChildExits, EndpointChanges,
     ProcessesChange
<1>24. CASE UNCHANGED dvars
  BY <1>24 DEF vars
<1> HIDE DEF Phases
<1>25. QED
  BY <1>1, <1>2, <1>3, <1>4, <1>5, <1>6, <1>7, <1>8, <1>9, <1>10, <1>11,
     <1>12, <1>13, <1>14, <1>15, <1>16, <1>17, <1>18, <1>19, <1>20, <1>21,
     <1>22, <1>23, <1>24
     DEF DNext, Transaction, Watcher

\* The file is replaced exactly when the new configuration is about to be
\* published.
LEMMA StoredPreserved == DTypeOK /\ Phases /\ Stored /\ [DNext]_dvars =>
  Stored'
<1> SUFFICES ASSUME DTypeOK, Phases, Stored, [DNext]_dvars
             PROVE  Stored'
  OBVIOUS
<1> USE DEF DTypeOK, CoreOK, Phases, Stored
<1>1. CASE Boot
  BY <1>1 DEF Boot
<1>2. CASE BootDone
  BY <1>2 DEF BootDone
<1>3. CASE ProcessGone
  BY <1>3 DEF ProcessGone
<1>4. CASE Shutdown
  BY <1>4 DEF Shutdown
<1>5. ASSUME NEW cfg \in Configs, TxBegin(cfg) PROVE Stored'
  BY <1>5 DEF TxBegin
<1>6. CASE TxReloaded
  BY <1>6 DEF TxReloaded
<1>7. CASE TxReloadFailed
  BY <1>7 DEF TxReloadFailed
<1>8. CASE TxSaved
  BY <1>8 DEF TxSaved, vars
<1>9. CASE TxSaveFailed
  BY <1>9 DEF TxSaveFailed, vars
<1>10. CASE TxRollback
  BY <1>10 DEF TxRollback
<1>11. CASE TxRolledBack
  BY <1>11 DEF TxRolledBack
<1>12. CASE TxPublish
  BY <1>12 DEF TxPublish, vars
<1>13. CASE Tick
  BY <1>13 DEF Tick, vars
<1>14. CASE MaintainReaps
  BY <1>14 DEF MaintainReaps
<1>15. CASE MaintainCall
  BY <1>15 DEF MaintainCall
<1>16. CASE MaintainIdle
  BY <1>16 DEF MaintainIdle, vars
<1>17. CASE MaintainDone
  BY <1>17 DEF MaintainDone
<1>18. CASE ReconcileCall
  BY <1>18 DEF ReconcileCall
<1>19. CASE ReconcileIdle
  BY <1>19 DEF ReconcileIdle, TickDone, vars
<1>20. CASE ReconcileDone
  BY <1>20 DEF ReconcileDone, TickDone
<1>21. ASSUME NEW t \in Threads, BackendStep(t) PROVE Stored'
  BY <1>21 DEF BackendStep
<1>22. CASE Observe
  BY <1>22 DEF Observe
<1>23. CASE Disturb
  BY <1>23 DEF Disturb
<1>24. CASE UNCHANGED dvars
  BY <1>24 DEF vars
<1> HIDE DEF Stored
<1>25. QED
  BY <1>1, <1>2, <1>3, <1>4, <1>5, <1>6, <1>7, <1>8, <1>9, <1>10, <1>11,
     <1>12, <1>13, <1>14, <1>15, <1>16, <1>17, <1>18, <1>19, <1>20, <1>21,
     <1>22, <1>23, <1>24
     DEF DNext, Transaction, Watcher

\* The engine is asked for the new configuration, or for the old one again.
LEMMA AskedPreserved == DTypeOK /\ CallersWait /\ Phases /\ Asked /\
  [DNext]_dvars => Asked'
<1> SUFFICES ASSUME DTypeOK, CallersWait, Phases, Asked, [DNext]_dvars
             PROVE  Asked'
  OBVIOUS
<1> USE ThreadsAre DEF DTypeOK, CoreOK, TypeOK, CallersWait, Phases, Asked
<1>1. CASE Boot
  BY <1>1 DEF Boot, Start, Go
<1>2. CASE BootDone
  BY <1>2 DEF BootDone, Return, Go
<1>3. CASE ProcessGone
  BY <1>3 DEF ProcessGone
<1>4. CASE Shutdown
  BY <1>4 DEF Shutdown, StopBegin, Go
<1>5. ASSUME NEW cfg \in Configs, TxBegin(cfg) PROVE Asked'
  BY <1>5 DEF TxBegin, Reload, Go
<1>6. CASE TxReloaded
  BY <1>6 DEF TxReloaded, Return, Go
<1>7. CASE TxReloadFailed
  BY <1>7 DEF TxReloadFailed, Return, Go
<1>8. CASE TxSaved
  BY <1>8 DEF TxSaved, vars
<1>9. CASE TxSaveFailed
  BY <1>9 DEF TxSaveFailed, vars
<1>10. CASE TxRollback
  BY <1>10 DEF TxRollback, Reload, Go
<1>11. CASE TxRolledBack
  BY <1>11 DEF TxRolledBack, Return, Go
<1>12. CASE TxPublish
  BY <1>12 DEF TxPublish, vars
<1>13. CASE Tick
  BY <1>13 DEF Tick, vars
<1>14. CASE MaintainReaps
  BY <1>14 DEF MaintainReaps, Status
<1>15. CASE MaintainCall
  BY <1>15 DEF MaintainCall, MaintainRestart, MaintainProbe, Reload, Go
<1>16. CASE MaintainIdle
  BY <1>16 DEF MaintainIdle, vars
<1>17. CASE MaintainDone
  BY <1>17 DEF MaintainDone, Return, Go
<1>18. CASE ReconcileCall
  BY <1>18, ReconcileEffect DEF ReconcileCall
<1>19. CASE ReconcileIdle
  BY <1>19 DEF ReconcileIdle, TickDone, vars
<1>20. CASE ReconcileDone
  BY <1>20 DEF ReconcileDone, TickDone, Return, Go
<1>21. ASSUME NEW t \in Threads, BackendStep(t) PROVE Asked'
  BY <1>21, StepEffect DEF BackendStep
<1>22. CASE Observe
  BY <1>22 DEF Observe, Status
<1>23. CASE Disturb
  BY <1>23 DEF Disturb, Environment, ChildExits, EndpointChanges,
     ProcessesChange
<1>24. CASE UNCHANGED dvars
  BY <1>24 DEF vars
<1> HIDE DEF Asked
<1>25. QED
  BY <1>1, <1>2, <1>3, <1>4, <1>5, <1>6, <1>7, <1>8, <1>9, <1>10, <1>11,
     <1>12, <1>13, <1>14, <1>15, <1>16, <1>17, <1>18, <1>19, <1>20, <1>21,
     <1>22, <1>23, <1>24
     DEF DNext, Transaction, Watcher

\* What the engine was last given follows the transaction.
LEMMA GivenPreserved == DTypeOK /\ CallersWait /\ Phases /\ Stored /\ Asked /\
  Given /\ [DNext]_dvars => Given'
<1> SUFFICES ASSUME DTypeOK, CallersWait, Phases, Stored, Asked, Given,
                    [DNext]_dvars
             PROVE  Given'
  OBVIOUS
<1> USE ThreadsAre DEF DTypeOK, CoreOK, TypeOK, CallersWait, Phases, Given
<1>1. CASE Boot
  BY <1>1 DEF Boot, Start, Go
<1>2. CASE BootDone
  BY <1>2 DEF BootDone, Return, Go
<1>3. CASE ProcessGone
  BY <1>3 DEF ProcessGone
<1>4. CASE Shutdown
  BY <1>4 DEF Shutdown, StopBegin, Go
<1>5. ASSUME NEW cfg \in Configs, TxBegin(cfg) PROVE Given'
  BY <1>5 DEF TxBegin, Reload, Go
<1>6. CASE TxReloaded
  BY <1>6 DEF TxReloaded, Return, Go
<1>7. CASE TxReloadFailed
  BY <1>7 DEF TxReloadFailed, Return, Go
<1>8. CASE TxSaved
  BY <1>8 DEF TxSaved, vars
<1>9. CASE TxSaveFailed
  BY <1>9 DEF TxSaveFailed, vars
<1>10. CASE TxRollback
  BY <1>10 DEF TxRollback, Reload, Go
<1>11. CASE TxRolledBack
  BY <1>11 DEF TxRolledBack, Return, Go
<1>12. CASE TxPublish
  BY <1>12 DEF TxPublish, vars
<1>13. CASE Tick
  BY <1>13 DEF Tick, vars
<1>14. CASE MaintainReaps
  BY <1>14 DEF MaintainReaps, Status
<1>15. CASE MaintainCall
  BY <1>15 DEF MaintainCall, MaintainRestart, MaintainProbe, Reload, Go
<1>16. CASE MaintainIdle
  BY <1>16 DEF MaintainIdle, vars
<1>17. CASE MaintainDone
  BY <1>17 DEF MaintainDone, Return, Go
<1>18. CASE ReconcileCall
  BY <1>18, ReconcileEffect DEF ReconcileCall
<1>19. CASE ReconcileIdle
  BY <1>19 DEF ReconcileIdle, TickDone, vars
<1>20. CASE ReconcileDone
  BY <1>20 DEF ReconcileDone, TickDone, Return, Go
<1>21. ASSUME NEW t \in Threads, BackendStep(t) PROVE Given'
  <2>1. core' = core /\ tx' = tx /\ config' = config /\ next' = next
    BY <1>21 DEF BackendStep
  <2>2. CASE pc[t] = "apply" /\ t = "api"
    <3>1. applied' = arg["api"] /\ pc'["api"] \notin {"idle", "apply"}
      BY <1>21, <2>2, StepEffect DEF BackendStep
    <3>2. QED
      BY <2>1, <2>2, <3>1 DEF Asked
  <2>3. CASE pc[t] = "apply" /\ t = "watcher"
    <3>1. applied' = arg[t] /\ pc'["api"] = pc["api"] /\ running' = running
      BY <1>21, <2>3, StepEffect DEF BackendStep
    <3>2. stale' = (stale \/ arg[t] # applied)
      BY <1>21, <2>3 DEF BackendStep
    <3>3. QED
      BY <2>1, <3>1, <3>2
  <2>4. CASE pc[t] # "apply"
    <3>1. /\ applied' = applied /\ running' = running
          /\ pc[t] # "idle" /\ pc'[t] \notin {"idle", "apply"}
          /\ \A u \in Threads \ {t} : pc'[u] = pc[u]
      BY <1>21, <2>4, StepEffect DEF BackendStep
    <3>2. stale' = stale
      BY <1>21, <2>4 DEF BackendStep
    <3>3. CASE t = "api"
      BY <2>1, <2>4, <3>1, <3>2, <3>3
    <3>4. CASE t # "api"
      <4>1. pc'["api"] = pc["api"]
        BY <3>1, <3>4, ThreadsAre
      <4> QED
        BY <2>1, <3>1, <3>2, <4>1
    <3> QED
      BY <3>3, <3>4
  <2>5. QED
    BY <2>2, <2>3, <2>4, ThreadNames
<1>22. CASE Observe
  BY <1>22 DEF Observe, Status
<1>23. CASE Disturb
  BY <1>23 DEF Disturb, Environment, ChildExits, EndpointChanges,
     ProcessesChange
<1>24. CASE UNCHANGED dvars
  BY <1>24 DEF vars
<1> HIDE DEF Given
<1>25. QED
  BY <1>1, <1>2, <1>3, <1>4, <1>5, <1>6, <1>7, <1>8, <1>9, <1>10, <1>11,
     <1>12, <1>13, <1>14, <1>15, <1>16, <1>17, <1>18, <1>19, <1>20, <1>21,
     <1>22, <1>23, <1>24
     DEF DNext, Transaction, Watcher

\* An apply of a disabled runtime goes from build to its end.
LEMMA PausingByBackend ==
  TypeOK /\ LockDiscipline /\ Pausing /\ [Next]_vars
  => Pausing'
<1> SUFFICES ASSUME TypeOK, LockDiscipline, Pausing, [Next]_vars
             PROVE  Pausing'
  OBVIOUS
<1> USE ThreadsAssumption DEF TypeOK, LockDiscipline, Pausing, Disabled,
      Points, Locked
<1>1. ASSUME NEW t \in Threads, ApplyBegin(t) PROVE Pausing'
  BY <1>1 DEF ApplyBegin, Go
<1>2. ASSUME NEW t \in Threads, BuildPaused(t) PROVE Pausing'
  BY <1>2 DEF BuildPaused, Cleaned, Go
<1>3. ASSUME NEW t \in Threads, BuildFails(t) PROVE Pausing'
  BY <1>3 DEF BuildFails, Go
<1>4. ASSUME NEW t \in Threads, BuildNoProxies(t) PROVE Pausing'
  BY <1>4 DEF BuildNoProxies, Go
<1>5. ASSUME NEW t \in Threads, BuildProxies(t) PROVE Pausing'
  BY <1>5 DEF BuildProxies, Go
<1>6. ASSUME NEW t \in Threads, SpawnChild(t) PROVE Pausing'
  BY <1>6 DEF SpawnChild, Go
<1>7. ASSUME NEW t \in Threads, ProbeReachable(t) PROVE Pausing'
  BY <1>7 DEF ProbeReachable, Go
<1>8. ASSUME NEW t \in Threads, ProbeUnreachable(t) PROVE Pausing'
  BY <1>8 DEF ProbeUnreachable, Go
<1>9. ASSUME NEW t \in Threads, Harden(t) PROVE Pausing'
  BY <1>9 DEF Harden, Go
<1>10. ASSUME NEW t \in Threads, HardenFails(t) PROVE Pausing'
  BY <1>10 DEF HardenFails, Go
<1>11. ASSUME NEW t \in Threads, FailClosed(t) PROVE Pausing'
  BY <1>11 DEF FailClosed, Go, StrictInstalled, StrictRefused
<1>12. ASSUME NEW t \in Threads, Recover(t) PROVE Pausing'
  BY <1>12 DEF Recover, Go, Leave, StrictInstalled, StrictRefused
<1>13. ASSUME NEW t \in Threads, Finish(t) PROVE Pausing'
  BY <1>13 DEF Finish, Go, Leave
<1>14. ASSUME NEW t \in Threads, ClearRestart(t) PROVE Pausing'
  BY <1>14 DEF ClearRestart, Go, Leave
<1>15. ASSUME NEW t \in Threads, StopFinish(t) PROVE Pausing'
  BY <1>15 DEF StopFinish, Go
<1>16. ASSUME NEW t \in Threads, NEW cfg \in Configs, Start(t, cfg)
      PROVE  Pausing'
  BY <1>16 DEF Start, Go
<1>17. ASSUME NEW t \in Threads, NEW cfg \in Configs, Reload(t, cfg)
      PROVE  Pausing'
  BY <1>17 DEF Reload, Go
<1>18. ASSUME NEW t \in Threads, NEW cfg \in Configs, MaintainRestart(t, cfg)
      PROVE  Pausing'
  BY <1>18 DEF MaintainRestart, Reload, Go
<1>19. ASSUME NEW t \in Threads, NEW cfg \in Configs, MaintainProbe(t, cfg)
      PROVE  Pausing'
  BY <1>19 DEF MaintainProbe, Reload, Go
<1>20. ASSUME NEW t \in Threads, NEW cfg \in Configs, ReconcileStrict(t, cfg)
      PROVE  Pausing'
  BY <1>20 DEF ReconcileStrict, RefreshDue, StrictInstalled, StrictRefused, Go
<1>21. ASSUME NEW t \in Threads, NEW cfg \in Configs, NEW seen \in BOOLEAN,
             ReconcilePolicy(t, cfg, seen)
      PROVE  Pausing'
  BY <1>21 DEF ReconcilePolicy, PolicyDue, StrictInstalled, StrictRefused, Go
<1>22. ASSUME NEW t \in Threads, StopBegin(t) PROVE Pausing'
  BY <1>22 DEF StopBegin, Go
<1>23. ASSUME NEW t \in Threads, Return(t) PROVE Pausing'
  BY <1>23 DEF Return, Go
<1>24. CASE Status
  BY <1>24 DEF Status
<1>25. CASE ChildExits
  BY <1>25 DEF ChildExits
<1>26. CASE EndpointChanges
  BY <1>26 DEF EndpointChanges
<1>27. CASE ProcessesChange
  BY <1>27 DEF ProcessesChange
<1>28. CASE UNCHANGED vars
  BY <1>28 DEF vars
<1> HIDE DEF Pausing
<1>29. QED
  BY <1>1, <1>2, <1>3, <1>4, <1>5, <1>6, <1>7, <1>8, <1>9, <1>10, <1>11,
     <1>12, <1>13, <1>14, <1>15, <1>16, <1>17, <1>18, <1>19, <1>20, <1>21,
     <1>22, <1>23, <1>24, <1>25, <1>26, <1>27, <1>28
     DEF Next, Step, Environment

\* ... and when it returns, or stop does, nothing is left.
LEMMA ReturnsDisabled ==
  ASSUME TypeOK, LockDiscipline, HolderApplies, Pausing, NEW t \in Threads,
         Step(t), LockFree', ~applied'.enabled
  PROVE  Disabled'

<1> USE ThreadsAssumption DEF TypeOK, LockDiscipline, HolderApplies, Pausing, Locked,
      Disabled
<1>1. CASE StopFinish(t)
  BY <1>1 DEF StopFinish, Cleaned
<1>2. CASE Finish(t)
  BY <1>2 DEF Finish, Leave, Go
<1>3. CASE ClearRestart(t)
  BY <1>3 DEF ClearRestart
<1>4. CASE Recover(t)
  BY <1>4 DEF Recover
<1>5. CASE ApplyBegin(t)
  BY <1>5 DEF ApplyBegin
<1>6. ASSUME ~StopFinish(t), ~Finish(t), ~ClearRestart(t), ~Recover(t), ~ApplyBegin(t)
      PROVE  UNCHANGED lock /\ lock = t
  BY <1>6 DEF Step, BuildPaused, BuildFails, BuildNoProxies, BuildProxies, SpawnChild,
     ProbeReachable, ProbeUnreachable, Harden, HardenFails, FailClosed
<1>7. QED
  BY <1>1, <1>2, <1>3, <1>4, <1>5, <1>6

\* A disabled runtime stays quiet until the engine is given another one.
LEMMA PausedPreserved == DTypeOK /\ LockDiscipline /\ HolderApplies /\
  CallersWait /\ Phases /\ Pausing /\ Paused /\ [DNext]_dvars => Paused'
<1> SUFFICES ASSUME DTypeOK, LockDiscipline, HolderApplies, CallersWait,
                    Phases, Pausing, Paused, [DNext]_dvars
             PROVE  Paused'
  OBVIOUS
<1> USE ThreadsAre DEF DTypeOK, CoreOK, TypeOK, CallersWait, Phases, Paused,
      Disabled
<1>1. CASE Boot
  BY <1>1 DEF Boot, Start, Go
<1>2. CASE BootDone
  BY <1>2 DEF BootDone, Return, Go
<1>3. CASE ProcessGone
  BY <1>3 DEF ProcessGone
<1>4. CASE Shutdown
  BY <1>4 DEF Shutdown, StopBegin, Go
<1>5. ASSUME NEW cfg \in Configs, TxBegin(cfg) PROVE Paused'
  BY <1>5 DEF TxBegin, Reload, Go
<1>6. CASE TxReloaded
  BY <1>6 DEF TxReloaded, Return, Go
<1>7. CASE TxReloadFailed
  BY <1>7 DEF TxReloadFailed, Return, Go
<1>8. CASE TxSaved
  BY <1>8 DEF TxSaved, vars
<1>9. CASE TxSaveFailed
  BY <1>9 DEF TxSaveFailed, vars
<1>10. CASE TxRollback
  BY <1>10 DEF TxRollback, Reload, Go
<1>11. CASE TxRolledBack
  BY <1>11 DEF TxRolledBack, Return, Go
<1>12. CASE TxPublish
  BY <1>12 DEF TxPublish, vars
<1>13. CASE Tick
  BY <1>13 DEF Tick, vars
<1>14. CASE MaintainReaps
  BY <1>14 DEF MaintainReaps, Status
<1>15. CASE MaintainCall
  BY <1>15 DEF MaintainCall, MaintainRestart, MaintainProbe, Reload, Go
<1>16. CASE MaintainIdle
  BY <1>16 DEF MaintainIdle, vars
<1>17. CASE MaintainDone
  BY <1>17 DEF MaintainDone, Return, Go
<1>18. CASE ReconcileCall
  <2>1. snap = applied /\ ~stale => ~Disabled \/ applied.enabled
    BY <1>18 DEF ReconcileCall, ReconcileStrict, ReconcilePolicy, RefreshDue, PolicyDue
  <2>2. QED
    BY <1>18, <2>1, ReconcileEffect DEF ReconcileCall
<1>19. CASE ReconcileIdle
  BY <1>19 DEF ReconcileIdle, TickDone, vars
<1>20. CASE ReconcileDone
  BY <1>20 DEF ReconcileDone, TickDone, Return, Go
<1>21. ASSUME NEW t \in Threads, BackendStep(t) PROVE Paused'
  BY <1>21, StepEffect, ReturnsDisabled DEF BackendStep
<1>22. CASE Observe
  BY <1>22 DEF Observe, Status
<1>23. CASE Disturb
  BY <1>23 DEF Disturb, Environment, ChildExits, EndpointChanges,
     ProcessesChange
<1>24. CASE UNCHANGED dvars
  BY <1>24 DEF vars
<1> HIDE DEF Paused
<1>25. QED
  BY <1>1, <1>2, <1>3, <1>4, <1>5, <1>6, <1>7, <1>8, <1>9, <1>10, <1>11,
     <1>12, <1>13, <1>14, <1>15, <1>16, <1>17, <1>18, <1>19, <1>20, <1>21,
     <1>22, <1>23, <1>24
     DEF DNext, Transaction, Watcher

\* A first start satisfies the invariant.
LEMMA InitDInv == DInit => DInv
<1> SUFFICES ASSUME DInit
             PROVE  DInv
  OBVIOUS
<1>1. Inv /\ CoreOK
  <2>1. Inv
    BY InitInv DEF DInit
  <2>2. CoreOK
    <3>1. budget = Disturbances /\ budget \in 0..Disturbances
      BY DisturbancesAssumption DEF DInit
    <3>2. {config, disk, next, snap} \subseteq Configs
      BY DefaultAssumption DEF DInit
    <3>3. scan = FALSE /\ stale = FALSE /\ {scan, stale} \subseteq BOOLEAN
      BY DEF DInit
    <3>4. core = "down" /\ tx = "idle" /\ watch = "idle"
      BY DEF DInit
    <3>5. QED
      BY <3>1, <3>2, <3>3, <3>4 DEF CoreOK
  <2>3. QED
    BY <2>1, <2>2
<1>2. DTypeOK /\ LockDiscipline /\ HolderApplies
  BY <1>1 DEF Inv, DTypeOK
<1>3. CallersWait /\ Phases /\ Stored /\ Asked /\ Given
  BY ThreadsAre DEF DInit, Init, CallersWait, Phases, Stored, Asked, Given
<1>4. Pausing /\ Paused
  BY DEF DInit, Init, Pausing, Paused, Locked
<1>5. QED
  BY <1>2, <1>3, <1>4 DEF DInv

\* Every step preserves the invariant.
LEMMA NextDInv == DInv /\ [DNext]_dvars => DInv'
<1> SUFFICES ASSUME DInv, [DNext]_dvars
             PROVE  DInv'
  OBVIOUS
<1> USE DEF DInv
<1>1. TypeOK
  BY DEF DTypeOK
<1>2. LockDiscipline' /\ HolderApplies'
  BY <1>1, BackendMoves, GoneResets, LockPreserved, HolderPreserved
<1>3. Pausing'
  <2>1. CASE ProcessGone
    BY <2>1 DEF ProcessGone, Pausing, Locked
  <2>2. QED
    BY <1>1, <2>1, BackendMoves, PausingByBackend
<1>4. QED
  BY <1>2, <1>3, DataTyped, CallersPreserved, PhasesPreserved, StoredPreserved,
     AskedPreserved, GivenPreserved, PausedPreserved

\* Whatever fails, crashes or is asked for at the same time, the transaction,
\* the watcher and the engine hold together.
THEOREM DataPlaneInvariant == DSpec => []DInv
BY InitDInv, NextDInv, PTL DEF DSpec

\* Between transactions the file, the memory and the engine agree on the
\* configuration, unless the watcher applied a snapshot already replaced.
THEOREM OneConfigurationServed == DSpec => []OneConfiguration
<1>1. DInv => OneConfiguration
  BY DEF DInv, Stored, Given, OneConfiguration, Quiescent
<1>2. QED
  BY <1>1, DataPlaneInvariant, PTL

\* A runtime the user disabled has no child, and no rule but those that a cleanup
\* failed to remove, with the same proviso.
THEOREM DisabledStaysQuiet == DSpec => []DisabledIsQuiet
<1>1. DInv => DisabledIsQuiet
  BY DEF DInv, Given, Paused, Disabled, DisabledIsQuiet, Quiescent
<1>2. QED
  BY <1>1, DataPlaneInvariant, PTL

----------------------------------------------------------------------------
(* The configuration file, as the transaction uses it.                      *)

\* What a step does to the file and to what is served.
Stays == UNCHANGED <<disk, config>> /\ (core' = "down" <=> core = "down")

\* Only a start, a save, a publication and the end of the process matter.
LEMMA FileMoves ==
  ASSUME DInv, [DNext]_dvars
  PROVE  \/ Stays
         \/ core = "down" /\ core' # "down" /\ config' = disk /\ UNCHANGED disk
         \/ core # "down" /\ core' = "down" /\ UNCHANGED disk
         \/ disk' = next /\ UNCHANGED <<core, config>>
         \/ tx = "publish" /\ core # "down" /\ config' = next /\ UNCHANGED <<core, disk>>
<1>1. CASE Boot
  BY <1>1 DEF Boot
<1>2. CASE BootDone \/ Shutdown
  BY <1>2 DEF BootDone, Shutdown, Stays
<1>3. CASE ProcessGone
  BY <1>3 DEF ProcessGone
<1>4. CASE Transaction
  <2>1. ASSUME NEW cfg \in Configs, TxBegin(cfg) PROVE Stays
    BY <2>1 DEF TxBegin, Stays
  <2>2. CASE TxReloaded \/ TxReloadFailed \/ TxSaveFailed \/ TxRollback \/ TxRolledBack
    BY <2>2 DEF TxReloaded, TxReloadFailed, TxSaveFailed, TxRollback, TxRolledBack, Stays
  <2>3. CASE TxSaved
    BY <2>3 DEF TxSaved
  <2>4. CASE TxPublish
    BY <2>4 DEF TxPublish, DInv, Phases
  <2>5. QED
    BY <1>4, <2>1, <2>2, <2>3, <2>4 DEF Transaction
<1>5. CASE Watcher
  BY <1>5 DEF Watcher, Tick, MaintainReaps, MaintainCall, MaintainIdle, MaintainDone,
              ReconcileCall, ReconcileIdle, ReconcileDone, TickDone, Stays
<1>6. ASSUME NEW t \in Threads, BackendStep(t) PROVE Stays
  BY <1>6 DEF BackendStep, Stays
<1>7. CASE Observe \/ Disturb
  BY <1>7 DEF Observe, Disturb, Stays
<1>8. CASE UNCHANGED dvars
  BY <1>8 DEF Stays
<1>9. QED
  BY <1>1, <1>2, <1>3, <1>4, <1>5, <1>6, <1>7, <1>8 DEF DNext

\* Each of them is one of the register.
LEMMA FileMaps ==
  ASSUME DInv, [DNext]_dvars
  PROVE  [Register!Commit \/ Register!Serve \/ Register!Stop]_(Register!vars)
<1>1. CASE Stays
  BY <1>1 DEF Stays, Register!vars
<1>2. CASE core = "down" /\ core' # "down" /\ config' = disk /\ UNCHANGED disk
  BY <1>2 DEF Register!Serve
<1>3. CASE core # "down" /\ core' = "down" /\ UNCHANGED disk
  BY <1>3 DEF Register!Stop
<1>4. CASE disk' = next /\ UNCHANGED <<core, config>>
  <2>1. next \in Configs
    BY DEF DInv, DTypeOK, CoreOK
  <2>2. QED
    BY <1>4, <2>1 DEF Register!Commit
<1>5. CASE tx = "publish" /\ core # "down" /\ config' = next /\ UNCHANGED <<core, disk>>
  <2>1. disk = next
    BY <1>5 DEF DInv, Stored
  <2>2. QED
    BY <1>5, <2>1 DEF Register!Serve
<1>6. QED
  BY FileMoves, <1>1, <1>2, <1>3, <1>4, <1>5

\* Core starts down, with one configuration in the file.
LEMMA FileInit == DInit => Register!Init
BY DefaultAssumption DEF DInit, Register!Init

\* Requests, refusals, rollbacks, crashes and starts, in any order, use the
\* configuration file as the register that ConfigFile implements: DataPlane
\* may stand on ConfigRegister where the program stands on its files.
THEOREM CoreKeepsTheRegister == DSpec => KeepsRegister /\ Register!Spec
<1>1. /\ [Register!Commit \/ Register!Serve \/ Register!Stop]_(Register!vars)
      => [Register!Next]_(Register!vars)
  BY DEF Register!Next
<1>2. QED
  BY FileInit, FileMaps, DataPlaneInvariant, <1>1, PTL
     DEF DSpec, KeepsRegister, Register!Spec
=============================================================================
