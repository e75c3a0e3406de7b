---------------------------- MODULE ControlProofs ----------------------------
(***************************************************************************)
(* EngineSwitch and ProxyHealth, which share nothing, for any values of    *)
(* their constants.                                                        *)
(*                                                                         *)
(* No sing-box process escapes, and between transactions sing-box runs     *)
(* what is configured, for any configurations and any number of faults.    *)
(* NoStrayChild is not inductive: it allows a process to be held by the    *)
(* handle alone, which another caller's Store would drop.  JobHolds says   *)
(* that outside of a spawn the job object holds it, SwitchIsClean that a   *)
(* switch leaves no job object until its new engine is up, ProxifyreIsBare *)
(* what that means for ProxiFyre.  Serves is what EngineServesConfig needs *)
(* of every step of an apply, a transaction and a rollback before it.      *)
(*                                                                         *)
(* What the health supervisor reports settles to the endpoint configured,  *)
(* and no single probe flips a state, for every set of proxies, profiles   *)
(* and servers and any number of transactions.                             *)
(***************************************************************************)
EXTENDS EngineSwitch, ProxyHealth, TLAPS

----------------------------------------------------------------------------
(* The engine manager and sing-box.                                          *)

\* Where a caller has a process that nothing holds yet.
Spawning == {"ready", "store", "bind"}
Places   == Spawning \cup {"idle", "begin", "clean", "prepare", "spawn", "ok", "err"}

\* Types.
EngineOK == engine \in [mode : {"proxifyre", "sing_box"}, running : BOOLEAN,
                        desired : BOOLEAN, error : BOOLEAN]

FaultsOK == faults \in 0..MaxFaults

ProcOK == proc \in [Callers -> {"none", "alive", "dead"}]
PcOK   == pc \in [Callers -> Places]
ArgOK  == arg \in [Callers -> Configs]
MadeOK == made = [t \in Callers |-> made[t]]

TxForms == [at : {"boot", "idle", "reload", "switch", "save", "rollback", "restart",
                  "switchback"}, next : Configs]

DataOK ==
  /\ handle \in Callers \cup {Nobody} /\ job \in Callers \cup {Nobody}
  /\ config \in Configs /\ disk \in Configs
  /\ tx \in TxForms
  /\ old \in {"proxifyre", "sing_box"}
  /\ snap \in Configs \cup {NoSnap}

\* A call is in progress exactly while its caller waits for it.
CallsMatch ==
  /\ pc["api"] # "idle" => tx.at \notin {"idle", "save"}
  /\ pc["watcher"] # "idle" => snap # NoSnap
  /\ Writing => pc["watcher"] = "idle"

\* Outside of a spawn the job object holds what is alive.
JobHolds == \A t \in Callers : proc[t] = "alive" => pc[t] \in Spawning \/ t = job

\* A switch leaves nothing behind until its new engine is up.
SwitchIsClean ==
  Writing => /\ pc["api"] # "ok" => job = Nobody
             /\ pc["api"] \notin {"bind", "ok"} => handle = Nobody

\* Under ProxiFyre nothing of sing-box is left, nor started.
ProxifyreIsBare ==
  engine.mode = "proxifyre" =>
    /\ handle = Nobody /\ job = Nobody
    /\ \A t \in Callers : proc[t] # "alive" /\ pc[t] \in {"idle", "begin", "ok", "err"}

Types == EngineOK /\ ProcOK /\ PcOK /\ ArgOK /\ MadeOK /\ DataOK /\ FaultsOK
Holds == CallsMatch /\ JobHolds /\ SwitchIsClean /\ ProxifyreIsBare
EIInv == Types /\ Holds

----------------------------------------------------------------------------
(* Types, variable by variable. *)

\* Core starts without a child.
LEMMA InitInv == Init => EIInv
  BY EngineAssumption, NobodyAssumption
     DEF Init, EIInv, Types, Holds, EngineOK, FaultsOK, ProcOK, PcOK, ArgOK, MadeOK, DataOK,
         TxForms, CallsMatch, JobHolds, SwitchIsClean, ProxifyreIsBare, NewEngine, Writing, Callers,
         Places, Spawning

\* No step takes more faults than there are.
LEMMA FaultsStep == FaultsOK /\ [Next]_vars => FaultsOK'
<1>1. FaultsOK /\ Fault => FaultsOK'
  BY EngineAssumption DEF FaultsOK, Fault
<1>2. FaultsOK /\ UNCHANGED faults => FaultsOK'
  BY DEF FaultsOK
<1>3. [Next]_vars => Fault \/ UNCHANGED faults
  BY DEF Next, Apply, Begin, Clean, Prepare, Spawn, Ready, Store, Bind, ProxifyreCall, Status,
         Boot, Booted, Submit, Accepted, ReloadRefused, SwitchRefused, Save, SaveRefused,
         SwitchBackRefused, RolledBack, Tick, Maintain, MaintainOther, Maintained, ChildExits,
         Crash, NoFault, vars
<1>4. QED
  BY <1>1, <1>2, <1>3

\* A caller is always at a place of the code.
LEMMA PcStep == PcOK /\ [Next]_vars => PcOK'
<1>1. PcOK => \A t \in Callers, l \in Places : Goto(t, l) => PcOK'
  BY DEF PcOK, Goto
<1>2. ASSUME NEW t \in Callers, Apply(t)
      PROVE  \E l \in Places : Goto(t, l)
  BY <1>2 DEF Apply, Begin, Clean, Prepare, Spawn, Ready, Store, Bind, ProxifyreCall, Places,
              Spawning
<1>3. ASSUME [Next]_vars, ~ \E t \in Callers : Apply(t)
      PROVE  \/ \E t \in Callers, l \in Places : Goto(t, l)
             \/ UNCHANGED pc \/ pc' = [t \in Callers |-> "idle"]
  BY <1>3 DEF Next, Status, Boot, Booted, Submit, CallReload, CallSwitch, Call, Return, Accepted,
              ReloadRefused, SwitchRefused, Save, SaveRefused, SwitchBackRefused, RolledBack, Tick,
              Maintain, MaintainOther, Maintained, ChildExits, Crash, vars, Places, Callers
<1>4. PcOK /\ (UNCHANGED pc \/ pc' = [t \in Callers |-> "idle"]) => PcOK'
  BY DEF PcOK, Places
<1>5. QED
  BY <1>1, <1>2, <1>3, <1>4

\* A process is none, alive or dead.
LEMMA ProcStep == ProcOK /\ [Next]_vars => ProcOK'
<1>1. SUFFICES ASSUME ProcOK, [Next]_vars
               PROVE  ProcOK'
  OBVIOUS
<1>2. ASSUME NEW t \in Callers, NEW s \in {"none", "alive", "dead"},
             proc' = [proc EXCEPT ![t] = s]
      PROVE  ProcOK'
  BY <1>1, <1>2 DEF ProcOK
<1>3. ASSUME NEW which, proc' = Killed(which)
      PROVE  ProcOK'
  BY <1>1, <1>3 DEF ProcOK, Killed
<1>4. ASSUME Reaped
      PROVE  ProcOK'
  BY <1>1, <1>4 DEF ProcOK, Reaped, Killed, engineVars
<1>5. ASSUME NEW t \in Callers, Apply(t)
      PROVE  ProcOK'
  BY <1>1, <1>2, <1>3, <1>5
     DEF ProcOK, Apply, Begin, Clean, Prepare, Spawn, Ready, Store, Bind, ProxifyreCall
<1>6. ASSUME ~ \E t \in Callers : Apply(t)
      PROVE  ProcOK'
  <2>1. ASSUME NEW cfg, CallSwitch(cfg) PROVE ProcOK'
    BY <1>1, <1>3, <2>1 DEF ProcOK, CallSwitch, StopChild
  <2>2. CASE Status \/ Maintain
    BY <1>4, <2>2 DEF Status, Maintain
  <2>3. CASE Boot \/ Booted \/ \E cfg \in Configs : Submit(cfg)
    BY <1>1, <2>1, <2>3 DEF ProcOK, Boot, Booted, Submit, CallReload, engineVars
  <2>4. CASE Accepted \/ ReloadRefused \/ SwitchRefused
    BY <1>1, <2>4 DEF ProcOK, Accepted, ReloadRefused, CallReload, SwitchRefused, engineVars
  <2>5. CASE Save \/ SaveRefused \/ SwitchBackRefused \/ RolledBack
    BY <1>1, <2>1, <2>5
       DEF ProcOK, Save, SaveRefused, CallReload, SwitchBackRefused, RolledBack, engineVars
  <2>6. CASE Tick \/ MaintainOther \/ Maintained \/ UNCHANGED vars
    BY <1>1, <2>6 DEF ProcOK, Tick, MaintainOther, Maintained, vars, engineVars
  <2>7. CASE ChildExits \/ Crash
    BY <1>1, <1>2, <2>7 DEF ProcOK, ChildExits, Crash
  <2>8. QED
    BY <1>1, <1>6, <2>2, <2>3, <2>4, <2>5, <2>6, <2>7 DEF Next
<1>7. QED
  BY <1>5, <1>6

\* Every process was made from something.
LEMMA MadeStep == MadeOK /\ [Next]_vars => MadeOK'
<1>1. SUFFICES ASSUME MadeOK, [Next]_vars
               PROVE  MadeOK'
  OBVIOUS
<1>2. ASSUME NEW t \in Callers, NEW cfg, made' = [made EXCEPT ![t] = cfg]
      PROVE  MadeOK'
  BY <1>1, <1>2 DEF MadeOK
<1>3. UNCHANGED made => MadeOK'
  BY <1>1 DEF MadeOK
<1>4. made' = [t \in Callers |-> Default] => MadeOK'
  BY DEF MadeOK
<1>5. \/ \E t \in Callers : \E cfg : made' = [made EXCEPT ![t] = cfg]
      \/ UNCHANGED made \/ made' = [t \in Callers |-> Default]
  BY <1>1
     DEF Next, Apply, Begin, Clean, Prepare, Spawn, Ready, Store, Bind, ProxifyreCall, Status,
         Reaped, Boot, Booted, Submit, CallReload, CallSwitch, StopChild, Accepted,
         ReloadRefused, SwitchRefused, Save, SaveRefused, SwitchBackRefused, RolledBack, Tick,
         Maintain, MaintainOther, Maintained, ChildExits, Crash, vars, engineVars
<1>6. QED
  BY <1>2, <1>3, <1>4, <1>5

\* A caller's configuration is one there is.
LEMMA ArgStep == ArgOK /\ DataOK /\ [Next]_vars => ArgOK'
<1>1. SUFFICES ASSUME ArgOK, DataOK, [Next]_vars
               PROVE  ArgOK'
  OBVIOUS
<1>2. ASSUME NEW t \in Callers, NEW cfg \in Configs, Call(t, cfg)
      PROVE  ArgOK'
  BY <1>1, <1>2 DEF ArgOK, Call
<1>3. ASSUME NEW t \in Callers, Return(t)
      PROVE  ArgOK'
  BY <1>1, <1>3, EngineAssumption DEF ArgOK, Return
<1>4. ASSUME NEW cfg \in Configs, CallReload(cfg)
      PROVE  ArgOK'
  BY <1>1, <1>4 DEF ArgOK, CallReload, Call
<1>5. config \in Configs /\ tx.next \in Configs /\ "api" \in Callers /\ "watcher" \in Callers
  BY <1>1 DEF DataOK, TxForms, Callers
<1>6. Maintain => ArgOK'
  BY <1>1, <1>2, <1>5 DEF ArgOK, DataOK, Maintain
<1>7. Crash => ArgOK'
  BY EngineAssumption DEF ArgOK, Crash
<1>8. QED
  BY <1>1, <1>2, <1>3, <1>4, <1>5, <1>6, <1>7
     DEF ArgOK, Next, Apply, Status, Boot, Booted, Submit, CallSwitch, Accepted, ReloadRefused,
         SwitchRefused, Save, SaveRefused, SwitchBackRefused, RolledBack, Tick, MaintainOther,
         Maintained, ChildExits, vars

\* The engine in place stays an engine.
LEMMA EngineStep == EngineOK /\ ArgOK /\ DataOK /\ [Next]_vars => EngineOK'
<1>1. SUFFICES ASSUME EngineOK, ArgOK, DataOK, [Next]_vars
               PROVE  EngineOK'
  OBVIOUS
<1>2. ASSUME NEW b \in BOOLEAN, NEW d \in BOOLEAN, NEW e \in BOOLEAN,
             \/ engine' = [engine EXCEPT !.running = b] \/ engine' = [engine EXCEPT !.error = e]
             \/ engine' = [engine EXCEPT !.desired = d]
             \/ engine' = [engine EXCEPT !.desired = d, !.error = e]
      PROVE  EngineOK'
  BY <1>1, <1>2 DEF EngineOK
<1>3. ASSUME NEW mode \in {"proxifyre", "sing_box"},
             engine' = [NewEngine(mode) EXCEPT !.running = TRUE] \/ engine' = NewEngine(mode)
      PROVE  EngineOK'
  <2>1. CASE engine' = [NewEngine(mode) EXCEPT !.running = TRUE]
    BY <2>1 DEF EngineOK, NewEngine
  <2>2. CASE engine' = NewEngine(mode)
    BY <2>2 DEF EngineOK, NewEngine
  <2>3. QED
    BY <1>3, <2>1, <2>2
<1>4. /\ \A t \in Callers : arg[t].enabled \in BOOLEAN
      /\ \A cfg \in Configs : cfg.mode \in {"proxifyre", "sing_box"}
      /\ {config, disk, tx.next} \subseteq Configs /\ old \in {"proxifyre", "sing_box"}
      /\ engine.error \in BOOLEAN
  <2>1. \A t \in Callers : arg[t] \in Configs
    BY <1>1 DEF ArgOK
  <2>2. QED
    BY <1>1, <2>1, EngineAssumption DEF EngineOK, DataOK, TxForms
<1>5. ASSUME NEW t \in Callers, Apply(t)
      PROVE  EngineOK'
  BY <1>1, <1>2, <1>4, <1>5
     DEF EngineOK, Apply, Begin, Clean, Prepare, Spawn, Ready, Store, Bind, ProxifyreCall
<1>6. ASSUME ~ \E t \in Callers : Apply(t)
      PROVE  EngineOK'
  BY <1>1, <1>2, <1>3, <1>4, <1>6
     DEF EngineOK, Next, Status, Reaped, Boot, Booted, Submit, CallReload, CallSwitch, Accepted,
         ReloadRefused, SwitchRefused, Save, SaveRefused, SwitchBackRefused, RolledBack, Tick,
         Maintain, MaintainOther, Maintained, ChildExits, Crash, vars, engineVars
<1>7. QED
  BY <1>5, <1>6

\* Handles name callers, configurations are there, a transaction is in a phase.
LEMMA DataStep == EngineOK /\ DataOK /\ [Next]_vars => DataOK'
<1>1. SUFFICES ASSUME EngineOK, DataOK, [Next]_vars
               PROVE  DataOK'
  OBVIOUS
<1>2. {handle', job'} \subseteq Callers \cup {Nobody}
  <2>1. ASSUME NEW t \in Callers, Apply(t)
        PROVE  {handle', job'} \subseteq Callers \cup {Nobody}
    BY <1>1, <2>1
       DEF DataOK, Apply, Begin, Clean, Prepare, Spawn, Ready, Store, Bind, ProxifyreCall
  <2>2. ASSUME ~ \E t \in Callers : Apply(t)
        PROVE  {handle', job'} \subseteq Callers \cup {Nobody}
    BY <1>1, <2>2
       DEF DataOK, Next, Status, Reaped, Boot, Booted, Submit, CallReload, CallSwitch, StopChild,
           Accepted, ReloadRefused, SwitchRefused, Save, SaveRefused, SwitchBackRefused,
           RolledBack, Tick, Maintain, MaintainOther, Maintained, ChildExits, Crash, vars,
           engineVars
  <2>3. QED
    BY <2>1, <2>2
<1>3. ASSUME NEW next \in Configs,
             NEW at \in {"boot", "idle", "reload", "switch", "save", "rollback", "restart",
                         "switchback"},
             tx' = [tx EXCEPT !.at = at] \/ tx' = [at |-> at, next |-> next]
      PROVE  tx' \in TxForms
  <2>1. CASE tx' = [tx EXCEPT !.at = at]
    BY <1>1, <2>1 DEF DataOK, TxForms
  <2>2. CASE tx' = [at |-> at, next |-> next]
    BY <2>2 DEF TxForms
  <2>3. QED
    BY <1>3, <2>1, <2>2
<1>4. tx' \in TxForms
  BY <1>1, <1>3, EngineAssumption
     DEF DataOK, Next, Apply, Status, Boot, Booted, Submit, Accepted, ReloadRefused,
         SwitchRefused, Save, SaveRefused, SwitchBackRefused, RolledBack, Tick, Maintain,
         MaintainOther, Maintained, ChildExits, Crash, NoTx, vars
<1>5. /\ \A cfg \in Configs : cfg.mode \in {"proxifyre", "sing_box"}
      /\ engine.mode \in {"proxifyre", "sing_box"} /\ tx.next \in Configs
  BY <1>1, EngineAssumption DEF EngineOK, DataOK, TxForms
<1>6. /\ {config', disk'} \subseteq Configs /\ snap' \in Configs \cup {NoSnap}
      /\ old' \in {"proxifyre", "sing_box"}
  <2>1. config' \in Configs /\ disk' \in Configs
    BY <1>1, <1>5
       DEF DataOK, Next, Apply, Status, Boot, Booted, Submit, CallReload, CallSwitch, Accepted,
           ReloadRefused, SwitchRefused, Save, SaveRefused, SwitchBackRefused, RolledBack, Tick,
           Maintain, MaintainOther, Maintained, ChildExits, Crash, vars
  <2>2. snap' \in Configs \cup {NoSnap}
    BY <1>1, <1>5
       DEF DataOK, Next, Apply, Status, Boot, Booted, Submit, CallReload, CallSwitch, Accepted,
           ReloadRefused, SwitchRefused, Save, SaveRefused, SwitchBackRefused, RolledBack, Tick,
           Maintain, MaintainOther, Maintained, ChildExits, Crash, vars
  <2>3. old' \in {"proxifyre", "sing_box"}
    BY <1>1, <1>5
       DEF DataOK, Next, Apply, Status, Boot, Booted, Submit, CallReload, CallSwitch, Accepted,
           ReloadRefused, SwitchRefused, Save, SaveRefused, SwitchBackRefused, RolledBack, Tick,
           Maintain, MaintainOther, Maintained, ChildExits, Crash, vars
  <2>4. QED
    BY <2>1, <2>2, <2>3
<1>7. QED
  BY <1>2, <1>4, <1>6 DEF DataOK

----------------------------------------------------------------------------
(* What holds a process. *)

\* A switch leaves no process and begins a call of the new engine.
LEMMA SwitchClears ==
  ASSUME EIInv, pc["api"] = "idle", NEW cfg \in Configs, CallSwitch(cfg)
  PROVE  /\ handle' = Nobody /\ job' = Nobody /\ \A t \in Callers : proc'[t] # "alive"
         /\ pc["watcher"] = "idle" /\ Goto("api", "begin")
<1>1. \A t \in Callers : pc[t] = "idle"
  BY DEF CallSwitch, Exclusive, Callers
<1>2. \A t \in Callers : proc[t] = "alive" => t = job
  BY <1>1 DEF EIInv, Holds, JobHolds, Spawning
<1>3. ASSUME SingBox
      PROVE  handle' = Nobody /\ job' = Nobody /\ \A t \in Callers : proc'[t] # "alive"
  BY <1>2, <1>3 DEF CallSwitch, StopChild, Killed
<1>4. ASSUME ~SingBox
      PROVE  handle' = Nobody /\ job' = Nobody /\ \A t \in Callers : proc'[t] # "alive"
  <2>1. engine.mode = "proxifyre"
    BY <1>4 DEF SingBox, EIInv, Types, EngineOK
  <2>2. handle' = handle /\ job' = job /\ proc' = proc
    BY <1>4 DEF CallSwitch
  <2>3. QED
    BY <2>1, <2>2 DEF EIInv, Holds, ProxifyreIsBare
<1>5. QED
  BY <1>1, <1>3, <1>4 DEF CallSwitch, Call, Callers

\* What the transaction does to the engine at its start, or after a save that
\* failed: a switch, a reload or nothing.
LEMMA CallsHold ==
  ASSUME EIInv, pc["api"] = "idle", NEW cfg \in Configs, UNCHANGED snap,
         \/ CallSwitch(cfg) /\ tx'.at \in {"switch", "switchback"}
         \/ CallReload(cfg) /\ tx'.at \in {"reload", "rollback"}
         \/ UNCHANGED <<engineVars, pc>> /\ tx'.at \in {"save", "idle"}
  PROVE  Holds'
<1> USE DEF EIInv, Types, PcOK, Holds, CallsMatch, JobHolds, SwitchIsClean, ProxifyreIsBare,
            Writing, Callers, Spawning
<1>1. CASE CallSwitch(cfg) /\ tx'.at \in {"switch", "switchback"}
  BY <1>1, SwitchClears DEF Goto
<1>2. CASE CallReload(cfg) /\ tx'.at \in {"reload", "rollback"}
  BY <1>2 DEF CallReload, Call, Goto, engineVars
<1>3. CASE UNCHANGED <<engineVars, pc>> /\ tx'.at \in {"save", "idle"}
  BY <1>3 DEF engineVars
<1>4. QED
  BY <1>1, <1>2, <1>3

\* A status takes at most a child, its handle and the job object away.
LEMMA ReapedEffect ==
  ASSUME EngineOK, ProcOK, Reaped
  PROVE  /\ engine'.mode = engine.mode
         /\ handle' \in {handle, Nobody} /\ job' \in {job, Nobody}
         /\ \A t \in Callers : proc'[t] = "alive" => proc[t] = "alive" /\ (t = job => job' = job)
<1> USE DEF EngineOK, ProcOK
<1>1. CASE handle # Nobody /\ proc[handle] = "dead"
  BY <1>1 DEF Reaped, Killed
<1>2. CASE ~(handle # Nobody /\ proc[handle] = "dead")
  BY <1>2 DEF Reaped, engineVars
<1>3. QED
  BY <1>1, <1>2

\* ... while calls, transactions and the watcher overlap.
LEMMA HoldsStep == EIInv /\ [Next]_vars => Holds'
<1> DEFINE Outside == UNCHANGED <<startup, arg, config, disk, tx, old, snap, stale, stuck>>
<1>1. SUFFICES ASSUME EIInv, [Next]_vars
               PROVE  Holds'
  OBVIOUS
<1> USE <1>1, NobodyAssumption
    DEF EIInv, Types, Holds, EngineOK, ProcOK, PcOK, DataOK, CallsMatch, JobHolds, SwitchIsClean,
        ProxifyreIsBare, Writing, Callers, Places, Spawning, TxForms
<1>2. ASSUME NEW t \in Callers, Begin(t), Outside
      PROVE  Holds'
  BY <1>2 DEF Begin, Goto, Killed, SingBox
<1>3. ASSUME NEW t \in Callers, Clean(t), Outside
      PROVE  Holds'
  BY <1>3 DEF Clean, Goto, Killed
<1>4. ASSUME NEW t \in Callers, Prepare(t), Outside
      PROVE  Holds'
  BY <1>4 DEF Prepare, Goto
<1>5. ASSUME NEW t \in Callers, Spawn(t), Outside
      PROVE  Holds'
  <2>1. CallsMatch'
    BY <1>5 DEF Spawn, Goto
  <2>2. JobHolds'
    BY <1>5 DEF Spawn, Goto
  <2>3. SwitchIsClean'
    BY <1>5 DEF Spawn, Goto
  <2>4. ProxifyreIsBare'
    BY <1>5 DEF Spawn, Goto
  <2>5. QED
    BY <2>1, <2>2, <2>3, <2>4
<1>6. ASSUME NEW t \in Callers, Ready(t), Outside
      PROVE  Holds'
  <2>1. CallsMatch'
    BY <1>6 DEF Ready, Goto
  <2>2. JobHolds'
    BY <1>6 DEF Ready, Goto
  <2>3. SwitchIsClean'
    BY <1>6 DEF Ready, Goto
  <2>4. ProxifyreIsBare'
    BY <1>6 DEF Ready, Goto
  <2>5. QED
    BY <2>1, <2>2, <2>3, <2>4
<1>7. ASSUME NEW t \in Callers, Store(t), Outside
      PROVE  Holds'
  BY <1>7 DEF Store, Goto
<1>8. ASSUME NEW t \in Callers, Bind(t), Outside
      PROVE  Holds'
  BY <1>8 DEF Bind, Goto, Killed
<1>9. ASSUME NEW t \in Callers, ProxifyreCall(t), Outside
      PROVE  Holds'
  BY <1>9 DEF ProxifyreCall, Goto, SingBox
<1>10. CASE Status
  BY <1>10, ReapedEffect DEF Status
<1>11. CASE Boot
  BY <1>11 DEF Boot, Call, Goto
<1>12. CASE Booted
  BY <1>12 DEF Booted, Return, Goto, NoTx, engineVars
<1>13. ASSUME NEW cfg \in Configs, Submit(cfg)
      PROVE  Holds'
  <2>1. pc["api"] = "idle" /\ UNCHANGED snap
    BY <1>13 DEF Submit
  <2>2. CASE tx' = [at |-> "switch", next |-> cfg] /\ CallSwitch(cfg)
    BY <2>1, <2>2, CallsHold
  <2>3. CASE tx' = [at |-> "reload", next |-> cfg] /\ CallReload(cfg)
    BY <2>1, <2>3, CallsHold
  <2>4. CASE tx' = [at |-> "save", next |-> cfg] /\ UNCHANGED <<engineVars, pc, arg>>
    BY <2>1, <2>4, CallsHold
  <2>5. QED
    BY <1>13, <2>2, <2>3, <2>4 DEF Submit
<1>14. CASE Accepted
  BY <1>14 DEF Accepted, Return, Goto, engineVars
<1>15. CASE ReloadRefused
  BY <1>15 DEF ReloadRefused, CallReload, Call, Goto, engineVars
<1>16. CASE SwitchRefused
  BY <1>16 DEF SwitchRefused, Call, Goto, NewEngine
<1>17. CASE Save
  BY <1>17 DEF Save, NoTx, engineVars
<1>18. CASE SaveRefused
  <2>1. pc["api"] = "idle" /\ config \in Configs /\ UNCHANGED snap
    BY <1>18 DEF SaveRefused
  <2>2. CASE tx' = [tx EXCEPT !.at = "switchback"] /\ CallSwitch(config)
    BY <2>1, <2>2, CallsHold
  <2>3. CASE tx' = [tx EXCEPT !.at = "rollback"] /\ CallReload(config)
    BY <2>1, <2>3, CallsHold
  <2>4. CASE tx' = NoTx /\ UNCHANGED <<engineVars, pc, arg>>
    BY <2>1, <2>4, CallsHold DEF NoTx
  <2>5. QED
    BY <1>18, <2>2, <2>3, <2>4 DEF SaveRefused
<1>19. CASE SwitchBackRefused
  BY <1>19 DEF SwitchBackRefused, Call, Goto, NewEngine
<1>20. CASE RolledBack
  BY <1>20 DEF RolledBack, Return, Goto, NoTx, engineVars
<1>21. CASE Tick
  BY <1>21 DEF Tick, engineVars
<1>22. CASE Maintain
  <2>1. Reaped /\ UNCHANGED tx /\ ~Writing /\ SingBox
    BY <1>22 DEF Maintain
  <2>2. CASE UNCHANGED pc
    BY <1>22, <2>1, <2>2, ReapedEffect DEF Maintain, SingBox
  <2>3. CASE Goto("watcher", "begin") /\ UNCHANGED snap
    BY <1>22, <2>1, <2>3, ReapedEffect DEF Maintain, Goto, SingBox
  <2>4. QED
    BY <1>22, <2>2, <2>3 DEF Maintain, Call
<1>23. CASE MaintainOther
  BY <1>23 DEF MaintainOther, engineVars
<1>24. CASE Maintained
  BY <1>24 DEF Maintained, Return, Goto, engineVars
<1>25. CASE ChildExits
  BY <1>25 DEF ChildExits
<1>26. CASE Crash
  BY <1>26 DEF Crash, NewEngine, NoTx
<1>27. CASE UNCHANGED vars
  BY <1>27 DEF vars, engineVars
<1>28. QED
  BY <1>2, <1>3, <1>4, <1>5, <1>6, <1>7, <1>8, <1>9, <1>10, <1>11, <1>12, <1>13,
     <1>14, <1>15, <1>16, <1>17, <1>18, <1>19, <1>20, <1>21, <1>22, <1>23, <1>24, <1>25,
     <1>26, <1>27 DEF Next, Apply

\* Every step preserves the invariant.
LEMMA NextInv == EIInv /\ [Next]_vars => EIInv'
  BY FaultsStep, PcStep, ProcStep, ArgStep, MadeStep, EngineStep, DataStep, HoldsStep
     DEF EIInv, Types

----------------------------------------------------------------------------
(* What an apply leaves, and what the transaction makes of it. *)

Serves == Going /\ Alone /\ Aimed /\ Applying /\ Resting

\* Where nothing is stale, one call is made at a time.
LEMMA OneCall ==
  ASSUME EIInv, Alone, ~stuck, ~stale, NEW t \in Callers, NEW u \in Callers,
         pc[t] # "idle", pc[u] # "idle"
  PROVE  t = u
BY DEF EIInv, Holds, CallsMatch, Alone, Callers

\* A step of an apply is the caller's alone, and keeps the engine in place.
LEMMA ApplyEffect ==
  ASSUME EIInv, NEW t \in Callers, Apply(t)
  PROVE  /\ engine'.mode = engine.mode /\ (SingBox => engine'.running = engine.running)
         /\ pc[t] # "idle" /\ pc'[t] # "idle"
         /\ \A u \in Callers \ {t} : pc'[u] = pc[u]
         /\ UNCHANGED <<startup, arg, config, disk, tx, old, snap, stale, stuck>>
BY DEF EIInv, Types, EngineOK, PcOK, Apply, Begin, Clean, Prepare, Spawn, Ready, Store, Bind,
       ProxifyreCall, Goto, SingBox

\* A reload of a running engine is a call, and not stale when it is alone.
LEMMA ReloadCalls ==
  ASSUME EIInv, SingBox => engine.running, NEW cfg, CallReload(cfg)
  PROVE  /\ SingBox => \A u \in Callers : pc'[u] = IF u = "api" THEN "begin" ELSE pc[u]
         /\ ~stale' => pc'["watcher"] = "idle"
         /\ engine' = engine
         /\ \A u \in Callers : SingBox /\ ~stale' => pc'[u] \in {"idle", "begin"}
BY DEF engineVars, CallReload, Call, Goto, EIInv, Types, PcOK, Callers

\* What a status or the exit of a child takes away from sing-box.
Lessened ==
  /\ \A u \in Callers : proc'[u] = "alive" => proc[u] = "alive"
  /\ engine'.mode = engine.mode /\ engine'.desired = engine.desired
  /\ UNCHANGED <<made, runtime>>

\* A status takes away a child at most.
LEMMA ReapedLessens == EIInv /\ Reaped => Lessened /\ engine'.running = engine.running
BY DEF EIInv, Types, EngineOK, ProcOK, Reaped, Killed, Lessened, engineVars

\* A child that exits is no more.
LEMMA ExitLessens == EIInv /\ ChildExits => Lessened
BY DEF EIInv, Types, ProcOK, ChildExits, Lessened

\* A call is as far as it was.
LEMMA StagesKept ==
  ASSUME EIInv, Applying, Lessened, UNCHANGED <<stuck, stale, arg>>,
         NEW t \in Callers, pc'[t] = pc[t], ~stuck, ~stale, SingBox',
         pc[t] \notin {"idle", "begin"}
  PROVE  Stage(t)'
<1>1. Stage(t)
  BY DEF Applying, Lessened, SingBox
<1>2. QED
  BY <1>1 DEF Stage, Fits, Lessened

\* Only the caller's own stage changes in a step of its apply.
LEMMA OwnStage ==
  ASSUME EIInv, Serves, NEW t \in Callers, Apply(t),
         ~stuck /\ ~stale /\ SingBox => Stage(t)'
  PROVE  Applying'
<1>1. SUFFICES ASSUME NEW u \in Callers, ~stuck, ~stale, SingBox, pc'[u] # "idle", u # t
               PROVE  FALSE
  BY <1>1, ApplyEffect DEF Applying, SingBox
<1>2. pc[u] # "idle" /\ pc[t] # "idle"
  BY <1>1, ApplyEffect
<1>3. QED
  BY <1>1, <1>2, OneCall DEF Serves

\* Once Core is up the engine runs, and file and memory agree.
LEMMA GoingStep == EIInv /\ Serves /\ [Next]_vars => Going'
<1>1. SUFFICES ASSUME EIInv, Serves, [Next]_vars
               PROVE  Going'
  OBVIOUS
<1> USE <1>1 DEF EIInv, Types, Holds, Serves, EngineOK, Going, SingBox, DataOK,
        CallsMatch, PcOK, Callers
<1>2. ASSUME NEW t \in Callers, Apply(t) PROVE Going'
  BY <1>2, ApplyEffect DEF Apply
<1>3. CASE Status
  BY <1>3 DEF Status, Reaped, Killed, engineVars
<1>4. CASE Boot
  BY <1>4 DEF Boot, Call, Goto, engineVars
<1>5. CASE Booted
  BY <1>5 DEF Booted, Return, Goto, NoTx, engineVars
<1>6. ASSUME NEW cfg \in Configs, Submit(cfg) PROVE Going'
  <2>1. /\ tx.at = "idle" /\ UNCHANGED <<config, disk, snap, stuck>>
        /\ (SingBox => engine.running) /\ pc["api"] = "idle"
    BY <1>6 DEF Submit, Going, CallsMatch
  <2>2. CASE /\ cfg.mode = config.mode /\ tx' = [at |-> "reload", next |-> cfg]
             /\ CallReload(cfg) /\ UNCHANGED old
    BY <2>1, <2>2 DEF CallReload, Call, Goto, engineVars
  <2>3. CASE /\ cfg.mode # config.mode /\ tx' = [at |-> "switch", next |-> cfg]
             /\ CallSwitch(cfg)
    BY <2>1, <2>3 DEF CallSwitch, Call, Goto, NewEngine, Exclusive
  <2>4. CASE /\ cfg.mode # config.mode /\ engine.mode = cfg.mode
             /\ tx' = [at |-> "save", next |-> cfg]
             /\ UNCHANGED <<engineVars, pc, arg, old, stale>>
    BY <2>1, <2>4 DEF engineVars
  <2>5. QED
    BY <1>6, <2>2, <2>3, <2>4 DEF Submit
<1>7. CASE Accepted
  BY <1>7 DEF Accepted, Return, Goto, engineVars
<1>8. CASE ReloadRefused
  BY <1>8 DEF ReloadRefused, CallReload, Call, Goto, engineVars
<1>9. CASE SwitchRefused
  BY <1>9 DEF SwitchRefused, Call, Goto, NewEngine, engineVars
<1>10. CASE Save
  BY <1>10 DEF Save, NoTx, engineVars
<1>11. CASE SaveRefused
  <2>1. /\ tx.at = "save" /\ UNCHANGED <<config, disk, snap, stuck>>
        /\ (SingBox => engine.running) /\ pc["api"] = "idle"
    BY <1>11 DEF SaveRefused, Going, CallsMatch
  <2>2. CASE /\ tx.next.mode = config.mode /\ tx' = [tx EXCEPT !.at = "rollback"]
             /\ CallReload(config) /\ UNCHANGED old
    BY <2>1, <2>2 DEF CallReload, Call, Goto, engineVars
  <2>3. CASE /\ tx' = [tx EXCEPT !.at = "switchback"]
             /\ CallSwitch(config)
    BY <2>1, <2>3 DEF CallSwitch, Call, Goto, NewEngine, Exclusive
  <2>4. CASE /\ tx.next.mode # config.mode /\ engine.mode = config.mode /\ tx' = NoTx
             /\ UNCHANGED <<engineVars, pc, arg, old, stale>>
    BY <2>1, <2>4 DEF NoTx, engineVars
  <2>5. QED
    BY <1>11, <2>2, <2>3, <2>4 DEF SaveRefused
<1>12. CASE SwitchBackRefused
  BY <1>12 DEF SwitchBackRefused, Call, Goto, NewEngine, engineVars
<1>13. CASE RolledBack
  BY <1>13 DEF RolledBack, Return, Goto, NoTx, engineVars
<1>14. CASE Tick
  BY <1>14 DEF Tick, engineVars
<1>15. CASE Maintain
  BY <1>15 DEF Maintain, Reaped, Killed, Call, Goto, engineVars
<1>16. CASE MaintainOther
  BY <1>16 DEF MaintainOther, engineVars
<1>17. CASE Maintained
  BY <1>17 DEF Maintained, Return, Goto, engineVars
<1>18. CASE ChildExits
  BY <1>18 DEF ChildExits, engineVars
<1>19. CASE Crash
  BY <1>19 DEF Crash, NewEngine, engineVars
<1>20. CASE UNCHANGED vars
  BY <1>20 DEF vars, engineVars
<1> HIDE DEF Going
<1>21. QED
  BY <1>1, <1>2, <1>3, <1>4, <1>5, <1>6, <1>7, <1>8, <1>9, <1>10, <1>11,
     <1>12, <1>13, <1>14, <1>15, <1>16, <1>17, <1>18, <1>19, <1>20 DEF Next,
     Apply

\* A watcher that overlaps a transaction is stale.
LEMMA AloneStep == EIInv /\ Serves /\ [Next]_vars => Alone'
<1>1. SUFFICES ASSUME EIInv, Serves, [Next]_vars
               PROVE  Alone'
  OBVIOUS
<1> USE <1>1 DEF EIInv, Types, Holds, Serves, Alone, Aimed, Aim, CallsMatch,
        Writing, PcOK, ArgOK, Callers, DataOK, TxForms
<1>2. ASSUME NEW t \in Callers, Apply(t) PROVE Alone'
  BY <1>2, ApplyEffect DEF Apply
<1>3. CASE Status
  BY <1>3 DEF Status, Reaped, Killed, engineVars
<1>4. CASE Boot
  BY <1>4 DEF Boot, Call, Goto, engineVars
<1>5. CASE Booted
  BY <1>5 DEF Booted, Return, Goto, NoTx, engineVars
<1>6. ASSUME NEW cfg \in Configs, Submit(cfg) PROVE Alone'
  <2>1. /\ tx.at = "idle" /\ UNCHANGED <<config, disk, snap, stuck>>
        /\ (SingBox => engine.running) /\ pc["api"] = "idle"
    BY <1>6 DEF Submit, Going, CallsMatch
  <2>2. CASE /\ cfg.mode = config.mode /\ tx' = [at |-> "reload", next |-> cfg]
             /\ CallReload(cfg) /\ UNCHANGED old
    BY <2>1, <2>2 DEF CallReload, Call, Goto, engineVars
  <2>3. CASE /\ cfg.mode # config.mode /\ tx' = [at |-> "switch", next |-> cfg]
             /\ CallSwitch(cfg)
    BY <2>1, <2>3 DEF CallSwitch, Call, Goto, NewEngine, Exclusive
  <2>4. CASE /\ cfg.mode # config.mode /\ engine.mode = cfg.mode
             /\ tx' = [at |-> "save", next |-> cfg]
             /\ UNCHANGED <<engineVars, pc, arg, old, stale>>
    BY <2>1, <2>4 DEF engineVars
  <2>5. QED
    BY <1>6, <2>2, <2>3, <2>4 DEF Submit
<1>7. CASE Accepted
  BY <1>7 DEF Accepted, Return, Goto, engineVars
<1>8. CASE ReloadRefused
  BY <1>8 DEF ReloadRefused, CallReload, Call, Goto, engineVars
<1>9. CASE SwitchRefused
  BY <1>9 DEF SwitchRefused, Call, Goto, NewEngine, engineVars
<1>10. CASE Save
  BY <1>10 DEF Save, NoTx, engineVars
<1>11. CASE SaveRefused
  <2>1. /\ tx.at = "save" /\ UNCHANGED <<config, disk, snap, stuck>>
        /\ (SingBox => engine.running) /\ pc["api"] = "idle"
    BY <1>11 DEF SaveRefused, Going, CallsMatch
  <2>2. CASE /\ tx.next.mode = config.mode /\ tx' = [tx EXCEPT !.at = "rollback"]
             /\ CallReload(config) /\ UNCHANGED old
    BY <2>1, <2>2 DEF CallReload, Call, Goto, engineVars
  <2>3. CASE /\ tx' = [tx EXCEPT !.at = "switchback"]
             /\ CallSwitch(config)
    BY <2>1, <2>3 DEF CallSwitch, Call, Goto, NewEngine, Exclusive
  <2>4. CASE /\ tx.next.mode # config.mode /\ engine.mode = config.mode /\ tx' = NoTx
             /\ UNCHANGED <<engineVars, pc, arg, old, stale>>
    BY <2>1, <2>4 DEF NoTx, engineVars
  <2>5. QED
    BY <1>11, <2>2, <2>3, <2>4 DEF SaveRefused
<1>12. CASE SwitchBackRefused
  BY <1>12 DEF SwitchBackRefused, Call, Goto, NewEngine, engineVars
<1>13. CASE RolledBack
  BY <1>13 DEF RolledBack, Return, Goto, NoTx, engineVars
<1>14. CASE Tick
  BY <1>14 DEF Tick, engineVars
<1>15. CASE Maintain
  BY <1>15 DEF Maintain, Reaped, Killed, Call, Goto, engineVars
<1>16. CASE MaintainOther
  BY <1>16 DEF MaintainOther, engineVars
<1>17. CASE Maintained
  BY <1>17 DEF Maintained, Return, Goto, engineVars
<1>18. CASE ChildExits
  BY <1>18 DEF ChildExits, engineVars
<1>19. CASE Crash
  BY <1>19 DEF Crash, NewEngine, engineVars
<1>20. CASE UNCHANGED vars
  BY <1>20 DEF vars, engineVars
<1> HIDE DEF Alone
<1>21. QED
  BY <1>1, <1>2, <1>3, <1>4, <1>5, <1>6, <1>7, <1>8, <1>9, <1>10, <1>11,
     <1>12, <1>13, <1>14, <1>15, <1>16, <1>17, <1>18, <1>19, <1>20 DEF Next,
     Apply

\* The engine in place is of the mode that the transaction is about.
LEMMA AimedStep == EIInv /\ Serves /\ [Next]_vars => Aimed'
<1>1. SUFFICES ASSUME EIInv, Serves, [Next]_vars
               PROVE  Aimed'
  OBVIOUS
<1> USE <1>1 DEF EIInv, Types, Holds, Serves, Aimed, Aim, EngineOK,
        CallsMatch, PcOK, ArgOK, Callers, Places, Spawning, DataOK, TxForms
<1>2. ASSUME NEW t \in Callers, Apply(t) PROVE Aimed'
  BY <1>2, ApplyEffect DEF Apply
<1>3. CASE Status
  BY <1>3 DEF Status, Reaped, Killed, engineVars
<1>4. CASE Boot
  BY <1>4 DEF Boot, Call, Goto, engineVars
<1>5. CASE Booted
  BY <1>5 DEF Booted, Return, Goto, NoTx, engineVars
<1>6. ASSUME NEW cfg \in Configs, Submit(cfg) PROVE Aimed'
  <2>1. /\ tx.at = "idle" /\ UNCHANGED <<config, disk, snap, stuck>>
        /\ (SingBox => engine.running) /\ pc["api"] = "idle"
    BY <1>6 DEF Submit, Going, CallsMatch
  <2>2. CASE /\ cfg.mode = config.mode /\ tx' = [at |-> "reload", next |-> cfg]
             /\ CallReload(cfg) /\ UNCHANGED old
    BY <2>1, <2>2 DEF CallReload, Call, Goto, engineVars
  <2>3. CASE /\ cfg.mode # config.mode /\ tx' = [at |-> "switch", next |-> cfg]
             /\ CallSwitch(cfg)
    BY <2>1, <2>3 DEF CallSwitch, Call, Goto, NewEngine, Exclusive
  <2>4. CASE /\ cfg.mode # config.mode /\ engine.mode = cfg.mode
             /\ tx' = [at |-> "save", next |-> cfg]
             /\ UNCHANGED <<engineVars, pc, arg, old, stale>>
    BY <2>1, <2>4 DEF engineVars
  <2>5. QED
    BY <1>6, <2>2, <2>3, <2>4 DEF Submit
<1>7. CASE Accepted
  BY <1>7 DEF Accepted, Return, Goto, engineVars
<1>8. CASE ReloadRefused
  BY <1>8 DEF ReloadRefused, CallReload, Call, Goto, engineVars
<1>9. CASE SwitchRefused
  BY <1>9 DEF SwitchRefused, Call, Goto, NewEngine, engineVars
<1>10. CASE Save
  BY <1>10 DEF Save, NoTx, engineVars
<1>11. CASE SaveRefused
  <2>1. /\ tx.at = "save" /\ UNCHANGED <<config, disk, snap, stuck>>
        /\ (SingBox => engine.running) /\ pc["api"] = "idle"
    BY <1>11 DEF SaveRefused, Going, CallsMatch
  <2>2. CASE /\ tx.next.mode = config.mode /\ tx' = [tx EXCEPT !.at = "rollback"]
             /\ CallReload(config) /\ UNCHANGED old
    BY <2>1, <2>2 DEF CallReload, Call, Goto, engineVars
  <2>3. CASE /\ tx' = [tx EXCEPT !.at = "switchback"]
             /\ CallSwitch(config)
    BY <2>1, <2>3 DEF CallSwitch, Call, Goto, NewEngine, Exclusive
  <2>4. CASE /\ tx.next.mode # config.mode /\ engine.mode = config.mode /\ tx' = NoTx
             /\ UNCHANGED <<engineVars, pc, arg, old, stale>>
    BY <2>1, <2>4 DEF NoTx, engineVars
  <2>5. QED
    BY <1>11, <2>2, <2>3, <2>4 DEF SaveRefused
<1>12. CASE SwitchBackRefused
  BY <1>12 DEF SwitchBackRefused, Call, Goto, NewEngine, engineVars
<1>13. CASE RolledBack
  BY <1>13 DEF RolledBack, Return, Goto, NoTx, engineVars
<1>14. CASE Tick
  BY <1>14 DEF Tick, engineVars
<1>15. CASE Maintain
  BY <1>15 DEF Maintain, Reaped, Killed, Call, Goto, engineVars
<1>16. CASE MaintainOther
  BY <1>16 DEF MaintainOther, engineVars
<1>17. CASE Maintained
  BY <1>17 DEF Maintained, Return, Goto, engineVars
<1>18. CASE ChildExits
  BY <1>18 DEF ChildExits, engineVars
<1>19. CASE Crash
  BY <1>19 DEF Crash, NewEngine, engineVars
<1>20. CASE UNCHANGED vars
  BY <1>20 DEF vars, engineVars
<1> HIDE DEF Aimed
<1>21. QED
  BY <1>1, <1>2, <1>3, <1>4, <1>5, <1>6, <1>7, <1>8, <1>9, <1>10, <1>11,
     <1>12, <1>13, <1>14, <1>15, <1>16, <1>17, <1>18, <1>19, <1>20 DEF Next,
     Apply

\* An apply leaves what it was given, wherever it is in doing so.
LEMMA ApplyingStep == EIInv /\ Serves /\ [Next]_vars => Applying'
<1> DEFINE Outside == UNCHANGED <<startup, arg, config, disk, tx, old, snap, stale, stuck>>
<1>1. SUFFICES ASSUME EIInv, Serves, [Next]_vars
               PROVE  Applying'
  OBVIOUS
<1> USE <1>1 DEF EIInv, Types, Holds, Serves, Applying, Stage, Alone, SingBox,
        Fits, EngineOK, CallsMatch, JobHolds, PcOK, ArgOK, ProcOK, Places,
        Spawning, DataOK, TxForms, Going, Aimed, Aim, Writing, Callers
<1>2. ASSUME NEW t \in Callers, Begin(t), Outside PROVE Applying'
  <2>1. ~stuck /\ ~stale /\ SingBox => Stage(t)'
    BY OneCall, <1>2 DEF Begin, Goto, Killed
  <2>2. QED
    BY <1>2, <2>1, OwnStage DEF Apply
<1>3. ASSUME NEW t \in Callers, Clean(t), Outside PROVE Applying'
  <2>1. ~stuck /\ ~stale /\ SingBox => Stage(t)'
    BY OneCall, <1>3 DEF Clean, Goto, Killed
  <2>2. QED
    BY <1>3, <2>1, OwnStage DEF Apply
<1>4. ASSUME NEW t \in Callers, Prepare(t), Outside PROVE Applying'
  <2>1. SUFFICES ASSUME ~stuck, ~stale, SingBox PROVE Stage(t)'
    BY <1>4, OwnStage DEF Apply
  <2>2. /\ pc[t] = "prepare" /\ UNCHANGED <<made, arg>> /\ engine'.desired = engine.desired
        /\ proc' = proc
        /\ pc'[t] = "err" \/ (pc'[t] = "spawn" /\ runtime' = arg[t])
    BY <1>4 DEF Prepare, Goto
  <2>3. Stage(t)
    BY <2>1, <2>2 DEF Applying
  <2>4. QED
    BY <2>2, <2>3 DEF Stage, Fits
<1>5. ASSUME NEW t \in Callers, Spawn(t), Outside PROVE Applying'
  <2>1. SUFFICES ASSUME ~stuck, ~stale, SingBox PROVE Stage(t)'
    BY <1>5, OwnStage DEF Apply
  <2>2. pc[t] = "spawn" /\ UNCHANGED arg /\ engine'.desired = engine.desired
    BY <1>5 DEF Spawn
  <2>3. Stage(t)
    BY <2>1, <2>2 DEF Applying
  <2>4. runtime = arg[t] /\ arg[t].enabled /\ \A u \in Callers : proc[u] # "alive"
    BY <2>2, <2>3 DEF Stage
  <2>5. /\ pc'[t] \in {"err", "ready"}
        /\ \A u \in Callers : proc'[u] = "alive" => u = t /\ made'[u] = arg[t]
    <3>1. CASE pc'[t] = "err" /\ UNCHANGED proc
      BY <2>4, <3>1
    <3>2. CASE /\ pc'[t] = "ready"
               /\ proc' = [proc EXCEPT ![t] = IF runtime = NoSnap THEN "dead" ELSE "alive"]
               /\ made' = [made EXCEPT ![t] = IF runtime = NoSnap THEN arg[t] ELSE runtime]
      BY <2>4, <3>2 DEF MadeOK
    <3>3. QED
      BY <1>5, <3>1, <3>2 DEF Spawn, Goto
  <2>6. QED
    BY <2>2, <2>3, <2>4, <2>5 DEF Stage, Fits
<1>6. ASSUME NEW t \in Callers, Ready(t), Outside PROVE Applying'
  <2>1. SUFFICES ASSUME ~stuck, ~stale, SingBox PROVE Stage(t)'
    BY <1>6, OwnStage DEF Apply
  <2>2. /\ pc[t] = "ready" /\ UNCHANGED <<made, arg>> /\ engine'.desired = engine.desired
        /\ pc'[t] \in {"err", "store"}
        /\ \A u \in Callers : proc'[u] = "alive" => proc[u] = "alive"
    BY <1>6 DEF Ready, Goto
  <2>3. Stage(t)
    BY <2>1, <2>2 DEF Applying
  <2>4. QED
    BY <2>2, <2>3 DEF Stage, Fits
<1>7. ASSUME NEW t \in Callers, Store(t), Outside PROVE Applying'
  <2>1. ~stuck /\ ~stale /\ SingBox => Stage(t)'
    BY OneCall, <1>7 DEF Store, Goto, Killed
  <2>2. QED
    BY <1>7, <2>1, OwnStage DEF Apply
<1>8. ASSUME NEW t \in Callers, Bind(t), Outside PROVE Applying'
  <2>1. ~stuck /\ ~stale /\ SingBox => Stage(t)'
    BY OneCall, <1>8 DEF Bind, Goto, Killed
  <2>2. QED
    BY <1>8, <2>1, OwnStage DEF Apply
<1>9. ASSUME NEW t \in Callers, ProxifyreCall(t), Outside PROVE Applying'
  <2>1. ~stuck /\ ~stale /\ SingBox => Stage(t)'
    BY OneCall, <1>9 DEF ProxifyreCall, Goto, Killed
  <2>2. QED
    BY <1>9, <2>1, OwnStage DEF Apply
<1>10. CASE Status
  <2>1. Lessened /\ UNCHANGED <<stuck, stale, arg, pc>>
    BY <1>10, ReapedLessens DEF Status
  <2>2. SUFFICES ASSUME NEW t \in Callers, ~stuck, ~stale, SingBox', pc[t] \notin {"idle", "begin"}
                 PROVE  Stage(t)'
    BY <2>1
  <2>3. QED
    BY <2>1, <2>2, StagesKept
<1>11. CASE Boot
  BY <1>11 DEF Boot, Call, Goto, engineVars
<1>12. CASE Booted
  BY <1>12 DEF Booted, Return, Goto, NoTx, engineVars
<1>13. ASSUME NEW cfg \in Configs, Submit(cfg) PROVE Applying'
  <2>1. /\ tx.at = "idle" /\ UNCHANGED <<config, disk, snap, stuck>>
        /\ (SingBox => engine.running) /\ pc["api"] = "idle"
    BY <1>13 DEF Submit, Going, CallsMatch
  <2>2. CASE /\ cfg.mode = config.mode /\ tx' = [at |-> "reload", next |-> cfg]
             /\ CallReload(cfg) /\ UNCHANGED old
    BY <2>1, <2>2, ReloadCalls
  <2>3. CASE /\ cfg.mode # config.mode /\ tx' = [at |-> "switch", next |-> cfg]
             /\ CallSwitch(cfg)
    BY <2>1, <2>3 DEF CallSwitch, Call, Goto, NewEngine, Exclusive
  <2>4. CASE /\ cfg.mode # config.mode /\ engine.mode = cfg.mode
             /\ tx' = [at |-> "save", next |-> cfg]
             /\ UNCHANGED <<engineVars, pc, arg, old, stale>>
    BY <2>1, <2>4 DEF engineVars
  <2>5. QED
    BY <1>13, <2>2, <2>3, <2>4 DEF Submit
<1>14. CASE Accepted
  BY <1>14 DEF Accepted, Return, Goto, engineVars
<1>15. CASE ReloadRefused
  BY <1>15, ReloadCalls DEF ReloadRefused, Going
<1>16. CASE SwitchRefused
  BY <1>16 DEF SwitchRefused, Call, Goto, NewEngine, engineVars
<1>17. CASE Save
  BY <1>17 DEF Save, NoTx, engineVars
<1>18. CASE SaveRefused
  <2>1. /\ tx.at = "save" /\ UNCHANGED <<config, disk, snap, stuck>>
        /\ (SingBox => engine.running) /\ pc["api"] = "idle"
    BY <1>18 DEF SaveRefused, Going, CallsMatch
  <2>2. CASE /\ tx.next.mode = config.mode /\ tx' = [tx EXCEPT !.at = "rollback"]
             /\ CallReload(config) /\ UNCHANGED old
    BY <2>1, <2>2, ReloadCalls
  <2>3. CASE /\ tx' = [tx EXCEPT !.at = "switchback"]
             /\ CallSwitch(config)
    BY <2>1, <2>3 DEF CallSwitch, Call, Goto, NewEngine, Exclusive
  <2>4. CASE /\ tx.next.mode # config.mode /\ engine.mode = config.mode /\ tx' = NoTx
             /\ UNCHANGED <<engineVars, pc, arg, old, stale>>
    BY <2>1, <2>4 DEF NoTx, engineVars
  <2>5. QED
    BY <1>18, <2>2, <2>3, <2>4 DEF SaveRefused
<1>19. CASE SwitchBackRefused
  BY <1>19 DEF SwitchBackRefused, Call, Goto, NewEngine, engineVars
<1>20. CASE RolledBack
  BY <1>20 DEF RolledBack, Return, Goto, NoTx, engineVars
<1>21. CASE Tick
  BY <1>21 DEF Tick, engineVars
<1>22. CASE Maintain
  <2>1. Lessened /\ UNCHANGED <<stuck, tx>>
    BY <1>22, ReapedLessens DEF Maintain
  <2>2. CASE UNCHANGED <<pc, arg, stale>>
    <3>1. SUFFICES ASSUME NEW t \in Callers, ~stuck, ~stale, SingBox', pc[t] \notin {"idle", "begin"}
                   PROVE  Stage(t)'
      BY <2>1, <2>2
    <3>2. QED
      BY <2>1, <2>2, <3>1, StagesKept
  <2>3. CASE Call("watcher", snap) /\ stale' = (stale \/ snap # config \/ tx.at # "idle")
    <3>1. ~stale' => pc'["watcher"] = "begin" /\ pc'["api"] = "idle"
      BY <2>1, <2>3 DEF Call, Goto
    <3>2. QED
      BY <3>1 DEF Callers
  <2>4. QED
    BY <1>22, <2>2, <2>3 DEF Maintain
<1>23. CASE MaintainOther
  BY <1>23 DEF MaintainOther, engineVars
<1>24. CASE Maintained
  BY <1>24 DEF Maintained, Return, Goto, engineVars
<1>25. CASE ChildExits
  <2>1. Lessened /\ UNCHANGED <<stuck, stale, arg, pc>>
    BY <1>25, ExitLessens DEF ChildExits
  <2>2. SUFFICES ASSUME NEW t \in Callers, ~stuck, ~stale, SingBox', pc[t] \notin {"idle", "begin"}
                 PROVE  Stage(t)'
    BY <2>1
  <2>3. QED
    BY <2>1, <2>2, StagesKept
<1>26. CASE Crash
  BY <1>26 DEF Crash, NewEngine, engineVars
<1>27. CASE UNCHANGED vars
  BY <1>27 DEF vars, engineVars
<1> HIDE DEF Applying
<1>28. QED
  BY <1>1, <1>2, <1>3, <1>4, <1>5, <1>6, <1>7, <1>8, <1>9, <1>10, <1>11,
     <1>12, <1>13, <1>14, <1>15, <1>16, <1>17, <1>18, <1>19, <1>20, <1>21,
     <1>22, <1>23, <1>24, <1>25, <1>26, <1>27 DEF Next, Apply

\* Between transactions sing-box is as the configuration asks.
LEMMA RestingStep == EIInv /\ Serves /\ [Next]_vars => Resting'
<1>1. SUFFICES ASSUME EIInv, Serves, [Next]_vars
               PROVE  Resting'
  OBVIOUS
<1> USE <1>1 DEF EIInv, Types, Holds, Serves, Resting, Applying, Stage, Alone,
        SingBox, Aimed, Aim, Fits, EngineOK, CallsMatch, PcOK, ArgOK, ProcOK,
        Callers, DataOK, TxForms
<1>2. ASSUME NEW t \in Callers, Apply(t) PROVE Resting'
  BY <1>2, ApplyEffect
<1>3. CASE Status
  BY <1>3, ReapedLessens DEF Status, Lessened
<1>4. CASE Boot
  BY <1>4 DEF Boot, Call, Goto, engineVars
<1>5. CASE Booted
  BY <1>5 DEF Booted, Return, Goto, NoTx, engineVars
<1>6. ASSUME NEW cfg \in Configs, Submit(cfg) PROVE Resting'
  <2>1. /\ tx.at = "idle" /\ UNCHANGED <<config, disk, snap, stuck>>
        /\ (SingBox => engine.running) /\ pc["api"] = "idle"
    BY <1>6 DEF Submit, Going, CallsMatch
  <2>2. CASE /\ cfg.mode = config.mode /\ tx' = [at |-> "reload", next |-> cfg]
             /\ CallReload(cfg) /\ UNCHANGED old
    BY <2>1, <2>2 DEF CallReload, Call, Goto, engineVars
  <2>3. CASE /\ cfg.mode # config.mode /\ tx' = [at |-> "switch", next |-> cfg]
             /\ CallSwitch(cfg)
    BY <2>1, <2>3 DEF CallSwitch, Call, Goto, NewEngine, Exclusive
  <2>4. CASE /\ cfg.mode # config.mode /\ engine.mode = cfg.mode
             /\ tx' = [at |-> "save", next |-> cfg]
             /\ UNCHANGED <<engineVars, pc, arg, old, stale>>
    BY <2>1, <2>4 DEF engineVars
  <2>5. QED
    BY <1>6, <2>2, <2>3, <2>4 DEF Submit
<1>7. CASE Accepted
  BY <1>7 DEF Accepted, Return, Goto, engineVars
<1>8. CASE ReloadRefused
  BY <1>8 DEF ReloadRefused, CallReload, Call, Goto, engineVars
<1>9. CASE SwitchRefused
  BY <1>9 DEF SwitchRefused, Call, Goto, NewEngine, engineVars
<1>10. CASE Save
  BY <1>10 DEF Save, NoTx, engineVars
<1>11. CASE SaveRefused
  <2>1. /\ tx.at = "save" /\ UNCHANGED <<config, disk, snap, stuck>>
        /\ (SingBox => engine.running) /\ pc["api"] = "idle"
    BY <1>11 DEF SaveRefused, Going, CallsMatch
  <2>2. CASE /\ tx.next.mode = config.mode /\ tx' = [tx EXCEPT !.at = "rollback"]
             /\ CallReload(config) /\ UNCHANGED old
    BY <2>1, <2>2 DEF CallReload, Call, Goto, engineVars
  <2>3. CASE /\ tx' = [tx EXCEPT !.at = "switchback"]
             /\ CallSwitch(config)
    BY <2>1, <2>3 DEF CallSwitch, Call, Goto, NewEngine, Exclusive
  <2>4. CASE /\ tx.next.mode # config.mode /\ engine.mode = config.mode /\ tx' = NoTx
             /\ UNCHANGED <<engineVars, pc, arg, old, stale>>
    BY <2>1, <2>4 DEF NoTx, engineVars
  <2>5. QED
    BY <1>11, <2>2, <2>3, <2>4 DEF SaveRefused
<1>12. CASE SwitchBackRefused
  BY <1>12 DEF SwitchBackRefused, Call, Goto, NewEngine, engineVars
<1>13. CASE RolledBack
  <2>1. /\ tx.at \in {"rollback", "restart", "switchback"} /\ tx'.at = "idle" /\ config' = config
        /\ pc["api"] \in {"ok", "err"} /\ (~stuck' => ~stuck /\ pc["api"] = "ok")
        /\ UNCHANGED <<engine, proc, made, runtime, stale>>
        /\ pc'["watcher"] = pc["watcher"]
    BY <1>13 DEF RolledBack, Return, Goto, NoTx, engineVars
  <2>2. QED
    BY <2>1
<1>14. CASE Tick
  BY <1>14 DEF Tick, engineVars
<1>15. CASE Maintain
  BY <1>15 DEF Maintain, Reaped, Killed, Call, Goto, engineVars
<1>16. CASE MaintainOther
  BY <1>16 DEF MaintainOther, engineVars
<1>17. CASE Maintained
  BY <1>17 DEF Maintained, Return, Goto, engineVars
<1>18. CASE ChildExits
  BY <1>18, ExitLessens DEF ChildExits, Lessened
<1>19. CASE Crash
  BY <1>19 DEF Crash, NewEngine, engineVars
<1>20. CASE UNCHANGED vars
  BY <1>20 DEF vars, engineVars
<1> HIDE DEF Resting
<1>21. QED
  BY <1>1, <1>2, <1>3, <1>4, <1>5, <1>6, <1>7, <1>8, <1>9, <1>10, <1>11,
     <1>12, <1>13, <1>14, <1>15, <1>16, <1>17, <1>18, <1>19, <1>20 DEF Next,
     Apply

\* Core starts with nothing applied.
LEMMA InitServes == Init => Serves
BY DEF Init, Serves, Going, SingBox, Alone, Aimed, Aim, Applying, Resting, NewEngine, Callers

\* Every step preserves what the steps of a call rely on.
LEMMA NextServes == EIInv /\ Serves /\ [Next]_vars => Serves'
BY GoingStep, AloneStep, AimedStep, ApplyingStep, RestingStep DEF Serves

\* The two invariants hold together.
LEMMA EngineIsInv == Spec => [](EIInv /\ Serves)
BY InitInv, NextInv, InitServes, NextServes, PTL DEF Spec

----------------------------------------------------------------------------
\* A call is in progress exactly while its caller waits for it, a switch has
\* the engine alone, and every apply leaves what it was given, for any
\* configurations and number of faults.
THEOREM EngineInvariant == Spec => []EInv
<1>1. EIInv /\ Serves => EInv
  BY DEF EIInv, Types, Holds, Serves, EngineOK, FaultsOK, ProcOK, DataOK, TxForms, CallsMatch,
         EInv, Writing
<1>2. QED
  BY EngineIsInv, <1>1, PTL

\* No sing-box process escapes its engine, however calls overlap.
THEOREM NoProcessEscapes == Spec => []NoStrayChild
<1>1. EIInv => NoStrayChild
  BY DEF EIInv, Types, Holds, JobHolds, ProxifyreIsBare, NoStrayChild, Spawning
<1>2. QED
  BY InitInv, NextInv, <1>1, PTL DEF Spec

\* Between transactions the engine in place is the configured one and runs
\* what is saved, through refusals, rollbacks, switches and crashes.
THEOREM EngineRunsTheConfiguration == Spec => []EngineServesConfig
<1>1. Serves => EngineServesConfig
  BY DEF Serves, Going, Aimed, Aim, Resting, Fits, Quiet, EngineServesConfig
<1>2. QED
  BY EngineIsInv, <1>1, PTL

----------------------------------------------------------------------------
(* The health supervisor.                                                    *)

\* A probe has one of the outcomes stabilized_state is given.
LEMMA CandidateType ==
  ASSUME NEW profile, NEW s
  PROVE  Candidate(profile, s) \in {"offline", "auth_failed", "protocol_error", "degraded", "healthy"}
BY DEF Candidate, Negotiated

\* record_probe leaves an entry of the profile that was probed, in which the
\* counters fit the state, and moves between healthy and failed by way of
\* another state.
LEMMA RecordedFacts ==
  ASSUME HInv, NEW p \in Proxies, NEW candidate \in States, NEW profile \in Profiles \cup {Absent}
  PROVE  LET r == Recorded(p, candidate, profile)
         IN  /\ r \in Entries /\ r.of = profile
             /\ r.state = "healthy" => r.failures = 0
             /\ r.state \in Failing => r.successes = 0
             /\ health[p] # Absent =>
                  /\ health[p].state = "healthy" => r.state \notin Failing
                  /\ health[p].state \in Failing => r.state # "healthy"
<1> DEFINE e == Entry(p)
           s == IF Successful(candidate) THEN Bump(e.successes) ELSE 0
           f == IF Successful(candidate) THEN 0 ELSE Bump(e.failures)
           state == Stabilized(e.state, candidate, s, f)
<1>1. /\ e.state \in States /\ e.successes \in 0..2 /\ e.failures \in 0..2
      /\ e.state = "healthy" => e.failures = 0
      /\ e.state \in Failing => e.successes = 0
      /\ health[p] # Absent => health[p].state = e.state
  <2>1. health[p] # Absent => health[p] \in Entries
    BY DEF HInv, HTypeOK
  <2>2. CASE health[p] = Absent
    BY <2>2 DEF Entry, Unknown, States, Failing
  <2>3. CASE health[p] # Absent
    BY <2>1, <2>3 DEF HInv, RunsCounted, Entry, Entries
  <2> QED
    BY <2>2, <2>3
<1>2. /\ Recorded(p, candidate, profile) = [state |-> state, successes |-> s, failures |-> f, of |-> profile]
  BY DEF Recorded
<1> HIDE DEF e
<1>3. s \in 0..2 /\ f \in 0..2
  BY <1>1 DEF Bump
<1>4. /\ state \in States
      /\ state = "healthy" => f = 0
      /\ state \in Failing => s = 0
      /\ e.state = "healthy" => state \notin Failing
      /\ e.state \in Failing => state # "healthy"
  BY <1>1 DEF Stabilized, Bump, Successful, Failing, States
<1> HIDE DEF s, f, state
<1> QED
  BY <1>1, <1>2, <1>3, <1>4 DEF Entries

\* mark_checking makes an entry where there is none and changes no state but
\* the unknown one.
LEMMA CheckingFacts ==
  ASSUME NEW e \in Entries \cup {Absent}
  PROVE  /\ Checking(e) \in Entries /\ Checking(e) # Absent
         /\ e # Absent => /\ Checking(e).successes = e.successes /\ Checking(e).failures = e.failures
                          /\ \/ Checking(e).state = e.state
                             \/ e.state = "unknown" /\ Checking(e).state = "checking"
         /\ e = Absent => Checking(e).state = "checking"
<1>1. CASE e = Absent
  BY <1>1, AbsentAssumption DEF Checking, Unknown, Entries, States
<1>2. CASE e # Absent
  <2>1. e \in Entries
    BY <1>2
  <2>2. Checking(e) = [e EXCEPT !.state = IF e.state = "unknown" THEN "checking" ELSE e.state]
    BY <1>2 DEF Checking
  <2> QED
    BY <1>2, <2>1, <2>2, AbsentAssumption DEF Entries, States
<1> QED
  BY <1>1, <1>2

\* A change of the configuration starts an entry anew, drops it or keeps it.
LEMMA ResetFacts ==
  ASSUME HInv, NEW cfg, ResetHealth(cfg)
  PROVE  /\ health' \in [Proxies -> Entries \cup {Absent}]
         /\ \A p \in Proxies : health'[p] = Absent \/ health'[p] = Unknown \/ health'[p] = health[p]
BY DEF ResetHealth, HInv, HTypeOK, Unknown, Entries, States

----------------------------------------------------------------------------
(* Every step preserves HInv.                                                *)

\* The invariant holds initially.
LEMMA InitHInv == HInit => HInv
BY AbsentAssumption DEF HInit, HInv, HTypeOK, ProbesOfSnapshot, RunsCounted, Settling, Configurations

\* The snapshot is of the configuration published.
LEMMA ReadHInv == ASSUME HInv, TickRead PROVE HInv'
<1> USE DEF TickRead, HInv
<1>1. HTypeOK'
  BY DEF HTypeOK, Configurations
<1>2. ProbesOfSnapshot' /\ RunsCounted'
  BY DEF ProbesOfSnapshot, RunsCounted
<1>3. Settling'
  BY DEF Settling, Probed, HTypeOK
<1> QED
  BY <1>1, <1>2, <1>3

\* mark_checking leaves entries for the proxies of the snapshot only.
LEMMA StartHInv == ASSUME HInv, TickStart PROVE HInv'
<1> USE DEF TickStart, HInv
<1>1. \A p \in Proxies : health[p] \in Entries \cup {Absent}
  BY DEF HTypeOK
<1>2. Probed(snapshot) \subseteq Proxies
  BY DEF Probed
<1>3. \A p \in Proxies : health'[p] = IF p \in Probed(snapshot) THEN Checking(health[p]) ELSE Absent
  OBVIOUS
<1>4. HTypeOK'
  BY <1>1, <1>2, CheckingFacts DEF HTypeOK
<1>5. ProbesOfSnapshot'
  BY DEF ProbesOfSnapshot, Probed
<1>6. RunsCounted'
  BY <1>1, <1>3, CheckingFacts DEF RunsCounted, Failing
<1>7. Settling'
  <2>1. SUFFICES ASSUME settled PROVE Settling'
    BY DEF Settling
  <2>2. \A p \in Proxies : snapshot[p] = IF p \in Probed(proxies) THEN proxies[p] ELSE Absent
    BY <2>1 DEF Settling
  <2>3. Probed(snapshot) = Probed(proxies)
    BY <2>2 DEF Probed
  <2>4. \A p \in Proxies : IF p \in Probed(proxies) THEN health'[p] # Absent /\ p \in tasks'
                           ELSE health'[p] = Absent
    BY <1>1, <1>3, <2>3, CheckingFacts
  <2> QED
    BY <2>2, <2>4 DEF Settling, Probed
<1> QED
  BY <1>4, <1>5, <1>6, <1>7

\* A result is recorded for the profile of the snapshot.
LEMMA RecordHInv == ASSUME HInv, NEW p \in Proxies, Record(p) PROVE HInv'
<1>1. PICK candidate \in {Candidate(snapshot[p], server[p]), "offline"} :
        health' = [health EXCEPT ![p] = Recorded(p, candidate, snapshot[p])]
  BY DEF Record
<1> DEFINE r == Recorded(p, candidate, snapshot[p])
<1>2. candidate \in States /\ snapshot[p] \in Profiles \cup {Absent}
  BY CandidateType DEF States, HInv, HTypeOK, Configurations
<1>3. /\ r \in Entries /\ r.of = snapshot[p]
      /\ r.state = "healthy" => r.failures = 0
      /\ r.state \in Failing => r.successes = 0
  BY <1>2, RecordedFacts
<1> HIDE DEF r
<1>4. health' = [health EXCEPT ![p] = r]
  BY <1>1 DEF r
<1>5. /\ p \in tasks /\ tasks' = tasks \ {p}
      /\ UNCHANGED <<proxies, pending, tick, snapshot, settled>>
  BY DEF Record
<1>6. HTypeOK'
  BY <1>3, <1>4, <1>5 DEF HInv, HTypeOK
<1>7. ProbesOfSnapshot'
  BY <1>5 DEF HInv, ProbesOfSnapshot, Probed
<1>8. RunsCounted'
  BY <1>3, <1>4, <1>5 DEF HInv, HTypeOK, RunsCounted
<1>9. Settling'
  <2>1. SUFFICES ASSUME settled PROVE Settling'
    BY <1>5 DEF Settling
  <2>2. tick = "probing" /\ p \in Probed(snapshot)
    BY <1>5 DEF HInv, ProbesOfSnapshot
  <2>3. \A q \in Proxies : snapshot[q] = IF q \in Probed(proxies) THEN proxies[q] ELSE Absent
    BY <2>1, <2>2 DEF HInv, Settling
  <2>4. p \in Probed(proxies) /\ r.of = proxies[p]
    BY <1>3, <2>2, <2>3 DEF Probed
  <2>5. \A q \in Proxies : health'[q] = IF q = p THEN r ELSE health[q]
    BY <1>4 DEF HInv, HTypeOK
  <2>6. r # Absent
    BY <1>3, AbsentAssumption
  <2> QED
    BY <1>5, <2>1, <2>2, <2>3, <2>4, <2>5, <2>6 DEF HInv, Settling, Probed
<1> QED
  BY <1>6, <1>7, <1>8, <1>9 DEF HInv

\* The tick ends when every probe has been joined.
LEMMA EndHInv == ASSUME HInv, TickEnd PROVE HInv'
<1> USE DEF TickEnd, HInv
<1>1. HTypeOK'
  BY DEF HTypeOK, Configurations
<1>2. ProbesOfSnapshot' /\ RunsCounted'
  BY DEF ProbesOfSnapshot, RunsCounted
<1>3. Settling'
  BY DEF Settling, Probed
<1> QED
  BY <1>1, <1>2, <1>3

\* reset_changed_proxy_health before the publication.
LEMMA ResetHInv == ASSUME HInv, Reset PROVE HInv'
<1>1. ResetHealth(pending')
  BY DEF Reset
<1>2. pending' \in Configurations
  BY DEF Reset, HInv, HTypeOK, Configurations
<1>3. ~settled' /\ UNCHANGED <<proxies, tick, snapshot, tasks>> /\ settled' \in BOOLEAN
  BY DEF Reset
<1>4. HTypeOK'
  BY <1>1, <1>2, <1>3, ResetFacts DEF HInv, HTypeOK
<1>5. RunsCounted'
  BY <1>1, ResetFacts DEF HInv, RunsCounted, Unknown, Failing
<1> QED
  BY <1>3, <1>4, <1>5 DEF HInv, ProbesOfSnapshot, Probed, Settling

\* The publication, and what servers do.
LEMMA WorldHInv == ASSUME HInv, Publish \/ ServerChanges PROVE HInv'
<1>1. CASE Publish
  <2>1. ~settled /\ pending \in Configurations
    BY <1>1 DEF Publish, HInv, HTypeOK, Settling
  <2>2. /\ proxies' = pending /\ pending' = Absent
        /\ UNCHANGED <<health, tick, snapshot, tasks, settled>>
    BY <1>1 DEF Publish
  <2> QED
    BY <2>1, <2>2 DEF HInv, HTypeOK, ProbesOfSnapshot, Probed, RunsCounted, Settling
<1>2. CASE ServerChanges
  BY <1>2 DEF ServerChanges, HInv, HTypeOK, ProbesOfSnapshot, Probed, RunsCounted, Settling
<1> QED
  BY <1>1, <1>2

\* Every step preserves the invariant.
LEMMA NextHInv == HInv /\ [HNext]_hvars => HInv'
<1> SUFFICES ASSUME HInv, [HNext]_hvars PROVE HInv'
  OBVIOUS
<1>1. CASE UNCHANGED hvars
  BY <1>1 DEF hvars, HInv, HTypeOK, ProbesOfSnapshot, Probed, RunsCounted, Settling
<1>2. CASE HNext
  BY <1>2, ReadHInv, StartHInv, RecordHInv, EndHInv, ResetHInv, WorldHInv DEF HNext
<1> QED
  BY <1>1, <1>2

----------------------------------------------------------------------------
(* The theorems.                                                             *)

\* The invariant, for any proxies and profiles: probes belong to the tick's
\* snapshot, counters fit states, and what a tick without a change leaves is of
\* the configuration published.
THEOREM HealthInvariant == HSpec => []HInv
<1>1. HInit => HInv
  BY InitHInv
<1>2. HInv /\ [HNext]_hvars => HInv'
  BY NextHInv
<1> QED
  BY <1>1, <1>2, PTL DEF HSpec

\* One tick after the last change, every probed endpoint has a result, it is
\* of the profile now configured, and nothing else has one, however late the
\* results of replaced endpoints came (mark_checking, record_probe,
\* reset_changed_proxy_health).
THEOREM HealthAlwaysSettles == HSpec => []HealthSettles
<1>1. HInv => HealthSettles
  BY DEF HInv, ProbesOfSnapshot, Settling, HealthSettles
<1> QED
  BY <1>1, HealthInvariant, PTL

\* A step changes a state only as the hysteresis of stabilized_state allows:
\* a healthy proxy is not failed by one probe, a failed one not healthy.
LEMMA StepIsStable ==
  ASSUME HInv, [HNext]_hvars,
         NEW p \in Proxies, health[p] # Absent, health'[p] # Absent
  PROVE  /\ health[p].state = "healthy" => health'[p].state \notin Failing
         /\ health[p].state \in Failing => health'[p].state # "healthy"
<1>1. health[p] \in Entries
  BY DEF HInv, HTypeOK
<1>2. CASE TickStart
  <2>1. health'[p] = Checking(health[p])
    BY <1>2 DEF TickStart
  <2> QED
    BY <1>1, <2>1, CheckingFacts DEF Failing
<1>3. ASSUME NEW q \in Proxies, Record(q)
      PROVE  /\ health[p].state = "healthy" => health'[p].state \notin Failing
             /\ health[p].state \in Failing => health'[p].state # "healthy"
  <2>1. PICK candidate \in {Candidate(snapshot[q], server[q]), "offline"} :
          health' = [health EXCEPT ![q] = Recorded(q, candidate, snapshot[q])]
    BY <1>3 DEF Record
  <2>2. candidate \in States /\ snapshot[q] \in Profiles \cup {Absent}
    BY CandidateType DEF States, HInv, HTypeOK, Configurations
  <2>3. CASE p = q
    <3>1. health'[p] = Recorded(p, candidate, snapshot[p])
      BY <2>1, <2>3 DEF HInv, HTypeOK
    <3> QED
      BY <2>2, <2>3, <3>1, RecordedFacts
  <2>4. CASE p # q
    BY <2>1, <2>4 DEF Failing
  <2> QED
    BY <2>3, <2>4
<1>4. CASE Reset
  <2>1. health'[p] = Unknown \/ health'[p] = health[p]
    BY <1>4, ResetFacts DEF Reset
  <2> QED
    BY <2>1 DEF Unknown, Failing
<1>5. CASE UNCHANGED health
  BY <1>5 DEF Failing
<1> QED
  BY <1>2, <1>3, <1>4, <1>5 DEF HNext, TickRead, TickEnd, Publish, ServerChanges, hvars

\* No single probe flips a reported state, for any interleaving of ticks,
\* transactions and servers.
THEOREM HealthStaysStable == HSpec => HealthIsStable
<1>1. HInv /\ [HNext]_hvars =>
        [\A p \in Proxies :
           health[p] # Absent /\ health'[p] # Absent =>
             /\ health[p].state = "healthy" => health'[p].state \notin Failing
             /\ health[p].state \in Failing => health'[p].state # "healthy"]_hvars
  BY StepIsStable
<1> QED
  BY <1>1, HealthInvariant, PTL DEF HSpec, HealthIsStable
=============================================================================
