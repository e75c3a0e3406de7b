-------------------------- MODULE ProxySecretsProofs --------------------------
(***************************************************************************)
(* For any proxies, passwords, requests at once and number of faults, and    *)
(* imports that keep identifiers: the inductive invariant of ProxySecrets,  *)
(* that no credential a configuration refers to is overwritten or removed,  *)
(* that no other is left in the store, and that a start keeps them.          *)
(***************************************************************************)
EXTENDS ProxySecrets, TLAPS

USE DEF history

\* A configuration whose references are made from its own identifiers has
\* one owner for each.
LEMMA OwnerIsSelf ==
  ASSUME NEW c, \A p \in Proxies : OwnRef(c[p], p)
  PROVE  /\ RefsOf(c) = {p \in Proxies : c[p].ref = p}
         /\ \A p \in Proxies : c[p].ref = p => Owner(c, p) = p
BY NamesAssumption DEF OwnRef, RefsOf, Owner

\* Hydration keeps references own, and writes what was given under them.
LEMMA HydratedOwn ==
  ASSUME TypeOK, NEW c \in Config, \A p \in Proxies : OwnRef(c[p], p)
  PROVE  /\ Readable(c) => Hydrated(c) \in Config
         /\ \A p \in Proxies : OwnRef(Hydrated(c)[p], p)
         /\ Given(c) = {p \in Proxies : c[p].pw # None}
         /\ \A p \in Given(c) : Hydrated(c)[p].ref = p /\ Hydrated(c)[p].pw = c[p].pw
         /\ \A p \in Proxies \ Given(c) :
              Hydrated(c)[p].ref = p => Hydrated(c)[p].pw = store[p]
<1> USE NamesAssumption, TornAssumption DEF OwnRef, Config, Entry, Absent
<1>1. Given(c) = {p \in Proxies : c[p].pw # None}
  BY DEF Given, RefFor
<1>2. ASSUME NEW p \in Proxies
      PROVE  /\ Readable(c) => Hydrated(c)[p] \in Entry
             /\ OwnRef(Hydrated(c)[p], p)
             /\ c[p].pw # None => Hydrated(c)[p].ref = p /\ Hydrated(c)[p].pw = c[p].pw
             /\ c[p].pw = None /\ Hydrated(c)[p].ref = p => Hydrated(c)[p].pw = store[p]
  <2>1. CASE c[p].pw # None
    <3>1. Hydrated(c)[p] = [c[p] EXCEPT !.ref = RefFor(c[p], p)]
      BY <2>1 DEF Hydrated
    <3>2. RefFor(c[p], p) = p
      BY DEF RefFor
    <3> QED
      BY <2>1, <3>1, <3>2
  <2>2. CASE c[p].pw = None /\ c[p].ref = p
    <3>1. Hydrated(c)[p] = [c[p] EXCEPT !.pw = store[p]]
      BY <2>2 DEF Hydrated
    <3>2. Readable(c) => store[p] \in Passwords \cup {None}
      BY <2>2 DEF TypeOK, Readable
    <3> QED
      BY <2>2, <3>1, <3>2
  <2>3. CASE c[p].pw = None /\ c[p].ref = None
    BY <2>3 DEF Hydrated
  <2> QED
    BY <2>1, <2>2, <2>3
<1>3. Hydrated(c) = [p \in Proxies |-> Hydrated(c)[p]]
  BY DEF Hydrated
<1>4. Readable(c) => Hydrated(c) \in Config
  BY <1>2, <1>3
<1> QED
  BY <1>1, <1>2, <1>4

\* A request's record and its candidate stay of their types when it enters a
\* point, leaves, or only moves on.
LEMMA EnterType ==
  ASSUME TypeOK, NEW h \in Handlers,
         NEW at \in {"look", "put", "apply"}, NEW kind \in Kinds, NEW p \in Proxies \cup {None},
         NEW old \in Entry, NEW refs \in SUBSET Proxies, NEW c \in Config,
         Enter(h, at, kind, p, old, refs, c)
  PROVE  task' \in [Handlers -> Task] /\ want' \in [Handlers -> Config]
BY DEF TypeOK, Enter, Task

\* The empty entry and the empty configuration are of their types.
LEMMA EmptyType == Absent \in Entry /\ Empty \in Config
BY DEF Absent, Empty, Entry, Config

\* A request that leaves keeps its record and candidate of their types.
LEMMA LeaveType ==
  ASSUME TypeOK, NEW h \in Handlers, Leave(h)
  PROVE  task' \in [Handlers -> Task] /\ want' \in [Handlers -> Config]
BY EmptyType DEF TypeOK, Leave, Task, NoTask, Kinds

\* So does one that only moves on, with the references it has written.
LEMMA MovesType ==
  ASSUME NEW t \in Task, NEW at \in {"put", "apply", "sweep", "undo", "tidy"}, NEW R \in SUBSET Proxies
  PROVE  [t EXCEPT !.at = at] \in Task /\ [t EXCEPT !.at = at, !.refs = R] \in Task
BY DEF Task

\* What is written, removed or restored leaves a store.
LEMMA StoreTypes ==
  ASSUME TypeOK, NEW c, NEW R
  PROVE  /\ (\A r \in R : c[Owner(c, r)].pw \in Passwords \cup {None})
            => Written(c, R) \in [Proxies -> Passwords \cup {None, Torn}]
         /\ Without(R) \in [Proxies -> Passwords \cup {None, Torn}]
         /\ Restored(c) \in [Proxies -> Passwords \cup {None, Torn}]
<1> USE DEF TypeOK
<1>1. ASSUME NEW r \in RefsOf(cfg) PROVE cfg[Owner(cfg, r)].pw \in Passwords \cup {None}
  <2>1. Owner(cfg, r) \in Proxies
    BY DEF RefsOf, Owner
  <2> QED
    BY <2>1 DEF Config, Entry
<1>2. Restored(c) \in [Proxies -> Passwords \cup {None, Torn}]
  BY <1>1 DEF Restored
<1> QED
  BY <1>2 DEF Written, Without

\* What a transaction is about to write has its references in its candidate.
LEMMA ToWriteOwn ==
  ASSUME SInv, NEW h \in Handlers, task[h].at = "put"
  PROVE  /\ (Import(h) => Readable(want[h])) => Target(h) \in Config
         /\ \A p \in Proxies : OwnRef(Target(h)[p], p)
         /\ ToWrite(h) \subseteq Proxies
         /\ \A p \in ToWrite(h) : /\ Target(h)[p].ref = p
                                  /\ Target(h)[p].pw \in Passwords \cup {None}
                                  /\ Owner(Target(h), p) = p
<1>1. want[h] \in Config /\ (\A p \in Proxies : OwnRef(want[h][p], p)) /\ TypeOK
  BY DEF SInv, TypeOK, OwnRefs
<1>2. \A p \in Proxies : want[h][p].pw \in Passwords \cup {None}
  BY <1>1 DEF Config, Entry
<1>3. CASE Import(h)
  <2>1. Target(h) = Hydrated(want[h]) /\ ToWrite(h) = Given(want[h])
    BY <1>3 DEF Target, ToWrite
  <2>2. \A p \in Given(want[h]) : Hydrated(want[h])[p].pw = want[h][p].pw /\ p \in Proxies
    BY <1>1, HydratedOwn
  <2> QED
    BY <1>1, <1>2, <1>3, <2>1, <2>2, HydratedOwn, OwnerIsSelf
<1>4. CASE ~Import(h)
  <2>1. Target(h) = want[h] /\ ToWrite(h) = task[h].refs
    BY <1>4 DEF Target, ToWrite
  <2>2. ToWrite(h) = {task[h].id} /\ task[h].id \in Proxies /\ want[h][task[h].id].ref = task[h].id
    BY <1>4, <2>1 DEF SInv, OneProxy
  <2> QED
    BY <1>1, <1>2, <1>4, <2>1, <2>2, OwnerIsSelf
<1> QED
  BY <1>3, <1>4

\* What Begin enters with.
LEMMA CandidateType ==
  ASSUME TypeOK, NEW p \in Proxies, NEW e \in Entry
  PROVE  [cfg EXCEPT ![p] = IF e.pw = None THEN e ELSE Proxy(RefFor(e, p), e.pw)] \in Config
BY DEF TypeOK, Config, Entry, Proxy, RefFor

\* Entering a transaction with Begin keeps the types.
LEMMA BeginType ==
  ASSUME TypeOK, NEW h \in Handlers, NEW kind \in Kinds, NEW p \in Proxies, NEW e \in Entry,
         Begin(h, kind, p, e)
  PROVE  TypeOK'
<1> DEFINE c == [cfg EXCEPT ![p] = IF e.pw = None THEN e ELSE Proxy(RefFor(e, p), e.pw)]
           refs == IF e.pw = None THEN {} ELSE {RefFor(e, p)}
           at == IF e.pw = None THEN "apply" ELSE "put"
<1>1. Enter(h, at, kind, p, cfg[p], refs, c)
  BY DEF Begin
<1>2. refs \in SUBSET Proxies /\ at \in {"look", "put", "apply"} /\ cfg[p] \in Entry
  BY DEF RefFor, Entry, TypeOK, Config
<1>3. c \in Config
  BY CandidateType
<1>4. task' \in [Handlers -> Task] /\ want' \in [Handlers -> Config]
  <2> HIDE DEF c, refs, at
  <2> QED
    BY <1>1, <1>2, <1>3, EnterType
<1> QED
  BY <1>4 DEF Begin, TypeOK

\* A request writes files of references only.
LEMMA WritingType ==
  ASSUME SInv, NEW h \in Handlers
  PROVE  Writing(h) \subseteq Proxies
<1>1. task[h].old.ref \in Proxies \cup {None} /\ RefsOf(cfg) \subseteq Proxies
  BY DEF SInv, RefsOf, TypeOK, Task, Config, Entry
<1> QED
  BY <1>1, ToWriteOwn DEF Writing

\* An entry stays one when its password is replaced.
LEMMA PasswordEntry ==
  ASSUME NEW e \in Entry, NEW pw \in Passwords \cup {None}
  PROVE  [e EXCEPT !.pw = pw] \in Entry
BY SMTT(30) DEF Entry

\* Every step keeps the types.
LEMMA TypePreserved == ~Renames /\ SInv /\ [Next]_vars => TypeOK'
<1> SUFFICES ASSUME ~Renames, SInv, [Next]_vars
             PROVE  TypeOK'
  OBVIOUS
<1>0. TypeOK /\ OwnRefs /\ OneProxy
  BY DEF SInv
<1> USE <1>0, FaultsAssumption
<1>1. ASSUME NEW h \in Handlers, NEW p \in Proxies, NEW pw \in Passwords \cup {None}, Create(h, p, pw) PROVE TypeOK'
  <2>1. Proxy(None, pw) \in Entry
    BY DEF Proxy, Entry
  <2> QED
    BY <1>1, <2>1, BeginType DEF Create, Kinds
<1>2. ASSUME NEW h \in Handlers, NEW p \in Proxies, NEW pw \in Passwords \cup {None}, Discover(h, p, pw) PROVE TypeOK'
  <2>1. Proxy(None, pw) \in Entry
    BY DEF Proxy, Entry
  <2> QED
    BY <1>2, <2>1, BeginType DEF Discover, Kinds
<1>3. ASSUME NEW h \in Handlers, NEW p \in Proxies, NEW pw \in Passwords \cup {None}, Update(h, p, pw) PROVE TypeOK'
  <2>1. (IF pw = None THEN cfg[p] ELSE [cfg[p] EXCEPT !.pw = pw]) \in Entry
    <3>1. cfg[p] \in Entry
      BY <1>0 DEF TypeOK, Config
    <3> HIDE <1>0
    <3> QED
      BY ONLY <3>1, PasswordEntry
  <2> QED
    BY <1>3, <2>1, BeginType DEF Update, Kinds
<1>4. ASSUME NEW h \in Handlers, NEW p \in Proxies, Clear(h, p) PROVE TypeOK'
  <2>1. Proxy(None, None) \in Entry
    BY DEF Proxy, Entry
  <2> QED
    BY <1>4, <2>1, BeginType DEF Clear, Kinds
<1>5. ASSUME NEW h \in Handlers, NEW p \in Proxies, LookToDelete(h, p) PROVE TypeOK'
  <2>1. cfg[p] \in Entry
    BY DEF TypeOK, Config
  <2> QED
    BY <1>5, <2>1, EnterType, EmptyType DEF LookToDelete, Kinds, TypeOK
<1>6. ASSUME NEW h \in Handlers, Delete(h) PROVE TypeOK'
  <2>1. CASE cfg[task[h].id].there
    <3>1. task[h].id \in Proxies /\ task[h].old \in Entry
      BY <1>6 DEF Delete, SInv, OneProxy, Import, TypeOK, Task
    <3>2. [cfg EXCEPT ![task[h].id] = Absent] \in Config
      BY <3>1, EmptyType DEF TypeOK, Config
    <3> QED
      BY <1>6, <2>1, <3>1, <3>2, EnterType DEF Delete, Kinds, TypeOK
  <2>2. CASE ~cfg[task[h].id].there
    BY <1>6, <2>2, LeaveType DEF Delete, TypeOK
  <2> QED
    BY <2>1, <2>2
<1>7. ASSUME NEW h \in Handlers, NEW p \in Proxies, NEW pw \in Passwords \cup {None}, LookToMerge(h, p, pw) PROVE TypeOK'
  <2> DEFINE c == [cfg EXCEPT ![p] = IF cfg[p].there /\ pw = None THEN cfg[p] ELSE Proxy(None, pw)]
  <2>1. c \in Config
    BY DEF TypeOK, Config, Entry, Proxy
  <2>2. Enter(h, "look", "import", None, Absent, {}, c)
    BY <1>7 DEF LookToMerge
  <2>3. task' \in [Handlers -> Task] /\ want' \in [Handlers -> Config]
    <3> HIDE DEF c
    <3> QED
      BY <2>1, <2>2, EnterType, EmptyType DEF Kinds
  <2> QED
    BY <1>7, <2>3 DEF LookToMerge, TypeOK
<1>8. ASSUME NEW h \in Handlers, Merge(h) PROVE TypeOK'
  <2>1. [task[h] EXCEPT !.at = "put"] \in Task
    BY Zenon, MovesType DEF TypeOK
  <2> QED
    BY <1>8, <2>1 DEF Merge, TypeOK
<1>9. ASSUME NEW h \in Handlers, PutConfig(h) PROVE TypeOK'
  <2>1. PICK c \in Documents : Enter(h, "put", "import", None, Absent, {}, c)
    BY <1>9 DEF PutConfig
  <2>2. c \in Config
    BY DEF Documents
  <2> QED
    BY <1>9, <2>1, <2>2, EnterType, EmptyType DEF PutConfig, Kinds, TypeOK
<1>10. ASSUME NEW h \in Handlers, Put(h) PROVE TypeOK'
  <2>1. Target(h) \in Config /\ ToWrite(h) \in SUBSET Proxies
    BY <1>10, ToWriteOwn DEF Put
  <2>2. [task[h] EXCEPT !.at = "apply", !.refs = ToWrite(h)] \in Task
    BY Zenon, <2>1, MovesType DEF TypeOK
  <2>3. Written(Target(h), ToWrite(h)) \in [Proxies -> Passwords \cup {None, Torn}]
    BY <1>10, ToWriteOwn, StoreTypes DEF Put
  <2> QED
    BY <1>10, <2>1, <2>2, <2>3 DEF Put, TypeOK
<1>11. ASSUME NEW h \in Handlers, PutRefused(h) PROVE TypeOK'
  <2>1. task[h].refs \in SUBSET Proxies
    BY DEF TypeOK, Task
  <2>2. store' \in [Proxies -> Passwords \cup {None, Torn}]
    BY <1>11, StoreTypes DEF PutRefused, TypeOK
  <2>3. faults' \in 0..MaxFaults
    BY <1>11 DEF PutRefused, Fault, TypeOK
  <2>4. Leave(h) /\ UNCHANGED <<cfg, disk, up, leaked>> /\ spoiled' = spoiled \cup task[h].refs
    BY <1>11 DEF PutRefused, Aborts
  <2> QED
    BY <2>1, <2>2, <2>3, <2>4, LeaveType DEF TypeOK
<1>12. ASSUME NEW h \in Handlers, HydrateRefused(h) PROVE TypeOK'
  <2>1. store' \in [Proxies -> Passwords \cup {None, Torn}]
    BY <1>12, StoreTypes DEF HydrateRefused
  <2> QED
    BY <1>12, <2>1, LeaveType DEF HydrateRefused, Aborts, TypeOK, Fault
<1>13. ASSUME NEW h \in Handlers, Commit(h) PROVE TypeOK'
  <2>1. Bare(want[h]) \in Config /\ want[h] \in Config
    BY SMTT(30) DEF Bare, TypeOK, Config, Entry
  <2>2. /\ [task[h] EXCEPT !.at = "sweep"] \in Task
        /\ [task[h] EXCEPT !.at = "tidy"] \in Task
    BY Zenon, MovesType DEF TypeOK
  <2>3. task' \in [Handlers -> Task] /\ want' \in [Handlers -> Config]
    BY <1>13, <2>1, <2>2, LeaveType, EmptyType DEF Commit, TypeOK
  <2>4. leaked' \in SUBSET Proxies
    <3>1. CASE task[h].kind = "delete"
      <4>1. cfg[task[h].id].ref \in Proxies \cup {None}
        BY <1>13, <3>1 DEF Commit, OneProxy, Import, TypeOK, Config, Entry
      <4> QED
        BY <1>13, <3>1, <4>1 DEF Commit, TypeOK
    <3> QED
      BY <1>13, <3>1 DEF Commit, TypeOK
  <2> QED
    BY <1>13, <2>1, <2>3, <2>4 DEF Commit, TypeOK
<1>14. ASSUME NEW h \in Handlers, Sweep(h) PROVE TypeOK'
  BY <1>14, LeaveType, StoreTypes, EmptyType DEF Sweep, Aborts, TypeOK
<1>15. ASSUME NEW h \in Handlers, SweepRefused(h) PROVE TypeOK'
  <2>1. Obsolete(h) \in SUBSET Proxies
    BY DEF Obsolete, RefsOf, TypeOK, Config, Entry
  <2>2. store' \in [Proxies -> Passwords \cup {None, Torn}]
    BY <1>15, StoreTypes DEF SweepRefused
  <2>3. faults' \in 0..MaxFaults
    BY <1>15 DEF SweepRefused, Fault, TypeOK
  <2>4. Leave(h) /\ UNCHANGED <<cfg, disk, up, spoiled>> /\ leaked' = leaked \cup Obsolete(h)
    BY <1>15 DEF SweepRefused, Aborts
  <2> QED
    BY <2>1, <2>2, <2>3, <2>4, LeaveType DEF TypeOK
<1>16. ASSUME NEW h \in Handlers, Reject(h) PROVE TypeOK'
  <2>1. [task[h] EXCEPT !.at = "undo"] \in Task
    BY Zenon, MovesType DEF TypeOK
  <2>2. task' \in [Handlers -> Task] /\ want' \in [Handlers -> Config]
    BY <1>16, <2>1, LeaveType, EmptyType DEF Reject, TypeOK
  <2>3. task[h].refs \in SUBSET Proxies
    BY DEF TypeOK, Task
  <2> QED
    BY SMTT(30), <1>16, <2>2, <2>3 DEF Reject, TypeOK
<1>17. ASSUME NEW h \in Handlers, RejectImport(h) PROVE TypeOK'
  BY <1>17, LeaveType, StoreTypes, EmptyType DEF RejectImport, Aborts, TypeOK
<1>18. ASSUME NEW h \in Handlers, RestoreRefused(h) PROVE TypeOK'
  <2> DEFINE mine == RefsOf(cfg) \cup RefsOf(Target(h))
             written == IF task[h].at = "put" THEN ToWrite(h) ELSE {}
  <2>1. PICK R \in SUBSET mine, W \in SUBSET written :
          store' = [r \in Proxies |-> IF r \in R THEN Restored(Target(h))[r]
                                      ELSE Written(Target(h), W)[r]]
    BY <1>18 DEF RestoreRefused
  <2>2. Written(Target(h), W) \in [Proxies -> Passwords \cup {None, Torn}]
    BY ToWriteOwn, StoreTypes
  <2>3. Restored(Target(h)) \in [Proxies -> Passwords \cup {None, Torn}]
    BY StoreTypes
  <2>4. store' \in [Proxies -> Passwords \cup {None, Torn}]
    BY <2>1, <2>2, <2>3
  <2>5. mine \subseteq Proxies
    <3>1. RefsOf(cfg) \subseteq Proxies
      BY DEF RefsOf, TypeOK, Config, Entry
    <3>2. \A p \in Proxies : OwnRef(Target(h)[p], p)
      <4>1. CASE task[h].at = "put"
        BY <4>1, ToWriteOwn
      <4>2. CASE task[h].at # "put"
        BY <4>2 DEF Target, OwnRefs
      <4> QED
        BY <4>1, <4>2
    <3> QED
      BY <3>1, <3>2, OwnerIsSelf
  <2> QED
    BY <1>18, <2>4, <2>5, LeaveType DEF RestoreRefused, Aborts, TypeOK, Fault
<1>19. ASSUME NEW h \in Handlers, UndoCreate(h) PROVE TypeOK'
  BY <1>19, LeaveType, StoreTypes, EmptyType DEF UndoCreate, Aborts, TypeOK
<1>20. ASSUME NEW h \in Handlers, UndoUpdate(h) PROVE TypeOK'
  <2>1. task[h].refs \in SUBSET Proxies /\ task[h].old.pw \in Passwords \cup {None}
    BY DEF TypeOK, Task, Entry
  <2> QED
    BY <1>20, <2>1, LeaveType DEF UndoUpdate, Aborts, TypeOK
<1>21. ASSUME NEW h \in Handlers, UndoRefused(h) PROVE TypeOK'
  <2>1. task[h].refs \in SUBSET Proxies /\ task[h].old.ref \in Proxies \cup {None}
    BY DEF TypeOK, Task, Entry
  <2> QED
    BY SMTT(60), <1>21, <2>1, LeaveType, StoreTypes DEF UndoRefused, Aborts, TypeOK, Fault
<1>22. ASSUME NEW h \in Handlers, Tidy(h) PROVE TypeOK'
  BY <1>22, LeaveType, StoreTypes, EmptyType DEF Tidy, Aborts, TypeOK
<1>23. ASSUME NEW h \in Handlers, TidyRefused(h) PROVE TypeOK'
  <2>1. task[h].old.ref \in Proxies
    BY <1>23 DEF TidyRefused, OneProxy, TypeOK, Task, Entry
  <2> QED
    BY <1>23, <2>1, LeaveType DEF TidyRefused, Aborts, TypeOK, Fault
<1>24. CASE Crash
  <2>1. \A h \in Handlers : InFlight(h) \subseteq Proxies
    BY WritingType DEF InFlight, RefsOf, TypeOK, Task, Config, Entry
  <2>2. store' \in [Proxies -> Passwords \cup {None, Torn}]
    <3>1. CASE UNCHANGED store
      BY <3>1 DEF TypeOK
    <3>2. ASSUME NEW h \in Handlers, NEW r, store' = [store EXCEPT ![r] = Torn]
          PROVE  store' \in [Proxies -> Passwords \cup {None, Torn}]
      BY <3>2 DEF TypeOK
    <3>3. ASSUME NEW h \in Handlers, task[h].at = "put", NEW R \in SUBSET ToWrite(h),
                 store' = Written(Target(h), R)
          PROVE  store' \in [Proxies -> Passwords \cup {None, Torn}]
      BY <3>3, ToWriteOwn, StoreTypes
    <3> QED
      BY <1>24, <3>1, <3>2, <3>3 DEF Crash
  <2>3. NoTask \in Task
    BY EmptyType DEF NoTask, Task, Kinds
  <2>4. /\ faults' \in 0..MaxFaults
        /\ task' \in [Handlers -> Task] /\ want' \in [Handlers -> Config]
    BY <1>24, <2>3, EmptyType DEF Crash, Fault, TypeOK
  <2>5. leaked' \in SUBSET Proxies
    BY <1>24, <2>1 DEF Crash, TypeOK
  <2> QED
    BY <1>24, <2>2, <2>4, <2>5 DEF Crash, TypeOK
<1>25. CASE Boot
  <2>1. Readable(disk) => Hydrated(disk) \in Config
    BY HydratedOwn DEF TypeOK, OwnRefs
  <2> QED
    BY <1>25, <2>1, EmptyType DEF Boot, TypeOK
<1>26. CASE UNCHANGED vars
  BY <1>26 DEF vars, TypeOK
<1> QED
  BY <1>1, <1>2, <1>3, <1>4, <1>5, <1>6, <1>7, <1>8, <1>9, <1>10, <1>11,
     <1>12, <1>13, <1>14, <1>15, <1>16, <1>17, <1>18, <1>19, <1>20, <1>21,
     <1>22, <1>23, <1>24, <1>25, <1>26 DEF Next, Request

\* A request changes only its own record, and what is shared only under the
\* transaction lock.
LEMMA RequestFrame ==
  ASSUME SInv, NEW h \in Handlers, Request(h)
  PROVE  /\ up /\ up'
         /\ \A g \in Handlers \ {h} : task'[g] = task[g] /\ want'[g] = want[g]
         /\ \/ Holding(h) \/ LockFree
            \/ ~Holding(h)' /\ task'[h].at = "look" /\ UNCHANGED <<cfg, disk, store, spoiled>>
<1> DEFINE Frame == /\ up \/ task[h].at # "idle"
                    /\ up' = up
                    /\ \A g \in Handlers \ {h} : task'[g] = task[g] /\ want'[g] = want[g]
                    /\ \/ Holding(h) \/ LockFree
                       \/ task'[h].at = "look" /\ UNCHANGED <<cfg, disk, store, spoiled>>
<1> USE DEF SInv, TypeOK, Holding
<1>1. ASSUME \E p \in Proxies, pw \in Passwords \cup {None} : Create(h, p, pw) \/ Discover(h, p, pw) \/ Update(h, p, pw)
      PROVE  Frame
  BY <1>1 DEF Create, Discover, Update, Arrives, Begin, Enter
<1>2. ASSUME \E p \in Proxies, pw \in Passwords \cup {None} : LookToMerge(h, p, pw)
      PROVE  Frame
  BY <1>2 DEF LookToMerge, Enter
<1>3. ASSUME \E p \in Proxies : Clear(h, p) PROVE Frame
  BY <1>3 DEF Clear, Arrives, Begin, Enter
<1>4. ASSUME \E p \in Proxies : LookToDelete(h, p) PROVE Frame
  BY <1>4 DEF LookToDelete, Enter
<1>5. ASSUME Delete(h) PROVE Frame
  BY <1>5 DEF Delete, Enter, Leave
<1>6. ASSUME Merge(h) \/ PutConfig(h) PROVE Frame
  BY <1>6 DEF Merge, PutConfig, Arrives, Enter
<1>7. ASSUME Put(h) PROVE Frame
  BY <1>7 DEF Put
<1>8. ASSUME PutRefused(h) \/ HydrateRefused(h) PROVE Frame
  BY <1>8 DEF PutRefused, HydrateRefused, Aborts, Leave
<1>9. ASSUME Commit(h) PROVE Frame
  BY <1>9 DEF Commit, Leave
<1>10. ASSUME Sweep(h) \/ SweepRefused(h) PROVE Frame
  BY <1>10 DEF Sweep, SweepRefused, Aborts, Leave
<1>11. ASSUME Reject(h) PROVE Frame
  BY <1>11 DEF Reject, Leave
<1>12. ASSUME RejectImport(h) \/ RestoreRefused(h) PROVE Frame
  BY <1>12 DEF RejectImport, RestoreRefused, Aborts, Leave
<1>13. ASSUME UndoCreate(h) \/ UndoUpdate(h) \/ UndoRefused(h) PROVE Frame
  BY <1>13 DEF UndoCreate, UndoUpdate, UndoRefused, Aborts, Leave
<1>14. ASSUME Tidy(h) \/ TidyRefused(h) PROVE Frame
  BY <1>14 DEF Tidy, TidyRefused, Aborts, Leave
<1>15. Frame
  <2> HIDE DEF Frame
  <2> QED
    BY <1>1, <1>2, <1>3, <1>4, <1>5, <1>6, <1>7, <1>8, <1>9, <1>10, <1>11,
       <1>12, <1>13, <1>14 DEF Request
<1> QED
  BY <1>15 DEF DownIsIdle, NoTask

\* Two requests are never in their transactions together, and none outlives Core.
LEMMA LockPreserved == SInv /\ [Next]_vars => OneTransaction' /\ DownIsIdle'
<1> SUFFICES ASSUME SInv, [Next]_vars
             PROVE  OneTransaction' /\ DownIsIdle'
  OBVIOUS
<1> USE DEF SInv, TypeOK
<1>1. ASSUME NEW h \in Handlers, Request(h) PROVE OneTransaction' /\ DownIsIdle'
  BY <1>1, RequestFrame DEF OneTransaction, DownIsIdle, LockFree, Holding
<1>2. CASE Crash
  BY <1>2 DEF Crash, OneTransaction, DownIsIdle, Holding, NoTask
<1>3. CASE Boot
  BY <1>3 DEF Boot, OneTransaction, DownIsIdle, Holding
<1>4. CASE UNCHANGED vars
  BY <1>4 DEF vars, OneTransaction, DownIsIdle, Holding
<1> QED
  BY <1>1, <1>2, <1>3, <1>4 DEF Next

\* What Begin does, in terms of the proxy it changes.
LEMMA BeginFacts ==
  ASSUME SInv, NEW h \in Handlers, NEW kind, NEW p \in Proxies, NEW e \in Entry, OwnRef(e, p),
         Begin(h, kind, p, e)
  PROVE  /\ task'[h].kind = kind /\ task'[h].id = p /\ task'[h].old = cfg[p]
         /\ \/ task'[h].at = "apply" /\ task'[h].refs = {} /\ want'[h][p].pw = None
            \/ task'[h].at = "put" /\ task'[h].refs = {p} /\ want'[h][p].ref = p /\ e.pw # None
         /\ OwnRef(want'[h][p], p)
         /\ e.ref = p => want'[h][p].ref = p
         /\ \A q \in Proxies \ {p} : want'[h][q] = cfg[q]
         /\ UNCHANGED <<cfg, disk, store, up, spoiled>>
<1> USE DEF SInv, TypeOK
<1> DEFINE x == IF e.pw = None THEN e ELSE Proxy(RefFor(e, p), e.pw)
           refs == IF e.pw = None THEN {} ELSE {RefFor(e, p)}
           at == IF e.pw = None THEN "apply" ELSE "put"
<1>1. Enter(h, at, kind, p, cfg[p], refs, [cfg EXCEPT ![p] = x]) /\ UNCHANGED <<cfg, disk, store, up, spoiled>>
  BY DEF Begin
<1>2. RefFor(e, p) = p
  BY DEF OwnRef, RefFor
<1>3. task'[h] = [at |-> at, kind |-> kind, id |-> p, old |-> cfg[p], refs |-> refs]
  <2> HIDE DEF at, refs, x
  <2> QED
    BY <1>1 DEF Enter
<1>4. want'[h] = [cfg EXCEPT ![p] = x]
  <2> HIDE DEF at, refs, x
  <2> QED
    BY <1>1 DEF Enter
<1>5. want'[h][p] = x /\ \A q \in Proxies \ {p} : want'[h][q] = cfg[q]
  BY <1>4 DEF Config
<1>6. OwnRef(x, p) /\ (e.pw # None => x.ref = p) /\ (e.ref = p => x.ref = p)
  BY <1>2 DEF OwnRef, Proxy
<1> QED
  BY <1>1, <1>2, <1>3, <1>5, <1>6

\* The five ways to enter a transaction with Begin, as one.
Begins(h) ==
  \E kind \in {"create", "discover", "update", "clear"}, p \in Proxies, e \in Entry :
    /\ Begin(h, kind, p, e) /\ OwnRef(e, p)
    /\ kind \in {"create", "discover"} <=> ~cfg[p].there
    /\ kind = "clear" => e.pw = None
    /\ kind = "update" => e.ref = cfg[p].ref
    /\ LockFree /\ task[h].at = "idle"

\* A create, a discover, an update and a clear enter with Begin.
LEMMA BeginsIsBegin ==
  ASSUME SInv, NEW h \in Handlers, NEW p \in Proxies, NEW pw \in Passwords \cup {None},
         Create(h, p, pw) \/ Discover(h, p, pw) \/ Update(h, p, pw) \/ Clear(h, p)
  PROVE  Begins(h)
<1> USE DEF SInv, Arrives
<1>1. Proxy(None, pw) \in Entry /\ OwnRef(Proxy(None, pw), p)
  BY DEF Proxy, Entry, OwnRef
<1>2. Proxy(None, None) \in Entry /\ OwnRef(Proxy(None, None), p) /\ Proxy(None, None).pw = None
  BY DEF Proxy, Entry, OwnRef
<1>3. CASE Create(h, p, pw)
  BY <1>1, <1>3 DEF Create, Begins
<1>4. CASE Discover(h, p, pw)
  BY <1>1, <1>4 DEF Discover, Begins
<1>5. CASE Update(h, p, pw)
  <2> DEFINE e == IF pw = None THEN cfg[p] ELSE [cfg[p] EXCEPT !.pw = pw]
  <2>1. cfg[p] \in Entry /\ OwnRef(cfg[p], p) /\ cfg[p].there
    BY <1>5 DEF Update, TypeOK, Config, OwnRefs
  <2>2. e \in Entry /\ OwnRef(e, p) /\ e.ref = cfg[p].ref
    BY <2>1 DEF Entry, OwnRef
  <2>3. Begin(h, "update", p, e) /\ LockFree /\ task[h].at = "idle"
    BY <1>5 DEF Update
  <2> HIDE DEF e
  <2> QED
    BY <2>1, <2>2, <2>3 DEF Begins
<1>6. CASE Clear(h, p)
  BY <1>2, <1>6 DEF Clear, Begins
<1> QED
  BY <1>3, <1>4, <1>5, <1>6

\* References stay those of their own identifiers.
LEMMA EnterOwn ==
  ASSUME SInv, NEW h \in Handlers, NEW c, \A p \in Proxies : OwnRef(c[p], p),
         want' = [want EXCEPT ![h] = c], UNCHANGED <<cfg, disk>>
  PROVE  OwnRefs'
BY DEF SInv, TypeOK, OwnRefs, OwnRef

\* The empty configuration has only references of its own.
LEMMA EmptyOwn == \A p \in Proxies : OwnRef(Empty[p], p)
BY DEF Empty, Absent, OwnRef

\* A request that gives up leaves references own.
LEMMA LeaveOwn ==
  ASSUME SInv, NEW h \in Handlers, Aborts(h)
  PROVE  OwnRefs'
BY EnterOwn, EmptyOwn DEF Aborts, Leave

\* Every step keeps references those of their own identifiers.
LEMMA OwnRefsPreserved == ~Renames /\ SInv /\ [Next]_vars => OwnRefs'
<1> SUFFICES ASSUME ~Renames, SInv, [Next]_vars
             PROVE  OwnRefs'
  OBVIOUS
<1>0. TypeOK /\ OwnRefs
  BY DEF SInv
<1>1. ASSUME NEW h \in Handlers, Begins(h) PROVE OwnRefs'
  <2>1. PICK kind \in {"create", "discover", "update", "clear"}, p \in Proxies, e \in Entry :
          Begin(h, kind, p, e) /\ OwnRef(e, p)
    BY <1>1 DEF Begins
  <2>2. \A q \in Proxies : OwnRef(want'[h][q], q)
    <3>1. /\ task'[h].kind = kind /\ task'[h].id = p /\ task'[h].old = cfg[p]
          /\ \/ task'[h].at = "apply" /\ task'[h].refs = {} /\ want'[h][p].pw = None
             \/ task'[h].at = "put" /\ task'[h].refs = {p} /\ want'[h][p].ref = p /\ e.pw # None
          /\ OwnRef(want'[h][p], p)
          /\ e.ref = p => want'[h][p].ref = p
          /\ \A q \in Proxies \ {p} : want'[h][q] = cfg[q]
          /\ UNCHANGED <<cfg, disk, store, up, spoiled>>
      BY <2>1, BeginFacts
    <3>2. \A q \in Proxies : OwnRef(cfg[q], q)
      BY <1>0 DEF OwnRefs
    <3> QED
      BY <3>1, <3>2
  <2>3. want' = [want EXCEPT ![h] = want'[h]] /\ UNCHANGED <<cfg, disk>>
    BY <1>0, <2>1 DEF Begin, Enter, TypeOK
  <2> QED
    BY <2>2, <2>3, EnterOwn
<1>2. ASSUME NEW h \in Handlers, NEW p \in Proxies, LookToDelete(h, p) PROVE OwnRefs'
  BY <1>2, EnterOwn, EmptyOwn DEF LookToDelete, Enter
<1>3. ASSUME NEW h \in Handlers, Delete(h) PROVE OwnRefs'
  <2>1. \A p \in Proxies : OwnRef([cfg EXCEPT ![task[h].id] = Absent][p], p)
    BY <1>0 DEF OwnRefs, OwnRef, Absent, TypeOK, Config
  <2>2. UNCHANGED <<cfg, disk>> /\ \/ want' = [want EXCEPT ![h] = [cfg EXCEPT ![task[h].id] = Absent]]
                                   \/ want' = [want EXCEPT ![h] = Empty]
    BY <1>3 DEF Delete, Enter, Leave
  <2> QED
    BY <2>1, <2>2, EnterOwn, EmptyOwn
<1>4. ASSUME NEW h \in Handlers, NEW p \in Proxies, NEW pw \in Passwords \cup {None}, LookToMerge(h, p, pw)
      PROVE  OwnRefs'
  <2> DEFINE c == [cfg EXCEPT ![p] = IF cfg[p].there /\ pw = None THEN cfg[p] ELSE Proxy(None, pw)]
  <2>1. \A q \in Proxies : OwnRef(c[q], q)
    BY <1>0 DEF OwnRefs, OwnRef, Proxy, TypeOK, Config
  <2>2. want' = [want EXCEPT ![h] = c] /\ UNCHANGED <<cfg, disk>>
    BY <1>4 DEF LookToMerge, Enter
  <2> HIDE DEF c
  <2> QED
    BY <2>1, <2>2, EnterOwn
<1>5. ASSUME NEW h \in Handlers, Merge(h) PROVE OwnRefs'
  BY <1>0, <1>5 DEF Merge, OwnRefs, OwnRef
<1>6. ASSUME NEW h \in Handlers, PutConfig(h) PROVE OwnRefs'
  <2>1. PICK c \in Documents : want' = [want EXCEPT ![h] = c]
    BY <1>6 DEF PutConfig, Enter
  <2>2. \A p \in Proxies : OwnRef(c[p], p)
    <3>1. ASSUME NEW p \in Proxies PROVE OwnRef(c[p], p)
      <4>1. CASE c[p] = Absent
        BY <4>1 DEF OwnRef, Absent
      <4>2. CASE c[p] # Absent
        BY <4>2 DEF Documents, OwnRef
      <4> QED
        BY <4>1, <4>2
    <3> QED
      BY <3>1
  <2> QED
    BY <1>6, <2>1, <2>2, EnterOwn DEF PutConfig
<1>7. ASSUME NEW h \in Handlers, Put(h) PROVE OwnRefs'
  <2>1. \A p \in Proxies : OwnRef(Target(h)[p], p)
    BY <1>7, ToWriteOwn DEF Put
  <2> QED
    BY <1>7, <2>1, EnterOwn DEF Put
<1>8. ASSUME NEW h \in Handlers, Commit(h) PROVE OwnRefs'
  <2>1. \A p \in Proxies : OwnRef(want[h][p], p) /\ want[h][p] \in Entry
    BY <1>0 DEF OwnRefs, TypeOK, Config
  <2>2. \A p \in Proxies : OwnRef(Bare(want[h])[p], p) /\ Bare(want[h])[p].pw = None
    <3>1. ASSUME NEW p \in Proxies PROVE OwnRef(Bare(want[h])[p], p) /\ Bare(want[h])[p].pw = None
      <4>1. Bare(want[h])[p] = [there |-> want[h][p].there, ref |-> want[h][p].ref, pw |-> None]
        BY DEF Bare
      <4>2. want[h][p] = Absent => Bare(want[h])[p] = Absent
        BY <4>1 DEF Absent
      <4> QED
        BY <2>1, <4>1, <4>2 DEF OwnRef
    <3> QED
      BY <3>1
  <2>3. \A g \in Handlers : want'[g] \in {want[g], cfg, Empty}
    BY <1>0, <1>8 DEF Commit, Leave, TypeOK
  <2>4. \A g \in Handlers, p \in Proxies : OwnRef(want'[g][p], p)
    BY <1>0, <2>3, EmptyOwn DEF OwnRefs
  <2> QED
    BY <1>8, <2>1, <2>2, <2>4 DEF Commit, OwnRefs, OwnRef
<1>9. ASSUME NEW h \in Handlers, Reject(h) PROVE OwnRefs'
  <2>1. want' = [want EXCEPT ![h] = Empty] /\ UNCHANGED <<cfg, disk>>
    BY <1>9 DEF Reject, Leave
  <2> QED
    BY <2>1, EnterOwn, EmptyOwn
<1>10. ASSUME NEW h \in Handlers,
              \/ PutRefused(h) \/ HydrateRefused(h) \/ Sweep(h) \/ SweepRefused(h)
              \/ RejectImport(h) \/ RestoreRefused(h) \/ UndoCreate(h) \/ UndoUpdate(h)
              \/ UndoRefused(h) \/ Tidy(h) \/ TidyRefused(h)
       PROVE  OwnRefs'
  <2>1. Aborts(h)
    BY <1>10 DEF PutRefused, HydrateRefused, Sweep, SweepRefused, RejectImport, RestoreRefused,
                 UndoCreate, UndoUpdate, UndoRefused, Tidy, TidyRefused
  <2> QED
    BY <2>1, LeaveOwn
<1>11. CASE Crash
  BY <1>0, <1>11, EmptyOwn DEF Crash, OwnRefs, OwnRef
<1>12. CASE Boot
  <2>1. \A p \in Proxies : OwnRef(Hydrated(disk)[p], p)
    BY <1>0, HydratedOwn DEF OwnRefs, TypeOK
  <2> QED
    BY <1>0, <1>12, <2>1, EmptyOwn DEF Boot, OwnRefs, OwnRef
<1>13. CASE UNCHANGED vars
  BY <1>0, <1>13 DEF vars, OwnRefs, OwnRef
<1> QED
  BY <1>1, <1>2, <1>3, <1>4, <1>5, <1>6, <1>7, <1>8, <1>9, <1>10, <1>11, <1>12, <1>13,
     BeginsIsBegin DEF Next, Request

\* What OneProxy says of one request.
OneProxyOf(h) ==
  LET t == task[h] IN
  /\ t.at = "look" /\ ~Import(h) => t.id \in Proxies /\ t.kind = "delete"
  /\ t.at = "tidy" => t.old.ref # None
  /\ t.at = "undo" => t.kind \in {"create", "update"}
  /\ t.at \in {"put", "apply", "undo"} /\ ~Import(h) =>
       /\ t.id \in Proxies /\ t.kind # "none"
       /\ t.refs \subseteq {t.id}
       /\ t.kind \in {"clear", "delete"} => t.refs = {}
       /\ t.at = "put" => t.refs = {t.id} /\ want[h][t.id].ref = t.id
       /\ t.at = "undo" => t.old.ref \in {None, t.id}
  /\ t.at \in {"put", "apply"} /\ ~Import(h) =>
       /\ t.kind = "delete" \/ t.old = cfg[t.id]
       /\ t.kind \in {"create", "discover"} <=> ~cfg[t.id].there
       /\ \A p \in Proxies \ {t.id} : want[h][p] = cfg[p]

\* OneProxy, request by request.
LEMMA OneProxyByRequest == OneProxy <=> \A h \in Handlers : OneProxyOf(h)
BY DEF OneProxy, OneProxyOf

\* It says nothing of a request that is idle or sweeping.
LEMMA IdleOneProxy ==
  ASSUME NEW h, task[h].at \in {"idle", "sweep"}
  PROVE  OneProxyOf(h)
BY DEF OneProxyOf

\* The requests that a step is not of stay as OneProxy has them.
LEMMA OthersOneProxy ==
  ASSUME SInv, NEW h \in Handlers, Request(h), OneProxyOf(h)'
  PROVE  OneProxy'
<1>1. ASSUME NEW g \in Handlers \ {h} PROVE OneProxyOf(g)'
  <2>1. OneProxyOf(g) /\ task'[g] = task[g] /\ want'[g] = want[g]
    BY RequestFrame, OneProxyByRequest DEF SInv
  <2>2. task[g].at \in {"put", "apply"} => cfg' = cfg
    <3>1. task[g].at \in {"put", "apply"} => ~LockFree /\ ~Holding(h)
      BY DEF SInv, OneTransaction, LockFree, Holding
    <3> QED
      BY <3>1, RequestFrame
  <2> QED
    BY <2>1, <2>2 DEF OneProxyOf, Import
<1> QED
  BY <1>1 DEF OneProxy, OneProxyOf

\* A request that leaves keeps it for all.
LEMMA LeaveOneProxy ==
  ASSUME SInv, NEW h \in Handlers, Request(h), Leave(h)
  PROVE  OneProxy'
<1>1. task'[h].at = "idle"
  BY DEF Leave, NoTask, SInv, TypeOK
<1> QED
  BY <1>1, OthersOneProxy DEF OneProxyOf

\* Every step keeps create, update, clear and delete to one proxy.
LEMMA OneProxyPreserved == ~Renames /\ SInv /\ [Next]_vars => OneProxy'
<1> SUFFICES ASSUME ~Renames, SInv, [Next]_vars
             PROVE  OneProxy'
  OBVIOUS
<1>0. TypeOK /\ OwnRefs /\ \A h \in Handlers : OneProxyOf(h)
  BY OneProxyByRequest DEF SInv
<1>1. ASSUME NEW h \in Handlers, Request(h), Begins(h) PROVE OneProxy'
  <2>1. PICK kind \in {"create", "discover", "update", "clear"}, p \in Proxies, e \in Entry :
          /\ Begin(h, kind, p, e) /\ OwnRef(e, p)
          /\ kind \in {"create", "discover"} <=> ~cfg[p].there
          /\ kind = "clear" => e.pw = None
    BY <1>1 DEF Begins
  <2>2. /\ task'[h].kind = kind /\ task'[h].id = p /\ task'[h].old = cfg[p]
        /\ \/ task'[h].at = "apply" /\ task'[h].refs = {} /\ want'[h][p].pw = None
           \/ task'[h].at = "put" /\ task'[h].refs = {p} /\ want'[h][p].ref = p /\ e.pw # None
        /\ \A q \in Proxies \ {p} : want'[h][q] = cfg[q]
        /\ cfg' = cfg
    <3>1. /\ task'[h].kind = kind /\ task'[h].id = p /\ task'[h].old = cfg[p]
          /\ \/ task'[h].at = "apply" /\ task'[h].refs = {} /\ want'[h][p].pw = None
             \/ task'[h].at = "put" /\ task'[h].refs = {p} /\ want'[h][p].ref = p /\ e.pw # None
          /\ OwnRef(want'[h][p], p)
          /\ e.ref = p => want'[h][p].ref = p
          /\ \A q \in Proxies \ {p} : want'[h][q] = cfg[q]
          /\ UNCHANGED <<cfg, disk, store, up, spoiled>>
      BY <2>1, BeginFacts
    <3> QED
      BY <3>1
  <2>3. OneProxyOf(h)'
    BY <2>1, <2>2 DEF OneProxyOf
  <2> QED
    BY <1>1, <2>3, OthersOneProxy
<1>2. ASSUME NEW h \in Handlers, Request(h), NEW p \in Proxies, LookToDelete(h, p) PROVE OneProxy'
  <2>1. task'[h].at = "look" /\ task'[h].kind = "delete" /\ task'[h].id = p
    BY <1>0, <1>2 DEF LookToDelete, Enter, TypeOK
  <2> QED
    BY <1>2, <2>1, OthersOneProxy DEF OneProxyOf
<1>3. ASSUME NEW h \in Handlers, Request(h), Delete(h) PROVE OneProxy'
  <2>1. CASE ~cfg[task[h].id].there
    BY <1>3, <2>1, LeaveOneProxy DEF Delete
  <2>2. CASE cfg[task[h].id].there
    <3>1. task[h].id \in Proxies
      BY <1>0, <1>3 DEF Delete, OneProxyOf, Import
    <3>2. Enter(h, "apply", "delete", task[h].id, task[h].old, {}, [cfg EXCEPT ![task[h].id] = Absent])
      BY <1>3, <2>2 DEF Delete
    <3>3. /\ task'[h].at = "apply" /\ task'[h].kind = "delete" /\ task'[h].id = task[h].id
          /\ task'[h].refs = {}
          /\ \A q \in Proxies \ {task[h].id} : want'[h][q] = cfg[q]
          /\ cfg' = cfg
      BY <1>0, <1>3, <3>2 DEF Delete, Enter, TypeOK, Config
    <3>4. OneProxyOf(h)'
      BY <2>2, <3>1, <3>3 DEF OneProxyOf
    <3> QED
      BY <1>3, <3>4, OthersOneProxy
  <2> QED
    BY <2>1, <2>2
<1>4. ASSUME NEW h \in Handlers, Request(h), NEW p \in Proxies, NEW pw \in Passwords \cup {None},
             LookToMerge(h, p, pw)
      PROVE  OneProxy'
  <2>1. task'[h].at = "look" /\ task'[h].kind = "import"
    BY <1>0, <1>4 DEF LookToMerge, Enter, TypeOK
  <2> QED
    BY <1>4, <2>1, OthersOneProxy DEF OneProxyOf, Import
<1>5. ASSUME NEW h \in Handlers, Request(h), Merge(h) \/ PutConfig(h) PROVE OneProxy'
  <2>1. task'[h].at = "put" /\ task'[h].kind = "import"
    <3>1. CASE Merge(h)
      <4>1. task[h].kind = "import" /\ task'[h] = [task[h] EXCEPT !.at = "put"]
        BY <1>0, <3>1 DEF Merge, TypeOK
      <4> QED
        BY <1>0, <4>1 DEF TypeOK, Task
    <3>2. CASE PutConfig(h)
      <4>1. PICK c : Enter(h, "put", "import", None, Absent, {}, c)
        BY <3>2 DEF PutConfig
      <4> QED
        BY <1>0, <4>1 DEF Enter, TypeOK
    <3> QED
      BY <1>5, <3>1, <3>2
  <2> QED
    BY <1>5, <2>1, OthersOneProxy DEF OneProxyOf, Import
<1>6. ASSUME NEW h \in Handlers, Request(h), Put(h) PROVE OneProxy'
  <2>1. task'[h] = [task[h] EXCEPT !.at = "apply", !.refs = ToWrite(h)] /\ cfg' = cfg
    BY <1>0, <1>6 DEF Put, TypeOK
  <2>2. want'[h] = Target(h)
    BY <1>0, <1>6 DEF Put, TypeOK
  <2>3. /\ task'[h].at = "apply" /\ task'[h].kind = task[h].kind /\ task'[h].id = task[h].id
        /\ task'[h].old = task[h].old /\ task'[h].refs = ToWrite(h)
    BY <1>0, <2>1 DEF TypeOK, Task
  <2>4. CASE Import(h)
    BY <1>6, <2>3, <2>4, OthersOneProxy DEF OneProxyOf, Import
  <2>5. CASE ~Import(h)
    <3>1. ToWrite(h) = task[h].refs /\ want'[h] = want[h]
      BY <2>2, <2>5 DEF ToWrite, Target
    <3>2. OneProxyOf(h)'
      <4>1. OneProxyOf(h) /\ task[h].at = "put" /\ task[h].kind # "import"
        BY <1>0, <1>6, <2>5 DEF Put, Import
      <4>2. /\ task[h].id \in Proxies /\ task[h].refs = {task[h].id}
            /\ task[h].kind \notin {"clear", "delete", "none"}
            /\ task[h].old = cfg[task[h].id]
            /\ task[h].kind \in {"create", "discover"} <=> ~cfg[task[h].id].there
            /\ \A p \in Proxies \ {task[h].id} : want[h][p] = cfg[p]
        BY <4>1 DEF OneProxyOf, Import
      <4> QED
        BY <2>1, <2>3, <3>1, <4>2 DEF OneProxyOf
    <3> QED
      BY <1>6, <3>2, OthersOneProxy
  <2> QED
    BY <2>4, <2>5
<1>7. ASSUME NEW h \in Handlers, Request(h), Commit(h) PROVE OneProxy'
  <2>1. task[h].old = task'[h].old \/ Leave(h)
    BY <1>0, <1>7 DEF Commit, TypeOK, Task
  <2>2. \/ task'[h].at = "sweep"
        \/ task'[h].at = "tidy" /\ task'[h].old.ref # None
        \/ Leave(h)
    BY <1>0, <1>7 DEF Commit, TypeOK, Task
  <2> QED
    BY <1>7, <2>2, OthersOneProxy, LeaveOneProxy DEF OneProxyOf
<1>8. ASSUME NEW h \in Handlers, Request(h), Reject(h) PROVE OneProxy'
  <2>1. CASE task[h].kind \in {"create", "update"} /\ task[h].refs # {}
    <3>1. task'[h] = [task[h] EXCEPT !.at = "undo"]
      BY <1>0, <1>8, <2>1 DEF Reject, TypeOK
    <3>2. /\ task'[h].at = "undo" /\ task'[h].kind = task[h].kind /\ task'[h].id = task[h].id
          /\ task'[h].old = task[h].old /\ task'[h].refs = task[h].refs
      BY <1>0, <3>1 DEF TypeOK, Task
    <3>3. /\ task[h].id \in Proxies /\ task[h].old = cfg[task[h].id] /\ task[h].refs \subseteq {task[h].id}
      BY <1>0, <1>8, <2>1 DEF Reject, OneProxyOf, Import
    <3>4. task[h].old.ref \in {None, task[h].id}
      BY <1>0, <3>3 DEF OwnRefs, OwnRef
    <3>5. OneProxyOf(h)'
      BY <2>1, <3>2, <3>3, <3>4 DEF OneProxyOf
    <3> QED
      BY <1>8, <3>5, OthersOneProxy
  <2>2. CASE ~(task[h].kind \in {"create", "update"} /\ task[h].refs # {})
    BY <1>8, <2>2, LeaveOneProxy DEF Reject
  <2> QED
    BY <2>1, <2>2
<1>9. ASSUME NEW h \in Handlers, Request(h),
             \/ PutRefused(h) \/ HydrateRefused(h) \/ Sweep(h) \/ SweepRefused(h)
             \/ RejectImport(h) \/ RestoreRefused(h) \/ UndoCreate(h) \/ UndoUpdate(h)
             \/ UndoRefused(h) \/ Tidy(h) \/ TidyRefused(h)
      PROVE  OneProxy'
  <2>1. Leave(h)
    BY <1>9 DEF PutRefused, HydrateRefused, Sweep, SweepRefused, RejectImport, RestoreRefused,
                UndoCreate, UndoUpdate, UndoRefused, Tidy, TidyRefused, Aborts
  <2> QED
    BY <1>9, <2>1, LeaveOneProxy
<1>10. CASE Crash
  <2>1. \A h \in Handlers : task'[h].at = "idle"
    BY <1>10 DEF Crash, NoTask
  <2> QED
    BY <2>1 DEF OneProxy
<1>11. CASE Boot
  <2>1. \A h \in Handlers : task'[h].at = "idle"
    BY <1>11 DEF Boot, SInv, DownIsIdle, NoTask
  <2> QED
    BY <2>1 DEF OneProxy
<1>12. CASE UNCHANGED vars
  BY <1>12 DEF vars, SInv, OneProxy, Import
<1> QED
  BY <1>1, <1>2, <1>3, <1>4, <1>5, <1>6, <1>7, <1>8, <1>9, <1>10, <1>11, <1>12,
     BeginsIsBegin DEF Next, Request

\* What CandidateIntact says of one request.
CandidateIntactOf(h) ==
  task[h].at = "apply" =>
    \A p \in Proxies :
      want[h][p].pw # None /\ want[h][p].ref = p /\ p \notin spoiled
        /\ (Import(h) \/ p = task[h].id)
      => store[p] = want[h][p].pw

\* Only the request at "apply" has a candidate, and it holds the lock: a step
\* of another one disturbs neither it nor the files.
LEMMA OthersCandidate ==
  ASSUME SInv, NEW h \in Handlers, Request(h), task'[h].at = "apply" => CandidateIntactOf(h)'
  PROVE  CandidateIntact'
<1>1. ASSUME NEW g \in Handlers \ {h}, task'[g].at = "apply" PROVE CandidateIntactOf(g)'
  <2>1. task'[g] = task[g] /\ want'[g] = want[g]
    BY RequestFrame
  <2>2. ~LockFree /\ ~Holding(h)
    BY <1>1, <2>1 DEF SInv, OneTransaction, LockFree, Holding
  <2>3. UNCHANGED <<store, spoiled>>
    BY <2>2, RequestFrame
  <2>4. CandidateIntactOf(g)
    BY DEF SInv, CandidateIntact, CandidateIntactOf
  <2> QED
    BY <2>1, <2>3, <2>4 DEF CandidateIntactOf, Import
<1> QED
  BY <1>1 DEF CandidateIntact, CandidateIntactOf

\* What apply_config would publish agrees with the files.
LEMMA CandidatePreserved == ~Renames /\ SInv /\ [Next]_vars => CandidateIntact'
<1> SUFFICES ASSUME ~Renames, SInv, [Next]_vars
             PROVE  CandidateIntact'
  OBVIOUS
<1>0. TypeOK /\ OwnRefs
  BY DEF SInv
<1>1. ASSUME NEW h \in Handlers, Request(h), Begins(h) PROVE CandidateIntact'
  <2>1. PICK kind \in {"create", "discover", "update", "clear"}, p \in Proxies, e \in Entry :
          Begin(h, kind, p, e) /\ OwnRef(e, p)
    BY <1>1 DEF Begins
  <2>2. /\ task'[h].kind = kind /\ task'[h].id = p
        /\ task'[h].at = "apply" => want'[h][p].pw = None
    <3>1. /\ task'[h].kind = kind /\ task'[h].id = p /\ task'[h].old = cfg[p]
          /\ \/ task'[h].at = "apply" /\ task'[h].refs = {} /\ want'[h][p].pw = None
             \/ task'[h].at = "put" /\ task'[h].refs = {p} /\ want'[h][p].ref = p /\ e.pw # None
          /\ OwnRef(want'[h][p], p)
          /\ e.ref = p => want'[h][p].ref = p
          /\ \A q \in Proxies \ {p} : want'[h][q] = cfg[q]
          /\ UNCHANGED <<cfg, disk, store, up, spoiled>>
      BY <2>1, BeginFacts
    <3> QED
      BY <3>1
  <2>3. task'[h].at = "apply" => CandidateIntactOf(h)'
    BY <2>2 DEF CandidateIntactOf, Import
  <2> QED
    BY <1>1, <2>3, OthersCandidate
<1>2. ASSUME NEW h \in Handlers, Request(h), Delete(h) PROVE CandidateIntact'
  <2>1. CASE ~cfg[task[h].id].there
    <3>1. task'[h].at = "idle"
      BY <1>0, <1>2, <2>1 DEF Delete, Leave, NoTask, TypeOK
    <3> QED
      BY <1>2, <3>1, OthersCandidate
  <2>2. CASE cfg[task[h].id].there
    <3>1. task[h].id \in Proxies
      BY <1>2 DEF Delete, SInv, OneProxy, Import
    <3>2. Enter(h, "apply", "delete", task[h].id, task[h].old, {}, [cfg EXCEPT ![task[h].id] = Absent])
      BY <1>2, <2>2 DEF Delete
    <3>3. task'[h].kind = "delete" /\ task'[h].id = task[h].id /\ want'[h][task[h].id] = Absent
      BY <1>0, <3>1, <3>2 DEF Enter, TypeOK, Config
    <3>4. CandidateIntactOf(h)'
      BY <3>3 DEF CandidateIntactOf, Import, Absent
    <3> QED
      BY <1>2, <3>4, OthersCandidate
  <2> QED
    BY <2>1, <2>2
<1>3. ASSUME NEW h \in Handlers, Request(h), Put(h) PROVE CandidateIntact'
  <2>1. /\ task'[h].kind = task[h].kind /\ task'[h].id = task[h].id
        /\ want'[h] = Target(h) /\ store' = Written(Target(h), ToWrite(h))
    BY <1>0, <1>3 DEF Put, TypeOK, Task
  <2>2. ASSUME NEW p \in ToWrite(h) PROVE store'[p] = want'[h][p].pw
    BY <1>3, <2>1, <2>2, ToWriteOwn DEF Put, Written
  <2>3. ASSUME NEW p \in Proxies \ ToWrite(h), Import(h), Target(h)[p].ref = p
        PROVE  store'[p] = want'[h][p].pw
    <3>1. Target(h) = Hydrated(want[h]) /\ ToWrite(h) = Given(want[h])
      BY <1>3, <2>3 DEF Target, ToWrite, Put
    <3>2. want[h] \in Config /\ \A q \in Proxies : OwnRef(want[h][q], q)
      BY <1>0 DEF TypeOK, OwnRefs
    <3>3. Hydrated(want[h])[p].pw = store[p]
      BY <1>0, <2>3, <3>1, <3>2, HydratedOwn
    <3> QED
      BY <2>1, <2>3, <3>1, <3>3 DEF Written
  <2>4. ~Import(h) => ToWrite(h) = {task[h].id}
    BY <1>3 DEF Put, ToWrite, SInv, OneProxy
  <2>5. CandidateIntactOf(h)'
    BY <2>1, <2>2, <2>3, <2>4 DEF CandidateIntactOf, Import
  <2> QED
    BY <1>3, <2>5, OthersCandidate
<1>4. ASSUME NEW h \in Handlers, Request(h), NEW p \in Proxies, NEW pw \in Passwords \cup {None},
             LookToDelete(h, p) \/ LookToMerge(h, p, pw)
      PROVE  CandidateIntact'
  <2>1. task'[h].at = "look"
    BY <1>0, <1>4 DEF LookToDelete, LookToMerge, Enter, TypeOK
  <2> QED
    BY <1>4, <2>1, OthersCandidate
<1>5. ASSUME NEW h \in Handlers, Request(h), Merge(h) \/ PutConfig(h) PROVE CandidateIntact'
  <2>1. CASE Merge(h)
    BY <1>0, <1>5, <2>1, OthersCandidate DEF Merge, TypeOK, Task
  <2>2. CASE PutConfig(h)
    <3>1. PICK c : Enter(h, "put", "import", None, Absent, {}, c)
      BY <2>2 DEF PutConfig
    <3>2. task'[h].at = "put"
      BY <1>0, <3>1 DEF Enter, TypeOK
    <3> QED
      BY <1>5, <3>2, OthersCandidate
  <2> QED
    BY <1>5, <2>1, <2>2
<1>6. ASSUME NEW h \in Handlers, Request(h), Commit(h) \/ Reject(h) PROVE CandidateIntact'
  <2>1. CASE Commit(h)
    <3>1. task'[h].at # "apply"
      BY <1>0, <2>1 DEF Commit, Leave, NoTask, TypeOK, Task
    <3> QED
      BY <1>6, <3>1, OthersCandidate
  <2>2. CASE Reject(h)
    <3>1. task'[h].at # "apply"
      BY <1>0, <2>2 DEF Reject, Leave, NoTask, TypeOK, Task
    <3> QED
      BY <1>6, <3>1, OthersCandidate
  <2> QED
    BY <1>6, <2>1, <2>2
<1>7. ASSUME NEW h \in Handlers, Request(h),
             \/ PutRefused(h) \/ HydrateRefused(h) \/ Sweep(h) \/ SweepRefused(h)
             \/ RejectImport(h) \/ RestoreRefused(h) \/ UndoCreate(h) \/ UndoUpdate(h)
             \/ UndoRefused(h) \/ Tidy(h) \/ TidyRefused(h)
      PROVE  CandidateIntact'
  <2>1. Leave(h)
    BY <1>7 DEF PutRefused, HydrateRefused, Sweep, SweepRefused, RejectImport, RestoreRefused,
                UndoCreate, UndoUpdate, UndoRefused, Tidy, TidyRefused, Aborts
  <2>2. task'[h].at = "idle"
    BY <1>0, <2>1 DEF Leave, NoTask, TypeOK
  <2> QED
    BY <1>7, <2>2, OthersCandidate
<1>8. CASE Crash \/ Boot
  <2>1. \A h \in Handlers : task'[h].at = "idle"
    BY <1>8 DEF Crash, Boot, SInv, DownIsIdle, NoTask
  <2> QED
    BY <2>1 DEF CandidateIntact
<1>9. CASE UNCHANGED vars
  BY <1>9 DEF vars, SInv, CandidateIntact, Import
<1> QED
  BY <1>1, <1>2, <1>3, <1>4, <1>5, <1>6, <1>7, <1>8, <1>9, BeginsIsBegin DEF Next, Request

\* What CredentialIntact says of one proxy, whose reference is its own.
Settled(p) ==
  /\ up /\ cfg[p].ref = p /\ cfg[p].pw # None /\ p \notin spoiled
  /\ \A h \in Handlers : ~Overwriting(h, p)
CredentialAt(p) == Settled(p) => store[p] = cfg[p].pw

\* CredentialIntact, proxy by proxy, before a step and after it.
LEMMA CredentialByProxy ==
  /\ OwnRefs => (CredentialIntact <=> \A p \in Proxies : CredentialAt(p))
  /\ OwnRefs' => (CredentialIntact' <=> \A p \in Proxies : CredentialAt(p)')
<1>1. OwnRefs => (CredentialIntact <=> \A p \in Proxies : CredentialAt(p))
  BY NamesAssumption DEF OwnRefs, OwnRef, CredentialIntact, CredentialAt, Settled
<1>2. (OwnRefs => (CredentialIntact <=> \A p \in Proxies : CredentialAt(p)))'
  BY NamesAssumption DEF OwnRefs, OwnRef, CredentialIntact, CredentialAt, Settled
<1> QED
  BY <1>1, <1>2

\* What another request has put in doubt stays in doubt while the proxy does
\* not change.
LEMMA OthersOverwriting ==
  ASSUME SInv, NEW h \in Handlers, Request(h), NEW p \in Proxies, cfg'[p] = cfg[p],
         NEW g \in Handlers \ {h}, Overwriting(g, p)
  PROVE  Overwriting(g, p)'
<1>1. task'[g] = task[g]
  BY RequestFrame
<1>2. CASE task[g].at = "apply"
  BY <1>1, <1>2 DEF Overwriting
<1>3. CASE task[g].at = "undo" /\ task[g].kind = "update" /\ StillPrevious(task[g])
  <2>1. task[g].id = p
    BY <1>3 DEF Overwriting, SInv, OneProxy, Import
  <2> QED
    BY <1>1, <1>3, <2>1 DEF Overwriting, StillPrevious
<1> QED
  BY <1>2, <1>3 DEF Overwriting

\* A step that changes neither the proxy nor its file, and does not take back
\* that it may have overwritten it, keeps it intact.
LEMMA SameCredential ==
  ASSUME SInv, NEW h \in Handlers, Request(h), NEW p \in Proxies,
         cfg'[p] = cfg[p], store'[p] = store[p], p \notin spoiled' => p \notin spoiled,
         Overwriting(h, p) => Overwriting(h, p)'
  PROVE  CredentialAt(p)'
<1> SUFFICES ASSUME Settled(p)'
             PROVE  store'[p] = cfg'[p].pw
  BY DEF CredentialAt
<1>1. \A g \in Handlers : ~Overwriting(g, p)
  BY OthersOverwriting DEF Settled
<1>2. up
  BY RequestFrame
<1>3. Settled(p)
  BY <1>1, <1>2 DEF Settled
<1>4. CredentialAt(p)
  BY CredentialByProxy DEF SInv
<1> QED
  BY <1>3, <1>4 DEF CredentialAt

\* Restored writes back the password of every proxy of cfg.
LEMMA RestoredIntact ==
  ASSUME SInv, NEW c, NEW p \in Proxies, cfg[p].ref = p
  PROVE  Restored(c)[p] = cfg[p].pw
<1>1. p \in RefsOf(cfg) /\ Owner(cfg, p) = p
  BY OwnerIsSelf DEF SInv, OwnRefs
<1> QED
  BY <1>1 DEF Restored

\* Whatever requests overlapped, were refused or undone, the credentials of
\* the published configuration are in the files.
LEMMA CredentialPreserved == ~Renames /\ SInv /\ [Next]_vars => CredentialIntact'
<1> SUFFICES ASSUME ~Renames, SInv, [Next]_vars
             PROVE  CredentialIntact'
  OBVIOUS
<1>0. TypeOK /\ OwnRefs /\ OneProxy
  BY DEF SInv
<1>own. OwnRefs'
  BY OwnRefsPreserved
<1>all. SUFFICES ASSUME NEW p \in Proxies PROVE CredentialAt(p)'
  BY <1>own, CredentialByProxy
<1>1. ASSUME NEW h \in Handlers, Request(h), Begins(h) PROVE CredentialAt(p)'
  <2>1. UNCHANGED <<cfg, store, spoiled>>
    BY <1>1 DEF Begins, Begin
  <2>2. ~Overwriting(h, p)
    BY <1>1 DEF Begins, Overwriting
  <2> QED
    BY <1>1, <2>1, <2>2, SameCredential
<1>2. ASSUME NEW h \in Handlers, Request(h), NEW q \in Proxies, NEW pw \in Passwords \cup {None},
             LookToDelete(h, q) \/ LookToMerge(h, q, pw) \/ Delete(h) \/ Merge(h) \/ PutConfig(h)
      PROVE  CredentialAt(p)'
  <2>1. UNCHANGED <<cfg, store, spoiled>> /\ task[h].at \in {"idle", "look"}
    BY <1>2 DEF LookToDelete, LookToMerge, Delete, Merge, PutConfig, Arrives
  <2>2. ~Overwriting(h, p)
    BY <2>1 DEF Overwriting
  <2> QED
    BY <1>2, <2>1, <2>2, SameCredential
<1>3. ASSUME NEW h \in Handlers, Request(h), Put(h) PROVE CredentialAt(p)'
  <2>1. CASE p \in ToWrite(h)
    <3>1. task'[h].at = "apply" /\ task'[h].refs = ToWrite(h)
      BY <1>0, <1>3 DEF Put, TypeOK, Task
    <3>2. Overwriting(h, p)'
      BY <2>1, <3>1 DEF Overwriting
    <3> QED
      BY <3>2 DEF CredentialAt, Settled
  <2>2. CASE p \notin ToWrite(h)
    <3>1. cfg' = cfg /\ store'[p] = store[p] /\ (p \notin spoiled' => p \notin spoiled)
      BY <1>3, <2>2 DEF Put, Written
    <3>2. ~Overwriting(h, p)
      BY <1>3 DEF Put, Overwriting
    <3> QED
      BY <1>3, <3>1, <3>2, SameCredential
  <2> QED
    BY <2>1, <2>2
<1>4. ASSUME NEW h \in Handlers, Request(h), PutRefused(h) PROVE CredentialAt(p)'
  <2>1. CASE p \in task[h].refs
    BY <1>4, <2>1 DEF PutRefused, CredentialAt, Settled
  <2>2. CASE p \notin task[h].refs
    <3>1. cfg' = cfg /\ store'[p] = store[p] /\ (p \notin spoiled' => p \notin spoiled)
      BY <1>4, <2>2 DEF PutRefused, Without, Aborts
    <3>2. ~Overwriting(h, p)
      BY <1>4 DEF PutRefused, Overwriting
    <3> QED
      BY <1>4, <3>1, <3>2, SameCredential
  <2> QED
    BY <2>1, <2>2
<1>5. ASSUME NEW h \in Handlers, Request(h), HydrateRefused(h) \/ RejectImport(h) PROVE CredentialAt(p)'
  <2>1. PICK c : store' = Restored(c) /\ cfg' = cfg
    BY <1>5 DEF HydrateRefused, RejectImport, Aborts
  <2> QED
    BY <2>1, RestoredIntact DEF CredentialAt, Settled
<1>6. ASSUME NEW h \in Handlers, Request(h), RestoreRefused(h) PROVE CredentialAt(p)'
  <2>1. cfg' = cfg /\ RefsOf(cfg) \subseteq spoiled'
    BY <1>6 DEF RestoreRefused, Aborts
  <2>2. cfg[p].ref = p => p \in spoiled'
    BY <2>1, OwnerIsSelf, <1>0 DEF OwnRefs
  <2> QED
    BY <2>1, <2>2 DEF CredentialAt, Settled
<1>7. ASSUME NEW h \in Handlers, Request(h), Commit(h) PROVE CredentialAt(p)'
  <2> SUFFICES ASSUME Settled(p)'
               PROVE  store'[p] = cfg'[p].pw
    BY DEF CredentialAt
  <2>1. task[h].at = "apply" /\ cfg' = want[h] /\ UNCHANGED <<store, spoiled>>
    BY <1>7 DEF Commit
  <2>2. want[h][p].pw # None /\ want[h][p].ref = p /\ p \notin spoiled
    BY <2>1 DEF Settled
  <2>3. CASE Import(h) \/ p = task[h].id
    BY <2>1, <2>2, <2>3 DEF SInv, CandidateIntact
  <2>4. CASE ~Import(h) /\ p # task[h].id
    <3>1. want[h][p] = cfg[p] /\ p \notin task[h].refs
      BY <2>1, <2>4 DEF SInv, OneProxy
    <3>2. ~Overwriting(h, p)
      BY <3>1 DEF Overwriting
    <3>3. CredentialAt(p)'
      BY <1>7, <2>1, <3>1, <3>2, SameCredential
    <3> QED
      BY <3>3 DEF CredentialAt
  <2> QED
    BY <2>3, <2>4
<1>8. ASSUME NEW h \in Handlers, Request(h), Sweep(h) \/ SweepRefused(h) PROVE CredentialAt(p)'
  <2>1. PICK R \in SUBSET Obsolete(h) : store' = Without(R)
    BY <1>8 DEF Sweep, SweepRefused
  <2>2. task[h].at = "sweep" /\ cfg' = cfg /\ spoiled' = spoiled
    BY <1>8 DEF Sweep, SweepRefused, Aborts
  <2>3. ~Overwriting(h, p)
    BY <2>2 DEF Overwriting
  <2>4. CASE cfg[p].ref = p
    <3>1. p \notin R
      BY <2>1, <2>4, <1>0, OwnerIsSelf DEF Obsolete, OwnRefs
    <3>2. store'[p] = store[p]
      BY <2>1, <3>1 DEF Without
    <3> QED
      BY <1>8, <2>2, <2>3, <3>2, SameCredential
  <2>5. CASE cfg[p].ref # p
    BY <2>2, <2>5 DEF CredentialAt, Settled
  <2> QED
    BY <2>4, <2>5
<1>9. ASSUME NEW h \in Handlers, Request(h), Reject(h) PROVE CredentialAt(p)'
  <2> SUFFICES ASSUME Settled(p)'
               PROVE  store'[p] = cfg'[p].pw
    BY DEF CredentialAt
  <2>1. UNCHANGED <<cfg, store, spoiled>> /\ task[h].at = "apply" /\ ~Import(h)
    BY <1>9 DEF Reject
  <2>2. cfg[p].ref = p
    BY <2>1 DEF Settled
  <2>3. cfg[p].there
    BY <1>0, <2>2, NamesAssumption DEF OwnRefs, OwnRef, Absent
  <2>4. ASSUME Overwriting(h, p) PROVE Overwriting(h, p)'
    <3>1. p \in task[h].refs
      BY <2>4 DEF Overwriting
    <3>2. /\ task[h].id = p /\ task[h].refs # {}
          /\ task[h].kind \notin {"clear", "delete", "create", "discover", "none"}
      BY <1>0, <2>1, <2>3, <3>1 DEF OneProxy
    <3>3. task[h].kind = "update" /\ task[h].old = cfg[p]
      BY <1>0, <2>1, <3>2 DEF OneProxy, TypeOK, Task, Kinds, Import
    <3>4. task'[h] = [task[h] EXCEPT !.at = "undo"]
      BY <1>0, <1>9, <3>2, <3>3 DEF Reject, TypeOK
    <3>5. /\ task'[h].at = "undo" /\ task'[h].kind = "update" /\ task'[h].id = p
          /\ task'[h].old = cfg[p] /\ task'[h].refs = task[h].refs
      BY <1>0, <3>2, <3>3, <3>4 DEF TypeOK, Task
    <3> QED
      BY <2>1, <2>3, <3>1, <3>5 DEF Overwriting, StillPrevious
  <2>5. CredentialAt(p)'
    BY <1>9, <2>1, <2>4, SameCredential
  <2> QED
    BY <2>5 DEF CredentialAt
<1>10. ASSUME NEW h \in Handlers, Request(h), UndoCreate(h) \/ Tidy(h) PROVE CredentialAt(p)'
  <2>1. PICK R : store' = Without(R \ RefsOf(cfg))
    BY <1>10 DEF UndoCreate, Tidy
  <2>2. cfg' = cfg /\ spoiled' = spoiled /\ ~Overwriting(h, p)
    BY <1>10 DEF UndoCreate, Tidy, Aborts, Overwriting
  <2>3. CASE cfg[p].ref = p
    <3>1. p \in RefsOf(cfg)
      BY <2>3, <1>0, OwnerIsSelf DEF OwnRefs
    <3>2. store'[p] = store[p]
      BY <2>1, <3>1 DEF Without
    <3> QED
      BY <1>10, <2>2, <3>2, SameCredential
  <2>4. CASE cfg[p].ref # p
    BY <2>2, <2>4 DEF CredentialAt, Settled
  <2> QED
    BY <2>3, <2>4
<1>11. ASSUME NEW h \in Handlers, Request(h), UndoUpdate(h) PROVE CredentialAt(p)'
  <2>1. cfg' = cfg /\ task[h].at = "undo" /\ task[h].kind = "update"
    BY <1>11 DEF UndoUpdate, Aborts
  <2>2. /\ task[h].id \in Proxies /\ task[h].refs \subseteq {task[h].id}
        /\ task[h].old.ref \in {None, task[h].id}
    BY <1>0, <2>1 DEF OneProxy, Import
  <2>3. CASE StillPrevious(task[h])
    <3>1. cfg[task[h].id].ref = task[h].old.ref /\ cfg[task[h].id].pw = task[h].old.pw
      BY <2>3 DEF StillPrevious
    <3>2. /\ store'[p] = IF p = task[h].old.ref THEN task[h].old.pw
                         ELSE IF p \in task[h].refs THEN None ELSE store[p]
          /\ spoiled' = spoiled \ {task[h].old.ref}
      BY <1>11, <2>3 DEF UndoUpdate
    <3>3. CASE p = task[h].old.ref
      BY <2>1, <2>2, <3>1, <3>2, <3>3, NamesAssumption DEF CredentialAt, Settled
    <3>4. CASE p # task[h].old.ref /\ p \in task[h].refs
      BY <2>1, <2>2, <3>1, <3>4 DEF CredentialAt, Settled
    <3>5. CASE p # task[h].old.ref /\ p \notin task[h].refs
      <4>1. ~Overwriting(h, p)
        BY <3>5 DEF Overwriting
      <4> QED
        BY <1>11, <2>1, <3>2, <3>5, <4>1, SameCredential
    <3> QED
      BY <3>3, <3>4, <3>5
  <2>4. CASE ~StillPrevious(task[h])
    <3>1. UNCHANGED <<store, spoiled>>
      BY <1>11, <2>4 DEF UndoUpdate
    <3>2. ~Overwriting(h, p)
      BY <2>1, <2>4 DEF Overwriting
    <3> QED
      BY <1>11, <2>1, <3>1, <3>2, SameCredential
  <2> QED
    BY <2>3, <2>4
<1>12. ASSUME NEW h \in Handlers, Request(h), UndoRefused(h) PROVE CredentialAt(p)'
  <2>1. /\ cfg' = cfg /\ task[h].at = "undo"
        /\ store' \in {store, Without({task[h].old.ref})}
        /\ spoiled' = spoiled \cup ({task[h].old.ref} \ {None})
    BY <1>12 DEF UndoRefused, Aborts
  <2>2. task[h].id \in Proxies /\ task[h].refs \subseteq {task[h].id}
    BY <1>0, <2>1 DEF OneProxy, Import
  <2>3. CASE p = task[h].old.ref
    BY <2>1, <2>3, NamesAssumption DEF CredentialAt, Settled
  <2>4. CASE p # task[h].old.ref
    <3>1. store'[p] = store[p]
      BY <2>1, <2>4 DEF Without
    <3>2. CASE cfg[p].ref = p
      <4>1. ~Overwriting(h, p)
        BY <2>1, <2>2, <2>4, <3>2 DEF Overwriting, StillPrevious
      <4> QED
        BY <1>12, <2>1, <3>1, <4>1, SameCredential
    <3>3. CASE cfg[p].ref # p
      BY <2>1, <3>3 DEF CredentialAt, Settled
    <3> QED
      BY <3>2, <3>3
  <2> QED
    BY <2>3, <2>4
<1>13. ASSUME NEW h \in Handlers, Request(h), TidyRefused(h) PROVE CredentialAt(p)'
  <2>1. UNCHANGED <<cfg, store, spoiled>> /\ ~Overwriting(h, p)
    BY <1>13 DEF TidyRefused, Aborts, Overwriting
  <2> QED
    BY <1>13, <2>1, SameCredential
<1>14. CASE Crash
  BY <1>14 DEF Crash, CredentialAt, Settled
<1>15. CASE Boot
  <2>1. CASE Readable(disk)
    <3>1. cfg' = Hydrated(disk) /\ store' = store
      BY <1>15, <2>1 DEF Boot
    <3>2. disk \in Config /\ \A q \in Proxies : OwnRef(disk[q], q) /\ disk[q].pw = None
      BY <1>0 DEF TypeOK, OwnRefs
    <3>3. Hydrated(disk)[p].ref = p => Hydrated(disk)[p].pw = store[p]
      <4>1. Given(disk) = {}
        BY <3>2 DEF Given
      <4> QED
        BY <1>0, <3>2, <4>1, HydratedOwn
    <3> QED
      BY <3>1, <3>3 DEF CredentialAt, Settled
  <2>2. CASE ~Readable(disk)
    BY <1>15, <2>2, NamesAssumption DEF Boot, CredentialAt, Settled, Empty, Absent
  <2> QED
    BY <2>1, <2>2
<1>16. CASE UNCHANGED vars
  <2>1. CredentialAt(p)
    BY <1>0, CredentialByProxy DEF SInv
  <2> QED
    BY <1>16, <2>1 DEF vars, CredentialAt, Settled, Overwriting, StillPrevious
<1> QED
  BY <1>1, <1>2, <1>3, <1>4, <1>5, <1>6, <1>7, <1>8, <1>9, <1>10, <1>11, <1>12, <1>13,
     <1>14, <1>15, <1>16, BeginsIsBegin DEF Next, Request

\* The references of configurations that keep identifiers, before a step and
\* after it.
LEMMA OwnedRefs ==
  /\ OwnRefs => /\ RefsOf(cfg) = {p \in Proxies : cfg[p].ref = p}
                /\ RefsOf(disk) = {p \in Proxies : disk[p].ref = p}
                /\ \A h \in Handlers : RefsOf(want[h]) = {p \in Proxies : want[h][p].ref = p}
  /\ OwnRefs' => /\ RefsOf(cfg)' = {p \in Proxies : cfg'[p].ref = p}
                 /\ RefsOf(disk)' = {p \in Proxies : disk'[p].ref = p}
                 /\ \A h \in Handlers : RefsOf(want[h])' = {p \in Proxies : want'[h][p].ref = p}
<1> USE NamesAssumption DEF OwnRefs, OwnRef, RefsOf
<1>1. OwnRefs => /\ RefsOf(cfg) = {p \in Proxies : cfg[p].ref = p}
                 /\ RefsOf(disk) = {p \in Proxies : disk[p].ref = p}
                 /\ \A h \in Handlers : RefsOf(want[h]) = {p \in Proxies : want[h][p].ref = p}
  OBVIOUS
<1>2. OwnRefs' => /\ RefsOf(cfg)' = {p \in Proxies : cfg'[p].ref = p}
                  /\ RefsOf(disk)' = {p \in Proxies : disk'[p].ref = p}
                  /\ \A h \in Handlers : RefsOf(want[h])' = {p \in Proxies : want'[h][p].ref = p}
  OBVIOUS
<1> QED
  BY <1>1, <1>2

\* Hydration gives every password a reference, and drops none.
LEMMA HydratedReferred ==
  ASSUME NEW c \in Config, \A p \in Proxies : OwnRef(c[p], p), NEW p \in Proxies
  PROVE  /\ Hydrated(c)[p].pw # None => Hydrated(c)[p].ref # None
         /\ c[p].ref = p => Hydrated(c)[p].ref = p
         /\ c[p].pw = None => Hydrated(c)[p].ref = c[p].ref
<1> USE NamesAssumption DEF OwnRef, Config, Entry, Absent
<1>1. CASE c[p].pw # None
  <2>1. Hydrated(c)[p] = [c[p] EXCEPT !.ref = RefFor(c[p], p)]
    BY <1>1 DEF Hydrated
  <2>2. RefFor(c[p], p) = p
    BY DEF RefFor
  <2> QED
    BY <1>1, <2>1, <2>2
<1>2. CASE c[p].pw = None /\ c[p].ref # None
  <2>1. Hydrated(c)[p] = [c[p] EXCEPT !.pw = store[c[p].ref]]
    BY <1>2 DEF Hydrated
  <2> QED
    BY <1>2, <2>1
<1>3. CASE c[p].pw = None /\ c[p].ref = None
  BY <1>3 DEF Hydrated
<1> QED
  BY <1>1, <1>2, <1>3

\* What a request's record is after a step that leaves it, or that moves it.
LEMMA AfterLeave ==
  ASSUME SInv, NEW h \in Handlers, Leave(h)
  PROVE  task'[h] = NoTask /\ task'[h].at = "idle"
BY DEF SInv, TypeOK, Leave, NoTask

\* The steps after which a request has no candidate, and that publish nothing.
Quits(h) ==
  \/ PutRefused(h) \/ HydrateRefused(h) \/ Sweep(h) \/ SweepRefused(h)
  \/ Reject(h) \/ RejectImport(h) \/ RestoreRefused(h)
  \/ UndoCreate(h) \/ UndoUpdate(h) \/ UndoRefused(h)
  \/ Tidy(h) \/ TidyRefused(h)

\* They are the ends of requests, and the rejection that leads to an undo.
LEMMA QuitFacts ==
  ASSUME SInv, NEW h \in Handlers, Quits(h)
  PROVE  task'[h].at \in {"idle", "undo"} /\ UNCHANGED <<cfg, disk>>
<1> USE DEF SInv, TypeOK
<1>1. CASE Reject(h)
  <2>1. CASE task[h].kind \in {"create", "update"} /\ task[h].refs # {}
    <3>1. task'[h] = [task[h] EXCEPT !.at = "undo"]
      BY <1>1, <2>1 DEF Reject
    <3> QED
      BY <1>1, <3>1 DEF Reject, Task
  <2>2. CASE ~(task[h].kind \in {"create", "update"} /\ task[h].refs # {})
    BY <1>1, <2>2, AfterLeave DEF Reject
  <2> QED
    BY <2>1, <2>2
<1>2. CASE ~Reject(h)
  <2>1. Aborts(h)
    BY <1>2 DEF Quits, PutRefused, HydrateRefused, Sweep, SweepRefused, RejectImport,
                RestoreRefused, UndoCreate, UndoUpdate, UndoRefused, Tidy, TidyRefused
  <2> QED
    BY <2>1, AfterLeave DEF Aborts
<1> QED
  BY <1>1, <1>2

\* The steps before a candidate is written: nothing shared changes.
Looks(h) ==
  \/ \E p \in Proxies, pw \in Passwords \cup {None} : LookToMerge(h, p, pw)
  \/ \E p \in Proxies : LookToDelete(h, p)
  \/ Merge(h) \/ PutConfig(h)

\* They lead to a request that is looking, or about to write.
LEMMA LookFacts ==
  ASSUME SInv, NEW h \in Handlers, Looks(h)
  PROVE  /\ task[h].at \in {"idle", "look"} /\ task'[h].at \in {"look", "put"}
         /\ UNCHANGED <<cfg, disk, store, leaked>>
<1> USE DEF SInv, TypeOK
<1>1. ASSUME NEW p \in Proxies, NEW pw \in Passwords \cup {None}, LookToMerge(h, p, pw)
      PROVE  task[h].at = "idle" /\ task'[h].at = "look" /\ UNCHANGED <<cfg, disk, store, leaked>>
  BY <1>1 DEF LookToMerge, Enter
<1>2. ASSUME NEW p \in Proxies, LookToDelete(h, p)
      PROVE  task[h].at = "idle" /\ task'[h].at = "look" /\ UNCHANGED <<cfg, disk, store, leaked>>
  BY <1>2 DEF LookToDelete, Enter
<1>3. CASE Merge(h)
  <2>1. task'[h] = [task[h] EXCEPT !.at = "put"]
    BY <1>3 DEF Merge
  <2> QED
    BY <1>3, <2>1 DEF Merge, Task
<1>4. CASE PutConfig(h)
  <2>1. PICK c : Enter(h, "put", "import", None, Absent, {}, c)
    BY <1>4 DEF PutConfig
  <2> QED
    BY <1>4, <2>1 DEF Enter, PutConfig, Arrives
<1> QED
  BY <1>1, <1>2, <1>3, <1>4 DEF Looks

\* A delete that finds the proxy has a candidate without it.
LEMMA DeleteFacts ==
  ASSUME SInv, NEW h \in Handlers, Delete(h)
  PROVE  /\ UNCHANGED <<cfg, disk, store, leaked>> /\ task[h].at = "look"
         /\ \/ task'[h].at = "idle"
            \/ /\ task'[h].at = "apply" /\ task'[h].kind = "delete" /\ task'[h].refs = {}
               /\ \A p \in Proxies : want'[h][p] \in {cfg[p], Absent}
<1> USE DEF SInv, TypeOK
<1>1. CASE cfg[task[h].id].there
  <2>1. Enter(h, "apply", "delete", task[h].id, task[h].old, {}, [cfg EXCEPT ![task[h].id] = Absent])
    BY <1>1 DEF Delete
  <2> QED
    BY <2>1 DEF Delete, Enter, Config
<1>2. CASE ~cfg[task[h].id].there
  BY <1>2, AfterLeave DEF Delete
<1> QED
  BY <1>1, <1>2

\* What a transaction has once its passwords are written.
LEMMA PutFacts ==
  ASSUME SInv, NEW h \in Handlers, Put(h)
  PROVE  /\ task'[h].at = "apply" /\ task'[h].refs = ToWrite(h) /\ task'[h].kind = task[h].kind
         /\ want'[h] = Target(h) /\ UNCHANGED <<cfg, disk>>
BY DEF SInv, TypeOK, Put, Task

\* The steps of a request, in the groups of the proofs below.
LEMMA RequestCases ==
  ASSUME SInv, NEW h \in Handlers, Request(h)
  PROVE  Begins(h) \/ Looks(h) \/ Delete(h) \/ Put(h) \/ Commit(h) \/ Quits(h)
BY BeginsIsBegin DEF Request, Looks, Quits

\* The requests that a step is not of keep the references of their candidates.
LEMMA OthersReferred ==
  ASSUME SInv, NEW h \in Handlers, Request(h),
         \A p \in Proxies : cfg'[p].pw # None => cfg'[p].ref # None,
         RefsOf(cfg)' \subseteq RefsOf(disk)',
         task'[h].at = "apply" => \A p \in Proxies : want'[h][p].pw # None => want'[h][p].ref # None
  PROVE  Referred'
BY RequestFrame DEF SInv, Referred

\* Every password is held under a reference, and the file has the references
\* of the published configuration.
LEMMA ReferredPreserved == ~Renames /\ SInv /\ [Next]_vars => Referred'
<1> SUFFICES ASSUME ~Renames, SInv, [Next]_vars
             PROVE  Referred'
  OBVIOUS
<1>0. TypeOK /\ OwnRefs /\ Referred
  BY DEF SInv
<1>same. ASSUME UNCHANGED <<cfg, disk>>
         PROVE  /\ \A p \in Proxies : cfg'[p].pw # None => cfg'[p].ref # None
                /\ RefsOf(cfg)' \subseteq RefsOf(disk)'
  BY <1>0, <1>same DEF Referred, RefsOf
<1>1. ASSUME NEW h \in Handlers, Request(h), Begins(h) PROVE Referred'
  <2>1. PICK kind \in {"create", "discover", "update", "clear"}, p \in Proxies, e \in Entry :
          Begin(h, kind, p, e) /\ OwnRef(e, p)
    BY <1>1 DEF Begins
  <2>2. /\ task'[h].at = "apply" => want'[h][p].pw = None
        /\ \A q \in Proxies \ {p} : want'[h][q] = cfg[q]
        /\ UNCHANGED <<cfg, disk>>
    <3>1. /\ task'[h].kind = kind /\ task'[h].id = p /\ task'[h].old = cfg[p]
          /\ \/ task'[h].at = "apply" /\ task'[h].refs = {} /\ want'[h][p].pw = None
             \/ task'[h].at = "put" /\ task'[h].refs = {p} /\ want'[h][p].ref = p /\ e.pw # None
          /\ OwnRef(want'[h][p], p)
          /\ e.ref = p => want'[h][p].ref = p
          /\ \A q \in Proxies \ {p} : want'[h][q] = cfg[q]
          /\ UNCHANGED <<cfg, disk, store, up, spoiled>>
      BY <2>1, BeginFacts
    <3> QED
      BY <3>1
  <2> QED
    BY <1>0, <1>1, <1>same, <2>2, OthersReferred DEF Referred
<1>2. ASSUME NEW h \in Handlers, Request(h), Looks(h) \/ Quits(h) PROVE Referred'
  <2>1. task'[h].at # "apply" /\ UNCHANGED <<cfg, disk>>
    BY <1>2, LookFacts, QuitFacts
  <2> QED
    BY <1>2, <1>same, <2>1, OthersReferred
<1>3. ASSUME NEW h \in Handlers, Request(h), Delete(h) PROVE Referred'
  <2>1. /\ UNCHANGED <<cfg, disk>>
        /\ task'[h].at = "apply" => \A p \in Proxies : want'[h][p] \in {cfg[p], Absent}
    BY <1>3, DeleteFacts
  <2> QED
    BY <1>0, <1>3, <1>same, <2>1, OthersReferred DEF Referred, Absent
<1>4. ASSUME NEW h \in Handlers, Request(h), Put(h) PROVE Referred'
  <2>1. want'[h] = Target(h) /\ UNCHANGED <<cfg, disk>> /\ task[h].at = "put"
    BY <1>4, PutFacts DEF Put
  <2>2. \A p \in Proxies : Target(h)[p].pw # None => Target(h)[p].ref # None
    <3>1. CASE Import(h)
      <4>1. Target(h) = Hydrated(want[h])
        BY <2>1, <3>1 DEF Target
      <4>2. want[h] \in Config /\ \A p \in Proxies : OwnRef(want[h][p], p)
        BY <1>0 DEF TypeOK, OwnRefs
      <4> QED
        BY <4>1, <4>2, HydratedReferred
    <3>2. CASE ~Import(h)
      <4>1. Target(h) = want[h]
        BY <3>2 DEF Target
      <4>2. /\ task[h].id \in Proxies /\ want[h][task[h].id].ref = task[h].id
            /\ \A p \in Proxies \ {task[h].id} : want[h][p] = cfg[p]
        BY <2>1, <3>2 DEF SInv, OneProxy
      <4> QED
        BY <1>0, <4>1, <4>2, NamesAssumption DEF Referred
    <3> QED
      BY <3>1, <3>2
  <2> QED
    BY <1>4, <1>same, <2>1, <2>2, OthersReferred
<1>5. ASSUME NEW h \in Handlers, Request(h), Commit(h) PROVE Referred'
  <2>1. task[h].at = "apply" /\ cfg' = want[h] /\ disk' = Bare(want[h])
    BY <1>5 DEF Commit
  <2>2. task'[h].at # "apply"
    BY <1>0, <1>5 DEF Commit, Leave, NoTask, TypeOK, Task
  <2>3. RefsOf(cfg)' \subseteq RefsOf(disk)'
    BY <2>1 DEF RefsOf, Bare
  <2>4. \A p \in Proxies : cfg'[p].pw # None => cfg'[p].ref # None
    BY <1>0, <2>1 DEF Referred
  <2> QED
    BY <1>5, <2>2, <2>3, <2>4, OthersReferred
<1>6. CASE Crash
  BY <1>6, <1>same DEF Crash, Referred, NoTask
<1>7. CASE Boot
  <2>1. \A h \in Handlers : task'[h].at = "idle"
    BY <1>7 DEF Boot, SInv, DownIsIdle, NoTask
  <2>2. CASE Readable(disk)
    <3>1. cfg' = Hydrated(disk) /\ disk' = disk
      BY <1>7, <2>2 DEF Boot
    <3>2. disk \in Config /\ \A p \in Proxies : OwnRef(disk[p], p) /\ disk[p].pw = None
      BY <1>0 DEF TypeOK, OwnRefs
    <3>3. \A p \in Proxies : /\ Hydrated(disk)[p].pw # None => Hydrated(disk)[p].ref # None
                             /\ Hydrated(disk)[p].ref = disk[p].ref
      BY <3>2, HydratedReferred
    <3>4. RefsOf(cfg)' \subseteq RefsOf(disk)'
      BY <3>1, <3>3 DEF RefsOf
    <3> QED
      BY <2>1, <3>1, <3>3, <3>4 DEF Referred
  <2>3. CASE ~Readable(disk)
    <3>1. cfg' = Empty
      BY <1>7, <2>3 DEF Boot
    <3>2. RefsOf(cfg)' = {}
      BY <3>1 DEF RefsOf, Empty, Absent
    <3> QED
      BY <2>1, <3>1, <3>2 DEF Referred, Empty, Absent
  <2> QED
    BY <2>2, <2>3
<1>8. CASE UNCHANGED vars
  BY <1>0, <1>8, <1>same DEF vars, Referred
<1> QED
  BY <1>1, <1>2, <1>3, <1>4, <1>5, <1>6, <1>7, <1>8, RequestCases DEF Next

\* What CandidateKeeps says of one request.
CandidateKeepsOf(h) ==
  /\ task[h].refs \subseteq RefsOf(want[h])
  /\ task[h].kind \in {"create", "discover", "update"} => RefsOf(cfg) \subseteq RefsOf(want[h])

\* A step of another request leaves the candidate and the configuration that
\* it is compared with.
LEMMA OthersKeep ==
  ASSUME SInv, NEW h \in Handlers, Request(h), task'[h].at = "apply" => CandidateKeepsOf(h)'
  PROVE  CandidateKeeps'
<1>1. ASSUME NEW g \in Handlers \ {h}, task'[g].at = "apply" PROVE CandidateKeepsOf(g)'
  <2>1. task'[g] = task[g] /\ want'[g] = want[g]
    BY RequestFrame
  <2>2. ~LockFree /\ ~Holding(h)
    BY <1>1, <2>1 DEF SInv, OneTransaction, LockFree, Holding
  <2>3. cfg' = cfg
    BY <2>2, RequestFrame
  <2>4. CandidateKeepsOf(g)
    BY <1>1, <2>1 DEF SInv, CandidateKeeps, CandidateKeepsOf
  <2> QED
    BY <2>1, <2>3, <2>4 DEF CandidateKeepsOf, RefsOf
<1> QED
  BY <1>1 DEF CandidateKeeps, CandidateKeepsOf

\* A candidate names the files written for it, and drops no reference of a
\* proxy it does not clear or delete.
LEMMA KeepsPreserved == ~Renames /\ SInv /\ [Next]_vars => CandidateKeeps'
<1> SUFFICES ASSUME ~Renames, SInv, [Next]_vars
             PROVE  CandidateKeeps'
  OBVIOUS
<1>0. TypeOK /\ OwnRefs
  BY DEF SInv
<1>own. OwnRefs'
  BY OwnRefsPreserved
<1>1. ASSUME NEW h \in Handlers, Request(h), Begins(h) PROVE CandidateKeeps'
  <2> SUFFICES ASSUME task'[h].at = "apply" PROVE CandidateKeepsOf(h)'
    BY <1>1, OthersKeep
  <2>1. PICK kind \in {"create", "discover", "update", "clear"}, p \in Proxies, e \in Entry :
          /\ Begin(h, kind, p, e) /\ OwnRef(e, p)
          /\ kind \in {"create", "discover"} <=> ~cfg[p].there
          /\ kind = "update" => e.ref = cfg[p].ref
    BY <1>1 DEF Begins
  <2>2. /\ task'[h].kind = kind /\ task'[h].refs = {} /\ cfg' = cfg
        /\ e.ref = p => want'[h][p].ref = p
        /\ \A q \in Proxies \ {p} : want'[h][q] = cfg[q]
    <3>1. /\ task'[h].kind = kind /\ task'[h].id = p /\ task'[h].old = cfg[p]
          /\ \/ task'[h].at = "apply" /\ task'[h].refs = {} /\ want'[h][p].pw = None
             \/ task'[h].at = "put" /\ task'[h].refs = {p} /\ want'[h][p].ref = p /\ e.pw # None
          /\ OwnRef(want'[h][p], p)
          /\ e.ref = p => want'[h][p].ref = p
          /\ \A q \in Proxies \ {p} : want'[h][q] = cfg[q]
          /\ UNCHANGED <<cfg, disk, store, up, spoiled>>
      BY <2>1, BeginFacts
    <3> QED
      BY <3>1
  <2>3. ~cfg[p].there => cfg[p].ref # p
    BY <1>0, NamesAssumption DEF OwnRefs, OwnRef, Absent
  <2>4. ASSUME kind \in {"create", "discover", "update"}, NEW q \in Proxies, cfg[q].ref = q
        PROVE  want'[h][q].ref = q
    BY <2>1, <2>2, <2>3, <2>4
  <2> QED
    BY <1>0, <1>own, <2>2, <2>4, OwnedRefs DEF CandidateKeepsOf
<1>2. ASSUME NEW h \in Handlers, Request(h), Looks(h) \/ Quits(h) PROVE CandidateKeeps'
  <2>1. task'[h].at # "apply"
    BY <1>2, LookFacts, QuitFacts
  <2> QED
    BY <1>2, <2>1, OthersKeep
<1>3. ASSUME NEW h \in Handlers, Request(h), Delete(h) PROVE CandidateKeeps'
  <2>1. task'[h].at = "apply" => task'[h].kind = "delete" /\ task'[h].refs = {}
    BY <1>3, DeleteFacts
  <2> QED
    BY <1>3, <2>1, OthersKeep DEF CandidateKeepsOf
<1>4. ASSUME NEW h \in Handlers, Request(h), Put(h) PROVE CandidateKeeps'
  <2>1. /\ task'[h].refs = ToWrite(h) /\ task'[h].kind = task[h].kind
        /\ want'[h] = Target(h) /\ cfg' = cfg /\ task[h].at = "put"
    BY <1>4, PutFacts DEF Put
  <2>2. \A p \in ToWrite(h) : p \in Proxies /\ want'[h][p].ref = p
    BY <2>1, ToWriteOwn
  <2>3. ASSUME task[h].kind \in {"create", "discover", "update"}, NEW p \in Proxies, cfg[p].ref = p
        PROVE  want'[h][p].ref = p
    <3>1. want'[h] = want[h] /\ ~Import(h)
      BY <2>1, <2>3 DEF Target, Import
    <3>2. /\ want[h][task[h].id].ref = task[h].id
          /\ \A q \in Proxies \ {task[h].id} : want[h][q] = cfg[q]
      BY <2>1, <3>1 DEF SInv, OneProxy
    <3> QED
      BY <2>3, <3>1, <3>2
  <2>4. CandidateKeepsOf(h)'
    BY <1>0, <1>own, <2>1, <2>2, <2>3, OwnedRefs DEF CandidateKeepsOf
  <2> QED
    BY <1>4, <2>4, OthersKeep
<1>5. ASSUME NEW h \in Handlers, Request(h), Commit(h) PROVE CandidateKeeps'
  <2>1. task'[h].at # "apply"
    BY <1>0, <1>5 DEF Commit, Leave, NoTask, TypeOK, Task
  <2> QED
    BY <1>5, <2>1, OthersKeep
<1>6. CASE Crash \/ Boot
  <2>1. \A h \in Handlers : task'[h].at = "idle"
    BY <1>6 DEF Crash, Boot, SInv, DownIsIdle, NoTask
  <2> QED
    BY <2>1 DEF CandidateKeeps
<1>7. CASE UNCHANGED vars
  BY <1>7 DEF vars, SInv, CandidateKeeps, RefsOf
<1> QED
  BY <1>1, <1>2, <1>3, <1>4, <1>5, <1>6, <1>7, RequestCases DEF Next

\* What Accounted says of one file.
AccountedAt(r) ==
  \/ store[r] = None \/ r \in leaked \/ r \in RefsOf(cfg)
  \/ \E h \in Handlers : r \in Duty(h)

\* The others answer for the same files after a request's step, so that only
\* what made the request, the configuration or the history answer for a file
\* is to be looked at.
LEMMA SameAccount ==
  ASSUME SInv, NEW h \in Handlers, Request(h), NEW r \in Proxies,
         store[r] = None => AccountedAt(r)',
         r \in leaked => AccountedAt(r)',
         r \in RefsOf(cfg) => AccountedAt(r)',
         r \in Duty(h) => AccountedAt(r)'
  PROVE  AccountedAt(r)'
<1>1. ASSUME NEW g \in Handlers \ {h}, r \in Duty(g) PROVE r \in Duty(g)'
  <2>1. task'[g] = task[g] /\ want'[g] = want[g]
    BY RequestFrame
  <2> QED
    BY <1>1, <2>1 DEF Duty, RefsOf
<1>2. AccountedAt(r)
  BY DEF SInv, Accounted, AccountedAt
<1> QED
  BY <1>1, <1>2 DEF AccountedAt

\* Every file in the store has somebody to answer for it.
LEMMA AccountedPreserved == ~Renames /\ SInv /\ [Next]_vars => Accounted'
<1> SUFFICES ASSUME ~Renames, SInv, [Next]_vars, NEW r \in Proxies
             PROVE  AccountedAt(r)'
  BY DEF Accounted, AccountedAt
<1>0. /\ TypeOK /\ OwnRefs /\ OneProxy /\ Referred /\ CandidateKeeps /\ AccountedAt(r)
      /\ r # None
  BY NamesAssumption DEF SInv, Accounted, AccountedAt
<1>own. OwnRefs'
  BY OwnRefsPreserved
<1>cfg. ASSUME cfg' = cfg, r \in RefsOf(cfg) PROVE AccountedAt(r)'
  BY <1>cfg DEF AccountedAt, RefsOf
<1>1. ASSUME NEW h \in Handlers, Request(h), Begins(h) \/ Looks(h) \/ Delete(h) PROVE AccountedAt(r)'
  <2>1. UNCHANGED <<cfg, store, leaked>> /\ task[h].at \in {"idle", "look"}
    <3>1. CASE Begins(h)
      BY <3>1 DEF Begins, Begin
    <3>2. CASE Looks(h) \/ Delete(h)
      BY <3>2, LookFacts, DeleteFacts
    <3> QED
      BY <1>1, <3>1, <3>2
  <2>2. Duty(h) = {}
    BY <2>1 DEF Duty
  <2> QED
    BY <1>1, <1>cfg, <2>1, <2>2, SameAccount DEF AccountedAt
<1>2. ASSUME NEW h \in Handlers, Request(h), Put(h) PROVE AccountedAt(r)'
  <2>1. CASE r \in ToWrite(h)
    <3>1. r \in Duty(h)'
      BY <1>2, <2>1, PutFacts DEF Duty
    <3> QED
      BY <3>1 DEF AccountedAt
  <2>2. CASE r \notin ToWrite(h)
    <3>1. cfg' = cfg /\ store'[r] = store[r] /\ (r \in leaked => r \in leaked')
      BY <1>2, <2>2 DEF Put, Written
    <3>2. Duty(h) = {}
      BY <1>2 DEF Put, Duty
    <3> QED
      BY <1>2, <1>cfg, <3>1, <3>2, SameAccount DEF AccountedAt
  <2> QED
    BY <2>1, <2>2
<1>3. ASSUME NEW h \in Handlers, Request(h), PutRefused(h) PROVE AccountedAt(r)'
  <2>1. UNCHANGED <<cfg, leaked>> /\ (store[r] = None => store'[r] = None)
    BY <1>3 DEF PutRefused, Aborts, Without
  <2>2. Duty(h) = {}
    BY <1>3 DEF PutRefused, Duty
  <2> QED
    BY <1>3, <1>cfg, <2>1, <2>2, SameAccount DEF AccountedAt
<1>4. ASSUME NEW h \in Handlers, Request(h), HydrateRefused(h) PROVE AccountedAt(r)'
  <2>1. UNCHANGED <<cfg, leaked>>
    BY <1>4 DEF HydrateRefused, Aborts
  <2>2. r \in RefsOf(cfg) \/ (store[r] = None => store'[r] = None)
    BY <1>4 DEF HydrateRefused, Restored
  <2>3. Duty(h) = {}
    BY <1>4 DEF HydrateRefused, Duty
  <2> QED
    BY <1>4, <1>cfg, <2>1, <2>2, <2>3, SameAccount DEF AccountedAt
<1>5. ASSUME NEW h \in Handlers, Request(h), Commit(h) PROVE AccountedAt(r)'
  <2>1. /\ task[h].at = "apply" /\ cfg' = want[h] /\ store' = store
        /\ r \in leaked => r \in leaked'
    BY <1>5 DEF Commit
  <2>2. r \in RefsOf(want[h]) => AccountedAt(r)'
    BY <2>1 DEF AccountedAt, RefsOf
  <2>3. r \in Duty(h) => r \in RefsOf(want[h])
    BY <1>0, <2>1 DEF Duty, CandidateKeeps
  <2>4. ASSUME r \in RefsOf(cfg) PROVE AccountedAt(r)'
    <3>1. cfg[r].ref = r
      BY <1>0, <2>4, OwnedRefs
    <3>2. CASE Import(h)
      <4>1. task'[h].at = "sweep" /\ want'[h] = cfg
        <5>1. /\ task' = [task EXCEPT ![h].at = "sweep"]
              /\ want' = [want EXCEPT ![h] = cfg]
          BY <1>5, <3>2 DEF Commit, Import
        <5>2. task'[h] = [task[h] EXCEPT !.at = "sweep"]
          BY <1>0, <5>1 DEF TypeOK
        <5> QED
          BY <1>0, <5>1, <5>2 DEF TypeOK, Task
      <4>2. r \in Duty(h)'
        BY <2>4, <4>1 DEF Duty, RefsOf
      <4> QED
        BY <4>2 DEF AccountedAt
    <3>3. CASE task[h].kind \in {"create", "discover", "update"}
      BY <1>0, <2>1, <2>2, <2>4, <3>3 DEF CandidateKeeps
    <3>4. CASE task[h].kind \in {"clear", "delete"}
      <4>1. /\ task[h].kind = "delete" \/ task[h].old = cfg[task[h].id]
            /\ \A p \in Proxies \ {task[h].id} : want[h][p] = cfg[p]
        BY <1>0, <2>1, <3>4 DEF OneProxy, Import
      <4>2. CASE r # task[h].id
        <5>1. r \in RefsOf(want[h])
          BY <1>0, <3>1, <4>1, <4>2, OwnedRefs
        <5> QED
          BY <2>2, <5>1
      <4>3. CASE r = task[h].id /\ task[h].old.ref = r
        <5>1. task'[h] = [task[h] EXCEPT !.at = "tidy"]
          BY <1>0, <1>5, <3>4, <4>3 DEF Commit, Import, TypeOK
        <5>2. task'[h].at = "tidy" /\ task'[h].old = task[h].old
          BY <1>0, <5>1 DEF TypeOK, Task
        <5>3. r \in Duty(h)'
          BY <4>3, <5>2 DEF Duty
        <5> QED
          BY <5>3 DEF AccountedAt
      <4>4. CASE r = task[h].id /\ task[h].old.ref # r
        <5>1. task[h].kind = "delete"
          BY <3>1, <4>1, <4>4
        <5>2. r \in leaked'
          BY <1>0, <1>5, <3>1, <4>4, <5>1 DEF Commit
        <5> QED
          BY <5>2 DEF AccountedAt
      <4> QED
        BY <4>2, <4>3, <4>4
    <3>5. task[h].kind \in Kinds /\ (~Import(h) => task[h].kind # "none")
      BY <1>0, <2>1 DEF TypeOK, Task, OneProxy
    <3> QED
      BY <3>2, <3>3, <3>4, <3>5 DEF Kinds, Import
  <2> QED
    BY <1>5, <2>1, <2>2, <2>3, <2>4, SameAccount DEF AccountedAt
<1>6. ASSUME NEW h \in Handlers, Request(h), Sweep(h) \/ SweepRefused(h) PROVE AccountedAt(r)'
  <2>1. /\ cfg' = cfg /\ (r \in leaked => r \in leaked')
        /\ store[r] = None => store'[r] = None
        /\ r \in Obsolete(h) => store'[r] = None \/ r \in leaked'
    BY <1>6 DEF Sweep, SweepRefused, Aborts, Without
  <2>2. r \in Duty(h) => r \in RefsOf(cfg) \/ r \in Obsolete(h)
    BY <1>6 DEF Sweep, SweepRefused, Duty, Obsolete
  <2> QED
    BY <1>6, <1>cfg, <2>1, <2>2, SameAccount DEF AccountedAt
<1>7. ASSUME NEW h \in Handlers, Request(h), Reject(h) PROVE AccountedAt(r)'
  <2>1. /\ task[h].at = "apply" /\ ~Import(h) /\ UNCHANGED <<cfg, store>>
        /\ r \in leaked => r \in leaked'
    BY <1>7 DEF Reject
  <2>2. ASSUME r \in Duty(h) PROVE AccountedAt(r)'
    <3>1. r \in task[h].refs
      BY <2>1, <2>2 DEF Duty
    <3>2. task[h].kind \in {"create", "update", "discover"}
      BY <1>0, <2>1, <3>1 DEF OneProxy, TypeOK, Task, Kinds, Import
    <3>3. CASE task[h].kind = "discover"
      BY <1>7, <3>1, <3>3 DEF Reject, AccountedAt
    <3>4. CASE task[h].kind \in {"create", "update"}
      <4>1. task'[h] = [task[h] EXCEPT !.at = "undo"]
        BY <1>0, <1>7, <3>1, <3>4 DEF Reject, TypeOK
      <4>2. task'[h].at = "undo" /\ task'[h].refs = task[h].refs
        BY <1>0, <4>1 DEF TypeOK, Task
      <4>3. r \in Duty(h)'
        BY <3>1, <4>2 DEF Duty
      <4> QED
        BY <4>3 DEF AccountedAt
    <3> QED
      BY <3>2, <3>3, <3>4
  <2> QED
    BY <1>7, <1>cfg, <2>1, <2>2, SameAccount DEF AccountedAt
<1>8. ASSUME NEW h \in Handlers, Request(h), RejectImport(h) PROVE AccountedAt(r)'
  <2>1. task[h].at = "apply" /\ store' = Restored(want[h]) /\ UNCHANGED <<cfg, leaked>>
    BY <1>8 DEF RejectImport, Aborts
  <2>2. r \in Duty(h) => r \in RefsOf(want[h])
    BY <1>0, <2>1 DEF Duty, CandidateKeeps
  <2>3. r \in RefsOf(cfg) \/ (/\ store[r] = None => store'[r] = None
                              /\ r \in RefsOf(want[h]) => store'[r] = None)
    BY <2>1 DEF Restored
  <2> QED
    BY <1>8, <1>cfg, <2>1, <2>2, <2>3, SameAccount DEF AccountedAt
<1>9. ASSUME NEW h \in Handlers, Request(h), RestoreRefused(h) PROVE AccountedAt(r)'
  <2> DEFINE mine == RefsOf(cfg) \cup RefsOf(Target(h))
             written == IF task[h].at = "put" THEN ToWrite(h) ELSE {}
  <2>1. PICK R \in SUBSET mine, W \in SUBSET written :
          store' = [q \in Proxies |-> IF q \in R THEN Restored(Target(h))[q]
                                      ELSE Written(Target(h), W)[q]]
    BY <1>9 DEF RestoreRefused
  <2>2. task[h].at \in {"put", "apply"} /\ cfg' = cfg /\ leaked' = leaked \cup mine
    BY <1>9 DEF RestoreRefused, Aborts
  <2>3. r \in written \cup Duty(h) => r \in mine
    <3>1. CASE task[h].at = "put"
      <4>1. Duty(h) = {}
        BY <3>1 DEF Duty
      <4>2. r \in ToWrite(h) => r \in RefsOf(Target(h))
        BY <1>0, <3>1, ToWriteOwn DEF RefsOf
      <4> QED
        BY <4>1, <4>2
    <3>2. CASE task[h].at = "apply"
      <4>1. Target(h) = want[h]
        BY <3>2 DEF Target
      <4> QED
        BY <1>0, <3>2, <4>1 DEF Duty, CandidateKeeps
    <3> QED
      BY <2>2, <3>1, <3>2
  <2>4. CASE r \in mine
    BY <2>2, <2>4 DEF AccountedAt
  <2>5. CASE r \notin mine
    <3>1. store'[r] = store[r]
      BY <2>1, <2>3, <2>5 DEF Written
    <3> QED
      BY <1>9, <1>cfg, <2>2, <2>3, <2>5, <3>1, SameAccount DEF AccountedAt
  <2> QED
    BY <2>4, <2>5
<1>10. ASSUME NEW h \in Handlers, Request(h), UndoCreate(h) \/ Tidy(h) PROVE AccountedAt(r)'
  <2>1. UNCHANGED <<cfg, leaked>> /\ store' = Without(Duty(h) \ RefsOf(cfg))
    BY <1>10 DEF UndoCreate, Tidy, Aborts, Duty
  <2>2. r \in RefsOf(cfg) \/ (/\ store[r] = None => store'[r] = None
                              /\ r \in Duty(h) => store'[r] = None)
    BY <2>1 DEF Without
  <2> QED
    BY <1>10, <1>cfg, <2>1, <2>2, SameAccount DEF AccountedAt
<1>11. ASSUME NEW h \in Handlers, Request(h), UndoUpdate(h) PROVE AccountedAt(r)'
  <2>1. cfg' = cfg /\ task[h].at = "undo" /\ ~Import(h) /\ Duty(h) = task[h].refs
    BY <1>11 DEF UndoUpdate, Aborts, Import, Duty
  <2>2. CASE StillPrevious(task[h])
    <3>1. /\ leaked' = leaked
          /\ store'[r] = IF r = task[h].old.ref THEN task[h].old.pw
                         ELSE IF r \in task[h].refs THEN None ELSE store[r]
      BY <1>11, <2>2 DEF UndoUpdate
    <3>2. r = task[h].old.ref => r \in RefsOf(cfg)
      BY <1>0, <2>1, <2>2 DEF StillPrevious, RefsOf, OneProxy
    <3> QED
      BY <1>11, <1>cfg, <2>1, <3>1, <3>2, SameAccount DEF AccountedAt
  <2>3. CASE ~StillPrevious(task[h])
    <3>1. store' = store /\ leaked' = leaked \cup (task[h].refs \ RefsOf(cfg))
      BY <1>11, <2>3 DEF UndoUpdate
    <3> QED
      BY <1>11, <1>cfg, <2>1, <3>1, SameAccount DEF AccountedAt
  <2> QED
    BY <2>2, <2>3
<1>12. ASSUME NEW h \in Handlers, Request(h), UndoRefused(h) PROVE AccountedAt(r)'
  <2>1. /\ cfg' = cfg /\ leaked' = leaked \cup task[h].refs /\ Duty(h) = task[h].refs
        /\ store[r] = None => store'[r] = None
    BY <1>12 DEF UndoRefused, Aborts, Without, Duty
  <2> QED
    BY <1>12, <1>cfg, <2>1, SameAccount DEF AccountedAt
<1>13. ASSUME NEW h \in Handlers, Request(h), TidyRefused(h) PROVE AccountedAt(r)'
  <2>1. UNCHANGED <<cfg, store>> /\ leaked' = leaked \cup Duty(h)
    BY <1>13 DEF TidyRefused, Aborts, Duty
  <2> QED
    BY <1>13, <1>cfg, <2>1, SameAccount DEF AccountedAt
<1>14. CASE Crash
  <2>1. leaked' = leaked \cup UNION {InFlight(h) : h \in Handlers} /\ cfg' = cfg
    BY <1>14 DEF Crash
  <2>2. CASE \E h \in Handlers : r \in InFlight(h)
    BY <2>1, <2>2 DEF AccountedAt
  <2>3. CASE \A h \in Handlers : r \notin InFlight(h)
    <3>1. \A h \in Handlers : r \notin Writing(h) /\ r \notin Duty(h)
      BY <1>0, <2>3 DEF InFlight, Duty
    <3>2. store'[r] = store[r]
      BY <1>0, <1>14, <3>1 DEF Crash, Writing, Written, TypeOK
    <3> QED
      BY <1>0, <1>cfg, <2>1, <3>1, <3>2 DEF AccountedAt
  <2> QED
    BY <2>2, <2>3
<1>15. CASE Boot
  <2>1. CASE Readable(disk)
    <3>1. cfg' = Hydrated(disk) /\ UNCHANGED <<store, leaked>>
      BY <1>15, <2>1 DEF Boot
    <3>2. \A h \in Handlers : Duty(h) = {}
      BY <1>15 DEF Boot, SInv, DownIsIdle, NoTask, Duty
    <3>3. r \in RefsOf(cfg) => r \in RefsOf(cfg)'
      <4>1. disk \in Config /\ \A p \in Proxies : OwnRef(disk[p], p)
        BY <1>0 DEF TypeOK, OwnRefs
      <4>2. r \in RefsOf(cfg) => disk[r].ref = r
        BY <1>0, OwnedRefs DEF Referred
      <4> QED
        BY <1>own, <3>1, <4>1, <4>2, HydratedReferred, OwnedRefs
    <3> QED
      BY <1>0, <3>1, <3>2, <3>3 DEF AccountedAt
  <2>2. CASE ~Readable(disk)
    BY <1>15, <2>2 DEF Boot, AccountedAt
  <2> QED
    BY <2>1, <2>2
<1>16. CASE UNCHANGED vars
  BY <1>0, <1>16 DEF vars, AccountedAt, Duty, RefsOf
<1> QED
  BY <1>1, <1>2, <1>3, <1>4, <1>5, <1>6, <1>7, <1>8, <1>9, <1>10, <1>11, <1>12, <1>13,
     <1>14, <1>15, <1>16, RequestCases DEF Next, Quits

\* What a crash found in order, it leaves in order: a file it may have torn
\* is in the history.
LEMMA DownPreserved == SInv /\ [Next]_vars => DownIntact'
<1> SUFFICES ASSUME SInv, [Next]_vars, ~up', NEW p \in Proxies,
                    cfg'[p].pw # None, p \notin spoiled' \cup leaked'
             PROVE  store'[p] = cfg'[p].pw
  BY DEF DownIntact
<1>1. ASSUME NEW h \in Handlers, Request(h) PROVE FALSE
  BY <1>1, RequestFrame
<1>2. CASE Crash
  <2>1. cfg' = cfg /\ p \notin spoiled /\ \A h \in Handlers : p \notin InFlight(h)
    BY <1>2 DEF Crash
  <2>2. cfg[p].ref = p /\ p # None
    BY <2>1, NamesAssumption DEF SInv, Referred, OwnRefs, OwnRef
  <2>3. \A h \in Handlers : p \notin Writing(h) /\ ~Overwriting(h, p)
    BY <2>1, <2>2 DEF InFlight, Overwriting
  <2>4. store[p] = cfg[p].pw
    BY <1>2, <2>1, <2>2, <2>3 DEF SInv, CredentialIntact, Crash
  <2>5. store'[p] = store[p]
    BY <1>2, <2>3 DEF Crash, Writing, Written, SInv, TypeOK
  <2> QED
    BY <2>1, <2>4, <2>5
<1>3. CASE Boot
  BY <1>3 DEF Boot
<1>4. CASE UNCHANGED vars
  BY <1>4 DEF vars, SInv, DownIntact
<1> QED
  BY <1>1, <1>2, <1>3, <1>4 DEF Next

\* The invariant holds when Core has never run.
LEMMA InitInv == Init => SInv
<1> SUFFICES ASSUME Init PROVE SInv
  OBVIOUS
<1> USE DEF Init
<1>1. TypeOK
  <2>1. NoTask \in Task
    BY EmptyType DEF NoTask, Task, Kinds
  <2> QED
    <3>1. 0 \in 0..MaxFaults
      BY FaultsAssumption
    <3>2. store \in [Proxies -> Passwords \cup {None, Torn}]
      OBVIOUS
    <3>3. task \in [Handlers -> Task] /\ want \in [Handlers -> Config]
      BY <2>1, EmptyType
    <3> QED
      BY <3>1, <3>2, <3>3, EmptyType DEF TypeOK
<1>2. OwnRefs
  <2>1. \A p \in Proxies : Empty[p].pw = None
    BY DEF Empty, Absent
  <2> QED
    BY <2>1, EmptyOwn DEF OwnRefs
<1>3. \A h \in Handlers : task[h].at = "idle"
  BY DEF NoTask
<1>4. Referred /\ DownIntact
  <2>1. \A p \in Proxies : Empty[p].pw = None
    BY DEF Empty, Absent
  <2> QED
    BY <1>3, <2>1 DEF Referred, DownIntact, RefsOf
<1>5. CandidateKeeps /\ Accounted
  BY <1>3 DEF CandidateKeeps, Accounted
<1> QED
  BY <1>1, <1>2, <1>3, <1>4, <1>5 DEF SInv, OneTransaction, Holding, DownIsIdle, OneProxy,
                                      CandidateIntact, CredentialIntact

\* Every step keeps it.
LEMMA NextInv == ~Renames /\ SInv /\ [Next]_vars => SInv'
BY TypePreserved, OwnRefsPreserved, LockPreserved, OneProxyPreserved, CandidatePreserved,
   CredentialPreserved, ReferredPreserved, KeepsPreserved, AccountedPreserved, DownPreserved
   DEF SInv

\* While imports keep identifiers, every reachable state satisfies SInv.
THEOREM SecretsInvariant == ~Renames => (Spec => []SInv)
<1> SUFFICES ASSUME ~Renames PROVE Spec => []SInv
  OBVIOUS
<1>1. SInv /\ [Next]_vars => SInv'
  BY NextInv
<1> QED
  BY <1>1, InitInv, PTL DEF Spec

\* Whatever requests overlap, are refused, undone or cut off, the file that a
\* proxy's reference names holds that proxy's password (state.rs 216-277).
THEOREM CredentialsSurvive == ~Renames => (Spec => []CredentialIntact)
<1>1. SInv => CredentialIntact
  BY DEF SInv
<1> QED
  BY <1>1, SecretsInvariant, PTL

\* When no request is at work, a password that no proxy refers to is in the
\* store only if a call was refused, Core died, a discovered endpoint was
\* refused, or a proxy was deleted under a request's feet (the cleanups and
\* rollbacks of api/mod.rs and state.rs).
THEOREM CleanupsAreComplete == ~Renames => (Spec => []NothingLeftBehind)
<1>1. SInv => NothingLeftBehind
  <2> SUFFICES ASSUME SInv, \A h \in Handlers : task[h].at \in {"idle", "look"}
               PROVE  \A r \in Proxies : store[r] = None \/ r \in leaked \/ r \in RefsOf(cfg)
    BY DEF NothingLeftBehind
  <2>1. \A h \in Handlers : Duty(h) = {}
    BY DEF Duty
  <2> QED
    BY <2>1 DEF SInv, Accounted
<1> QED
  BY <1>1, SecretsInvariant, PTL

\* A start changes no password that no refused call and no interrupted
\* request had left in doubt, unless some file is unreadable (config.rs,
\* load_or_init and hydrate_proxy_secrets).
THEOREM RestartsKeepCredentials == ~Renames => (Spec => StartKeepsCredentials)
<1>1. SInv /\ [Next]_vars =>
        [~up /\ up' /\ Readable(disk) =>
           \A p \in Proxies :
             cfg[p].ref \notin spoiled \cup leaked /\ cfg[p].pw # None => cfg'[p].pw = cfg[p].pw]_vars
  <2> SUFFICES ASSUME SInv, Next, ~up, Readable(disk), NEW p \in Proxies,
                      cfg[p].ref \notin spoiled \cup leaked, cfg[p].pw # None
               PROVE  cfg'[p].pw = cfg[p].pw
    OBVIOUS
  <2>1. Boot
    BY RequestFrame DEF Next, Crash
  <2>2. cfg' = Hydrated(disk)
    BY <2>1 DEF Boot
  <2>3. cfg[p].ref = p
    BY DEF SInv, Referred, OwnRefs, OwnRef
  <2>4. store[p] = cfg[p].pw
    BY <2>3 DEF SInv, DownIntact
  <2>5. /\ TypeOK /\ disk \in Config
        /\ \A q \in Proxies : OwnRef(disk[q], q) /\ disk[q].pw = None
    BY DEF SInv, TypeOK, OwnRefs
  <2>6. disk[p].ref = p
    BY <2>3, OwnedRefs DEF SInv, Referred
  <2>7. Given(disk) = {}
    BY <2>5 DEF Given
  <2>8. Hydrated(disk)[p].ref = p
    BY <2>5, <2>6, HydratedReferred
  <2> QED
    BY <2>2, <2>4, <2>5, <2>7, <2>8, HydratedOwn
<1> QED
  BY <1>1, SecretsInvariant, PTL DEF Spec, StartKeepsCredentials
=============================================================================
