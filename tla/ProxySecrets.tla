----------------------------- MODULE ProxySecrets -----------------------------
(***************************************************************************)
(* Proxy credentials.  config.json5 holds references only; the passwords    *)
(* are files of the SecretStore, written inside the configuration            *)
(* transaction (state.rs, try_mutate_config and replace_imported_config)     *)
(* before the engine and the file have accepted the new configuration, and  *)
(* put back, or removed, after it when they have not (api/mod.rs).  The      *)
(* cleanup of create, update and delete is a second transaction; that of an *)
(* import is part of its own.  delete_proxy and apply_proxy_import look at   *)
(* the configuration before they take the lock.  A store call may be         *)
(* refused, and Core may die at any point, in the middle of a file too.      *)
(* A proxy is its identifier; its reference is a hash of the identifier      *)
(* (SecretStore::proxy_password_ref), so a reference is named by the         *)
(* identifier it is made from.  Collisions of that hash are left out.        *)
(***************************************************************************)
EXTENDS Naturals, FiniteSets

CONSTANTS
  Proxies,     \* proxy identifiers
  Passwords,
  Handlers,    \* API requests that may run at once
  None,        \* no password, no reference, no file
  Torn,        \* a file that cannot be decrypted
  Renames,     \* whether an import may give a proxy another identifier
  MaxFaults    \* bound: store calls refused and crashes

ASSUME NamesAssumption == None \notin Proxies \cup Passwords \cup {Torn}
ASSUME TornAssumption == Torn \notin Passwords
ASSUME FaultsAssumption == MaxFaults \in Nat
ASSUME RenamesAssumption == Renames \in BOOLEAN

VARIABLES
  cfg,       \* CoreState.config, its proxies
  disk,      \* config.json5, its proxies
  store,     \* the SecretStore's files
  up,        \* Core runs
  task,      \* where each request is
  want,      \* the configuration a request works with: its candidate, then
             \* (an import being swept) the one it replaced
  spoiled,   \* history: references whose file a refused call left unknown
  leaked,    \* history: references whose file nobody will remove
  faults

vars == <<cfg, disk, store, up, task, want, spoiled, leaked, faults>>
history == <<spoiled, leaked, faults>>

Entry == [there: BOOLEAN, ref: Proxies \cup {None}, pw: Passwords \cup {None}]
Absent == [there |-> FALSE, ref |-> None, pw |-> None]
Config == [Proxies -> Entry]
Empty == [p \in Proxies |-> Absent]
Proxy(ref, pw) == [there |-> TRUE, ref |-> ref, pw |-> pw]

Kinds == {"create", "discover", "update", "clear", "delete", "import", "none"}
Task == [at: {"idle", "look", "put", "apply", "sweep", "undo", "tidy"},
         kind: Kinds, id: Proxies \cup {None}, old: Entry, refs: SUBSET Proxies]
NoTask == [at |-> "idle", kind |-> "none", id |-> None, old |-> Absent, refs |-> {}]

TypeOK ==
  /\ cfg \in Config
  /\ disk \in Config
  /\ store \in [Proxies -> Passwords \cup {None, Torn}]
  /\ up \in BOOLEAN
  /\ task \in [Handlers -> Task]
  /\ want \in [Handlers -> Config]
  /\ spoiled \in SUBSET Proxies
  /\ leaked \in SUBSET Proxies
  /\ faults \in 0..MaxFaults

Init ==
  /\ cfg = Empty /\ disk = Empty
  /\ store = [r \in Proxies |-> None]
  /\ up = FALSE
  /\ task = [h \in Handlers |-> NoTask]
  /\ want = [h \in Handlers |-> Empty]
  /\ spoiled = {} /\ leaked = {}
  /\ faults = 0

-----------------------------------------------------------------------------
(* Configurations and files.                                                *)

RefsOf(c) == {c[p].ref : p \in Proxies} \ {None}
Owner(c, r) == CHOOSE p \in Proxies : c[p].ref = r
RefFor(e, p) == IF e.ref = None THEN p ELSE e.ref

\* what is written to the file: the password is skip_serializing
Bare(c) == [p \in Proxies |-> [there |-> c[p].there, ref |-> c[p].ref, pw |-> None]]

\* hydrate_proxy_secrets: a password given is stored, a missing one read
Hydrated(c) ==
  [p \in Proxies |->
     IF c[p].pw # None THEN [c[p] EXCEPT !.ref = RefFor(c[p], p)]
     ELSE IF c[p].ref # None THEN [c[p] EXCEPT !.pw = store[c[p].ref]]
     ELSE c[p]]
Given(c) == {RefFor(c[p], p) : p \in {q \in Proxies : c[q].pw # None}}
Readable(c) == \A p \in Proxies : c[p].pw = None /\ c[p].ref # None => store[c[p].ref] # Torn

\* the files once the passwords of references R of c are put
Written(c, R) == [r \in Proxies |-> IF r \in R THEN c[Owner(c, r)].pw ELSE store[r]]
Without(R) == [r \in Proxies |-> IF r \in R THEN None ELSE store[r]]

\* restore_secret_values: cfg's passwords again, and none of the import's own
Restored(c) ==
  [r \in Proxies |->
     IF r \in RefsOf(cfg) THEN cfg[Owner(cfg, r)].pw
     ELSE IF r \in RefsOf(c) THEN None ELSE store[r]]

-----------------------------------------------------------------------------
(* Requests.                                                                *)

Holding(h) == task[h].at \in {"put", "apply", "sweep"}
LockFree == \A h \in Handlers : ~Holding(h)
Fault == faults < MaxFaults /\ faults' = faults + 1

Enter(h, at, kind, p, old, refs, c) ==
  /\ task' = [task EXCEPT ![h] = [at |-> at, kind |-> kind, id |-> p,
                                  old |-> old, refs |-> refs]]
  /\ want' = [want EXCEPT ![h] = c]
Leave(h) ==
  /\ task' = [task EXCEPT ![h] = NoTask]
  /\ want' = [want EXCEPT ![h] = Empty]

\* a request takes the transaction lock
Arrives(h) == up /\ LockFree /\ task[h].at = "idle"

\* persist_proxy_secret, when the candidate has a password
Begin(h, kind, p, e) ==
  LET c == [cfg EXCEPT ![p] = IF e.pw = None THEN e ELSE Proxy(RefFor(e, p), e.pw)] IN
  /\ Enter(h, IF e.pw = None THEN "apply" ELSE "put", kind, p, cfg[p],
           IF e.pw = None THEN {} ELSE {RefFor(e, p)}, c)
  /\ UNCHANGED <<cfg, disk, store, up, history>>

Create(h, p, pw) ==
  /\ Arrives(h)
  /\ ~cfg[p].there
  /\ Begin(h, "create", p, Proxy(None, pw))

\* add_discovered_endpoint: the identifier is a new UUID
Discover(h, p, pw) ==
  /\ Arrives(h)
  /\ ~cfg[p].there /\ store[p] = None
  /\ \A g \in Handlers : task[g].id # p /\ ~want[g][p].there
  /\ Begin(h, "discover", p, Proxy(None, pw))

\* a password left out (None) is kept
Update(h, p, pw) ==
  /\ Arrives(h)
  /\ cfg[p].there
  /\ Begin(h, "update", p, IF pw = None THEN cfg[p] ELSE [cfg[p] EXCEPT !.pw = pw])

Clear(h, p) ==
  /\ Arrives(h)
  /\ cfg[p].there
  /\ Begin(h, "clear", p, Proxy(None, None))

\* delete_proxy reads the proxy before it takes the lock
LookToDelete(h, p) ==
  /\ up /\ task[h].at = "idle"
  /\ Enter(h, "look", "delete", p, cfg[p], {}, Empty)
  /\ UNCHANGED <<cfg, disk, store, up, history>>

Delete(h) ==
  /\ LockFree
  /\ task[h].at = "look" /\ task[h].kind = "delete"
  /\ IF cfg[task[h].id].there
     THEN Enter(h, "apply", "delete", task[h].id, task[h].old, {},
                [cfg EXCEPT ![task[h].id] = Absent])
     ELSE Leave(h)
  /\ UNCHANGED <<cfg, disk, store, up, history>>

\* apply_proxy_import merges the imported proxy into a snapshot
LookToMerge(h, p, pw) ==
  /\ up /\ task[h].at = "idle"
  /\ LET kept == cfg[p].there /\ pw = None
         c == [cfg EXCEPT ![p] = IF kept THEN cfg[p] ELSE Proxy(None, pw)]
     IN  Enter(h, "look", "import", None, Absent, {}, c)
  /\ UNCHANGED <<cfg, disk, store, up, history>>

Merge(h) ==
  /\ LockFree
  /\ task[h].at = "look" /\ task[h].kind = "import"
  /\ task' = [task EXCEPT ![h].at = "put"]
  /\ UNCHANGED <<cfg, disk, store, up, want, history>>

\* PUT /config: an exported document, in which a proxy was added, removed,
\* given another password or none, or (Renames) another identifier
Documents ==
  {c \in Config : \A p \in Proxies :
     c[p] = Absent \/ (c[p].there /\ c[p].ref \in {None, p})}
RenamedDocuments ==
  {[Bare(cfg) EXCEPT ![p] = Absent, ![q] = Proxy(cfg[p].ref, None)] :
     p \in {x \in Proxies : cfg[x].there}, q \in {x \in Proxies : ~cfg[x].there}}

\* mutant: the import takes no transaction lock
PutConfigUnlocked(h) ==
  /\ up /\ task[h].at = "idle"
  /\ \E c \in Documents : Enter(h, "put", "import", None, Absent, {}, c)
  /\ UNCHANGED <<cfg, disk, store, up, history>>

PutConfig(h) ==
  /\ Arrives(h)
  /\ \E c \in Documents \cup (IF Renames THEN RenamedDocuments ELSE {}) :
       Enter(h, "put", "import", None, Absent, {}, c)
  /\ UNCHANGED <<cfg, disk, store, up, history>>

-----------------------------------------------------------------------------
(* The transaction: persist or hydrate, apply, publish.                     *)

Import(h) == task[h].kind = "import"
Target(h) == IF task[h].at = "put" /\ Import(h) THEN Hydrated(want[h]) ELSE want[h]
ToWrite(h) == IF Import(h) THEN Given(want[h]) ELSE task[h].refs
Aborts(h) == Leave(h) /\ UNCHANGED <<cfg, disk, up>>

Put(h) ==
  /\ task[h].at = "put"
  /\ Import(h) => Readable(want[h])
  /\ store' = Written(Target(h), ToWrite(h))
  /\ task' = [task EXCEPT ![h].at = "apply", ![h].refs = ToWrite(h)]
  /\ want' = [want EXCEPT ![h] = Target(h)]
  /\ spoiled' = spoiled \ ToWrite(h)
  /\ leaked' = leaked \ ToWrite(h)
  /\ UNCHANGED <<cfg, disk, up, faults>>

\* put fails before or after the file is replaced (a file that cannot be
\* hardened is removed); create and update have no reference to undo then
PutRefused(h) ==
  /\ task[h].at = "put" /\ ~Import(h)
  /\ Fault
  /\ store' \in {store, Without(task[h].refs)}
  /\ spoiled' = spoiled \cup task[h].refs
  /\ UNCHANGED leaked
  /\ Aborts(h)

\* migrate_import fails on a call or on an unreadable file
HydrateRefused(h) ==
  /\ task[h].at = "put" /\ Import(h)
  /\ \/ Fault
     \/ ~Readable(want[h]) /\ UNCHANGED faults
  /\ store' = Restored(Hydrated(want[h]))
  /\ spoiled' = spoiled \ RefsOf(cfg)
  /\ UNCHANGED leaked
  /\ Aborts(h)

\* apply_config succeeds and the configuration is published; delete_proxy
\* cleans up by what it saw before the transaction
Commit(h) ==
  LET t == task[h]
      tidies == t.kind \in {"clear", "delete"} /\ t.old.ref # None
  IN
  /\ t.at = "apply"
  /\ cfg' = want[h]
  /\ disk' = Bare(want[h])
  /\ CASE Import(h) -> /\ task' = [task EXCEPT ![h].at = "sweep"]
                       /\ want' = [want EXCEPT ![h] = cfg]
       [] tidies    -> /\ task' = [task EXCEPT ![h].at = "tidy"]
                       /\ want' = [want EXCEPT ![h] = Empty]
       [] OTHER     -> Leave(h)
  /\ leaked' = IF t.kind = "delete"
               THEN leaked \cup ({cfg[t.id].ref} \ {None, t.old.ref})
               ELSE leaked
  /\ UNCHANGED <<store, up, spoiled, faults>>

\* remove_obsolete_secrets, still under the lock
Obsolete(h) == RefsOf(want[h]) \ RefsOf(cfg)

Sweep(h) ==
  /\ task[h].at = "sweep"
  /\ store' = Without(Obsolete(h))
  /\ UNCHANGED history
  /\ Aborts(h)

SweepRefused(h) ==
  /\ task[h].at = "sweep"
  /\ Fault
  /\ \E R \in SUBSET Obsolete(h) : store' = Without(R)
  /\ leaked' = leaked \cup Obsolete(h)
  /\ UNCHANGED spoiled
  /\ Aborts(h)

\* validation, the engine or the file refuses the configuration
Reject(h) ==
  LET t == task[h] IN
  /\ t.at = "apply" /\ ~Import(h)
  /\ IF t.kind \in {"create", "update"} /\ t.refs # {}
     THEN /\ task' = [task EXCEPT ![h].at = "undo"]
          /\ want' = [want EXCEPT ![h] = Empty]
     ELSE Leave(h)
  /\ leaked' = IF t.kind = "discover" THEN leaked \cup t.refs ELSE leaked
  /\ UNCHANGED <<cfg, disk, store, up, spoiled, faults>>

\* mutant: an import refused by the engine leaves the passwords it has written
RejectImportKeeps(h) ==
  /\ task[h].at = "apply" /\ Import(h)
  /\ UNCHANGED <<store, history>>
  /\ Aborts(h)

RejectImport(h) ==
  /\ task[h].at = "apply" /\ Import(h)
  /\ store' = Restored(want[h])
  /\ spoiled' = spoiled \ RefsOf(cfg)
  /\ UNCHANGED <<leaked, faults>>
  /\ Aborts(h)

\* a call of the restoration is refused: those after it are not made
RestoreRefused(h) ==
  LET c == Target(h)
      mine == RefsOf(cfg) \cup RefsOf(c)
      written == IF task[h].at = "put" THEN ToWrite(h) ELSE {}
  IN
  /\ task[h].at \in {"put", "apply"} /\ Import(h)
  /\ Fault
  /\ \E R \in SUBSET mine, W \in SUBSET written :
       store' = [r \in Proxies |-> IF r \in R THEN Restored(c)[r] ELSE Written(c, W)[r]]
  /\ spoiled' = spoiled \cup mine
  /\ leaked' = leaked \cup mine
  /\ Aborts(h)

-----------------------------------------------------------------------------
(* The second transaction of a request.                                     *)

\* mutant: create's failure path has no cleanup
UndoCreateForgets(h) ==
  /\ LockFree
  /\ task[h].at = "undo" /\ task[h].kind = "create"
  /\ UNCHANGED <<store, history>>
  /\ Aborts(h)

\* delete_secret_if_unreferenced after a create that failed
UndoCreate(h) ==
  /\ LockFree
  /\ task[h].at = "undo" /\ task[h].kind = "create"
  /\ store' = Without(task[h].refs \ RefsOf(cfg))
  /\ UNCHANGED history
  /\ Aborts(h)

\* mutant: the rollback does not ask whether another update has committed
StillPreviousAlways(t) == TRUE

\* restore_secret_after_failed_proxy_update: only a proxy that still has the
\* reference and the password it had before
StillPrevious(t) ==
  /\ cfg[t.id].there
  /\ cfg[t.id].ref = t.old.ref
  /\ cfg[t.id].pw = t.old.pw

UndoUpdate(h) ==
  LET t == task[h] IN
  /\ LockFree
  /\ t.at = "undo" /\ t.kind = "update"
  /\ IF StillPrevious(t)
     THEN /\ store' = [r \in Proxies |-> IF r = t.old.ref THEN t.old.pw
                                         ELSE IF r \in t.refs THEN None ELSE store[r]]
          /\ spoiled' = spoiled \ {t.old.ref}
          /\ UNCHANGED leaked
     ELSE /\ leaked' = leaked \cup (t.refs \ RefsOf(cfg))
          /\ UNCHANGED <<store, spoiled>>
  /\ UNCHANGED faults
  /\ Aborts(h)

UndoRefused(h) ==
  /\ LockFree
  /\ task[h].at = "undo"
  /\ Fault
  /\ store' \in {store, Without({task[h].old.ref})}
  /\ spoiled' = spoiled \cup ({task[h].old.ref} \ {None})
  /\ leaked' = leaked \cup task[h].refs
  /\ Aborts(h)

\* delete_secret_if_unreferenced after a clear or a delete that succeeded
Tidy(h) ==
  /\ LockFree
  /\ task[h].at = "tidy"
  /\ store' = Without({task[h].old.ref} \ RefsOf(cfg))
  /\ UNCHANGED history
  /\ Aborts(h)

TidyRefused(h) ==
  /\ LockFree
  /\ task[h].at = "tidy"
  /\ Fault
  /\ leaked' = leaked \cup {task[h].old.ref}
  /\ UNCHANGED <<store, spoiled>>
  /\ Aborts(h)

-----------------------------------------------------------------------------
(* Core dies, and starts again.                                             *)

\* references whose file a request may be writing
Writing(h) ==
  CASE task[h].at = "put" -> ToWrite(h)
    [] task[h].at = "apply" /\ Import(h) -> RefsOf(cfg)
    [] task[h].at = "undo" /\ LockFree -> {task[h].old.ref} \ {None}
    [] OTHER -> {}

InFlight(h) ==
  (task[h].refs \cup {task[h].old.ref} \cup RefsOf(want[h]) \cup Writing(h)) \ {None}

\* fs::write is not atomic: the file it was writing is torn
Crash ==
  /\ up
  /\ Fault
  /\ \/ UNCHANGED store
     \/ \E h \in Handlers : \E r \in Writing(h) : store' = [store EXCEPT ![r] = Torn]
     \/ \E h \in Handlers : /\ task[h].at = "put"
                            /\ \E R \in SUBSET ToWrite(h) : store' = Written(Target(h), R)
  /\ up' = FALSE
  /\ task' = [h \in Handlers |-> NoTask]
  /\ want' = [h \in Handlers |-> Empty]
  /\ leaked' = leaked \cup UNION {InFlight(h) : h \in Handlers}
  /\ UNCHANGED <<cfg, disk, spoiled>>

\* load_or_init; an unreadable secret makes it fail, and Core comes up with
\* the default configuration (the recovery control plane)
Boot ==
  /\ ~up
  /\ up' = TRUE
  /\ IF Readable(disk)
     THEN cfg' = Hydrated(disk) /\ UNCHANGED leaked
     ELSE cfg' = Empty /\ leaked' = Proxies
  /\ spoiled' = {}
  /\ UNCHANGED <<disk, store, task, want, faults>>

Request(h) ==
  \/ \E p \in Proxies, pw \in Passwords \cup {None} :
       Create(h, p, pw) \/ Discover(h, p, pw) \/ Update(h, p, pw) \/ LookToMerge(h, p, pw)
  \/ \E p \in Proxies : Clear(h, p) \/ LookToDelete(h, p)
  \/ Delete(h) \/ Merge(h) \/ PutConfig(h)
  \/ Put(h) \/ PutRefused(h) \/ HydrateRefused(h)
  \/ Commit(h) \/ Sweep(h) \/ SweepRefused(h)
  \/ Reject(h) \/ RejectImport(h) \/ RestoreRefused(h)
  \/ UndoCreate(h) \/ UndoUpdate(h) \/ UndoRefused(h)
  \/ Tidy(h) \/ TidyRefused(h)

Next == Crash \/ Boot \/ \E h \in Handlers : Request(h)

Spec == Init /\ [][Next]_vars

-----------------------------------------------------------------------------
(* Properties.                                                              *)

\* a transaction, or a failed update about to be undone, may have replaced
\* the password in the file of r
Overwriting(h, r) ==
  /\ r \in task[h].refs
  /\ \/ task[h].at = "apply"
     \/ task[h].at = "undo" /\ task[h].kind = "update" /\ StillPrevious(task[h])

\* The credential a proxy will have after a restart is the one it has now:
\* whatever requests overlapped, were refused or undone, the file its
\* reference names holds its password (state.rs 216-277: cleanup and rollback
\* never touch a credential that another request has committed).
CredentialIntact ==
  up => \A p \in Proxies :
    LET r == cfg[p].ref IN
    r # None /\ cfg[p].pw # None /\ r \notin spoiled
      /\ (\A h \in Handlers : ~Overwriting(h, r))
    => store[r] = cfg[p].pw

\* The inductive invariant: types, one transaction at a time, no request
\* without Core, references made from identifiers, what a transaction's
\* candidate and its files have to do with each other, and who answers for
\* each file in the store.
OwnRef(e, p) == e.ref \in {None, p} /\ (e.there \/ e = Absent)
OwnRefs ==
  \A p \in Proxies :
    /\ OwnRef(cfg[p], p)
    /\ OwnRef(disk[p], p) /\ disk[p].pw = None
    /\ \A h \in Handlers : OwnRef(want[h][p], p)

OneTransaction == \A g, h \in Handlers : Holding(g) /\ Holding(h) => g = h
DownIsIdle == up \/ \A h \in Handlers : task[h] = NoTask

\* create, update, clear and delete change one proxy
OneProxy ==
  \A h \in Handlers :
    LET t == task[h] IN
    /\ t.at = "look" /\ ~Import(h) => t.id \in Proxies /\ t.kind = "delete"
    /\ t.at = "tidy" => t.old.ref # None
    /\ t.at = "undo" => t.kind \in {"create", "update"}
    /\ t.at \in {"put", "apply", "undo"} /\ ~Import(h) =>
         /\ t.id \in Proxies /\ t.kind # "none"
         /\ t.refs \subseteq {t.id}
         /\ t.kind \in {"clear", "delete"} => t.refs = {}
         /\ t.at = "put" => t.refs = {t.id} /\ want[h][t.id].ref = t.id
         /\ t.at = "undo" => t.old.ref \in {None, t.id}
    /\ t.at \in {"put", "apply"} /\ ~Import(h) =>
         /\ t.kind = "delete" \/ t.old = cfg[t.id]
         /\ t.kind \in {"create", "discover"} <=> ~cfg[t.id].there
         /\ \A p \in Proxies \ {t.id} : want[h][p] = cfg[p]

\* what apply_config would publish agrees with the files
CandidateIntact ==
  \A h \in Handlers : task[h].at = "apply" =>
    \A p \in Proxies :
      want[h][p].pw # None /\ want[h][p].ref = p /\ p \notin spoiled
        /\ (Import(h) \/ p = task[h].id)
      => store[p] = want[h][p].pw

\* a password is held under a reference, and the file on disk has every
\* reference that the published configuration has
Referred ==
  /\ \A p \in Proxies : cfg[p].pw # None => cfg[p].ref # None
  /\ \A h \in Handlers : task[h].at = "apply" =>
       \A p \in Proxies : want[h][p].pw # None => want[h][p].ref # None
  /\ RefsOf(cfg) \subseteq RefsOf(disk)

\* a candidate names the files written for it, and the references it drops
\* are those of a proxy being cleared or deleted, or of an import
CandidateKeeps ==
  \A h \in Handlers : task[h].at = "apply" =>
    /\ task[h].refs \subseteq RefsOf(want[h])
    /\ task[h].kind \in {"create", "discover", "update"} => RefsOf(cfg) \subseteq RefsOf(want[h])

\* the files that a request will still publish, remove or put back
Duty(h) ==
  CASE task[h].at \in {"apply", "undo"} -> task[h].refs
    [] task[h].at = "tidy" -> {task[h].old.ref}
    [] task[h].at = "sweep" -> RefsOf(want[h])
    [] OTHER -> {}

Accounted ==
  \A r \in Proxies :
    \/ store[r] = None \/ r \in leaked \/ r \in RefsOf(cfg)
    \/ \E h \in Handlers : r \in Duty(h)

\* what a crash left untouched is there for the next start
DownIntact ==
  ~up => \A p \in Proxies :
    cfg[p].pw # None /\ p \notin spoiled \cup leaked => store[p] = cfg[p].pw

SInv ==
  /\ TypeOK /\ OwnRefs /\ OneTransaction /\ DownIsIdle /\ OneProxy /\ CandidateIntact
  /\ CredentialIntact
  /\ Referred /\ CandidateKeeps /\ Accounted /\ DownIntact

\* When no request is at work, a password that no proxy refers to is in the
\* store only if a call was refused, Core died, a discovered endpoint was
\* refused, or a proxy was deleted under a request's feet (the rollbacks and
\* cleanups of api/mod.rs and state.rs leave nothing else behind).
NothingLeftBehind ==
  up /\ (\A h \in Handlers : task[h].at \in {"idle", "look"})
  => \A r \in Proxies : store[r] = None \/ r \in leaked \/ r \in RefsOf(cfg)

\* Credentials are hydrated from the file: a start changes no password that
\* no refused call and no interrupted request had left in doubt, unless some
\* file is unreadable (config.rs, load_or_init and hydrate_proxy_secrets).
StartKeepsCredentials ==
  [][~up /\ up' /\ Readable(disk) =>
       \A p \in Proxies :
         cfg[p].ref \notin spoiled \cup leaked /\ cfg[p].pw # None => cfg'[p].pw = cfg[p].pw]_vars
=============================================================================
