----------------------------- MODULE ConfigFile -----------------------------
(***************************************************************************)
(* The configuration file (core/config.rs): how load_or_init reads it,     *)
(* falls back to the backup, migrates and rewrites it, and how a save      *)
(* replaces it: the old file is copied over the backup, the new one is     *)
(* written beside it and moved into place.  Every call of the file system  *)
(* is a step that may fail or be the last before a crash.                  *)
(***************************************************************************)
EXTENDS ConfigDocument

CONSTANTS
  Candidates,      \* the documents the control plane may save; all valid
  Default,         \* AppConfig::default() with the runtime disabled
  LegacyFiles,     \* the pairs <<file, backup>> an earlier version may have left
  Absent, Torn,    \* no such file; a file that does not parse
  NoDoc,           \* no configuration in memory
  AllowRecovery,   \* CoreOptions::allow_recovery
  MaxFaults        \* refused calls, crashes and damages of one behaviour

\* What those hold, read by this version.
Inherited == {Upgraded(doc) : doc \in {d \in UNION {{pair[1], pair[2]} : pair \in LegacyFiles} :
                                          d \notin {Absent, Torn} /\ d.schema <= CurrentSchema}}

\* What a start makes of a document that was saved: validate_config lets a
\* disabled rule keep auto_bind_children, and the next load clears it.
Reread == {Upgraded(doc) : doc \in Candidates}

Configurations == Candidates \cup {Default} \cup Reread \cup Inherited

\* A candidate passed validate_config, carries this version's stamp, and its
\* passwords went into the SecretStore; it need not be what a load makes of it.
ASSUME FileAssumption ==
  /\ Candidates \cup {Default} \subseteq Documents
  /\ \A doc \in Candidates : Valid(doc) /\ doc.current /\ ~Plaintext(doc)
  /\ Valid(Default) /\ Upgraded(Default) = Default
  /\ AllowRecovery \in BOOLEAN
  /\ MaxFaults \in Nat

\* The markers are no documents.
ASSUME MarkersAssumption ==
  /\ {Absent, Torn, NoDoc} \cap Documents = {}
  /\ Absent # Torn /\ NoDoc \notin {Absent, Torn}

VARIABLES
  file,          \* the files: config.json5, its backup, the temporary of either
  core,          \* "down", "loading", "up", or "recovery": up with the default
  mem,           \* CoreState's configuration
  job,           \* the write under way and how far it is
  found,         \* the document the last load parsed, as it was (history)
  interrupted,   \* a load was cut short with passwords left in a file (history)
  saved,         \* what the files have held, as a start reads it (history)
  faults

vars == <<file, core, mem, job, found, interrupted, saved, faults>>

Files == {"config", "backup"}
TempOf(name) == IF name = "config" THEN "config.tmp" ELSE "backup.tmp"
Names == Files \cup {TempOf(name) : name \in Files}

IsDoc(content) == content \notin {Absent, Torn}
Readable(content) == IsDoc(content) /\ content.schema <= CurrentSchema

\* What an earlier version left: where a file holds passwords, the document
\* that a start reads is of that version too, because the version that moves
\* them out of the file cleans the backup in the same load, and loads of an
\* earlier version that were cut short are left out.
ASSUME LegacyAssumption ==
  \A pair \in LegacyFiles :
    LET parsed == IF pair[1] = Torn /\ IsDoc(pair[2]) THEN pair[2] ELSE pair[1]
    IN  /\ {pair[1], pair[2]} \subseteq Documents \cup {Absent, Torn}
        /\ \A content \in {pair[1], pair[2]} :
             IsDoc(content) /\ Plaintext(content) => Readable(parsed) /\ Upgraded(parsed) # parsed

NoJob == [at |-> "idle", doc |-> NoDoc, dest |-> "config", scrub |-> FALSE]

Running == core \in {"up", "recovery"}

----------------------------------------------------------------------------
(* What a start finds.                                                      *)

\* The document load_or_init parses: the file, else the backup.
Parsed ==
  IF file["config"] = Torn /\ IsDoc(file["backup"]) THEN file["backup"] ELSE file["config"]

\* What a start serves if nothing is refused: a missing file is a first run,
\* and NoDoc stands for files that only a newer version reads.
Stored ==
  IF file["config"] = Absent THEN Default
  ELSE IF Readable(Parsed) THEN Upgraded(Parsed) ELSE NoDoc

Init ==
  /\ \E pair \in LegacyFiles :
       /\ file = [name \in Names |-> IF name = "config" THEN pair[1]
                                     ELSE IF name = "backup" THEN pair[2] ELSE Absent]
       /\ saved = {Upgraded(c) : c \in {d \in {pair[1], pair[2]} : Readable(d)}}
                  \cup (IF pair[1] = Absent THEN {Default} ELSE {})
  /\ core = "down" /\ mem = NoDoc /\ job = NoJob
  /\ found = NoDoc /\ interrupted = FALSE
  /\ faults = 0

\* Is there a password in a file?
RawFile(name) == IsDoc(file[name]) /\ Plaintext(file[name])
Raw == \E name \in Files : RawFile(name)

Fault == faults < MaxFaults /\ faults' = faults + 1

----------------------------------------------------------------------------
(* The end of a load or of a save.                                          *)

\* Core cannot use its configuration: it serves the disabled default, for
\* repair, or exits.
GiveUp ==
  /\ core' = IF AllowRecovery THEN "recovery" ELSE "down"
  /\ mem' = IF AllowRecovery THEN Default ELSE NoDoc
  /\ job' = NoJob

\* The loaded document is validated and served.
Serve(doc) ==
  \/ Valid(doc) /\ core' = "up" /\ mem' = doc /\ job' = NoJob
  \/ ~Valid(doc) /\ GiveUp

\* A refused call: the load fails, or the save does and memory stays as it was.
Failed ==
  \/ /\ core = "loading" /\ GiveUp
     /\ interrupted' = (interrupted \/ Raw)
  \/ Running /\ job' = NoJob /\ UNCHANGED <<core, mem, interrupted>>

----------------------------------------------------------------------------
(* load_or_init.                                                            *)

\* ... mutant of Write that always refreshes the backup first.
WriteKeepingAll(doc, keep, scrub) ==
  job' = [at |-> IF file["config"] # Absent THEN "copy" ELSE "write",
          doc |-> doc, dest |-> "config", scrub |-> scrub]

\* write_config: with the old file kept as the backup, or without.
Write(doc, keep, scrub) ==
  job' = [at |-> IF keep /\ file["config"] # Absent THEN "copy" ELSE "write",
          doc |-> doc, dest |-> "config", scrub |-> scrub]

\* First run: the default is saved, then served.
LoadFirst ==
  /\ core = "down" /\ file["config"] = Absent
  /\ core' = "loading" /\ found' = Default
  /\ Write(Default, TRUE, FALSE)
  /\ UNCHANGED <<file, mem, interrupted, saved, faults>>

\* The file, or the backup of one that does not parse, is migrated.  What
\* was current already is served as it is; the rest is written back, and
\* a document with passwords in it replaces the backup as well.
Load ==
  /\ core = "down" /\ Readable(Parsed)
  /\ found' = Parsed
  /\ LET doc == Upgraded(Parsed)
         secrets == Plaintext(Parsed)
         recovered == file["config"] = Torn
     IN  \/ /\ doc = Parsed /\ ~recovered
            /\ Serve(doc)
         \/ /\ doc # Parsed \/ recovered
            /\ core' = "loading" /\ mem' = mem
            /\ Write(doc, ~recovered /\ ~secrets, secrets)
  /\ UNCHANGED <<file, interrupted, saved, faults>>

\* Neither the file nor the backup parses, or the schema is a newer one.
LoadRefused ==
  /\ core = "down" /\ file["config"] # Absent /\ ~Readable(Parsed)
  /\ found' = NoDoc
  /\ GiveUp
  /\ UNCHANGED <<file, interrupted, saved, faults>>

\* The SecretStore does not take, or give, a password of the document.
LoadSecretRefused ==
  /\ core = "down" /\ Readable(Parsed)
  /\ Fault
  /\ found' = NoDoc
  /\ interrupted' = (interrupted \/ Raw)
  /\ GiveUp
  /\ UNCHANGED <<file, saved>>

----------------------------------------------------------------------------
(* save, called by the configuration transaction for a document that was    *)
(* validated and that the engine runs.                                      *)

\* ... mutant that publishes the document before it is stored.
SavePublishingFirst(doc) ==
  /\ Running /\ job = NoJob /\ doc # mem
  /\ Write(doc, TRUE, FALSE)
  /\ core' = "up" /\ mem' = doc
  /\ UNCHANGED <<file, found, interrupted, saved, faults>>

Save(doc) ==
  /\ Running /\ job = NoJob /\ doc # mem
  /\ Write(doc, TRUE, FALSE)
  /\ UNCHANGED <<file, core, mem, found, interrupted, saved, faults>>

----------------------------------------------------------------------------
(* write_config, atomic_write and write_sanitized_backup, call by call.     *)

\* ... mutant of CopyStarts that moves the file away instead of copying it.
CopyStartsMoving ==
  /\ job.at = "copy"
  /\ file' = [file EXCEPT !["backup"] = file["config"], !["config"] = Absent]
  /\ job' = [job EXCEPT !.at = "write"]
  /\ UNCHANGED <<core, mem, found, interrupted, saved, faults>>

\* fs::copy truncates the backup first.
CopyStarts ==
  /\ job.at = "copy"
  /\ file' = [file EXCEPT !["backup"] = Torn]
  /\ job' = [job EXCEPT !.at = "copying"]
  /\ UNCHANGED <<core, mem, found, interrupted, saved, faults>>

CopyEnds ==
  /\ job.at = "copying"
  /\ file' = [file EXCEPT !["backup"] = file["config"]]
  /\ job' = [job EXCEPT !.at = "write"]
  /\ UNCHANGED <<core, mem, found, interrupted, saved, faults>>

WriteStarts ==
  /\ job.at = "write"
  /\ file' = [file EXCEPT ![TempOf(job.dest)] = Torn]
  /\ job' = [job EXCEPT !.at = "writing"]
  /\ UNCHANGED <<core, mem, found, interrupted, saved, faults>>

WriteEnds ==
  /\ job.at = "writing"
  /\ file' = [file EXCEPT ![TempOf(job.dest)] = job.doc]
  /\ job' = [job EXCEPT !.at = "replace"]
  /\ UNCHANGED <<core, mem, found, interrupted, saved, faults>>

\* ... mutant of Replace that leaves out the sanitized backup.
ReplaceOnly ==
  /\ job.at = "replace"
  /\ file' = [file EXCEPT ![job.dest] = file[TempOf(job.dest)], ![TempOf(job.dest)] = Absent]
  /\ saved' = saved \cup {Upgraded(job.doc)}
  /\ job' = [job EXCEPT !.at = "publish"]
  /\ UNCHANGED <<core, mem, found, interrupted, faults>>

\* MoveFileExW, the instant the new document is in force.  The backup of a
\* document that held passwords is replaced next.
Replace ==
  /\ job.at = "replace"
  /\ file' = [file EXCEPT ![job.dest] = file[TempOf(job.dest)], ![TempOf(job.dest)] = Absent]
  /\ saved' = saved \cup {Upgraded(job.doc)}
  /\ job' = IF job.scrub
            THEN [job EXCEPT !.at = "write", !.dest = "backup", !.scrub = FALSE]
            ELSE [job EXCEPT !.at = "publish"]
  /\ UNCHANGED <<core, mem, found, interrupted, faults>>

\* The load returns and the document is validated, or the transaction
\* publishes what it has saved.
Publish ==
  /\ job.at = "publish"
  /\ \/ core = "loading" /\ Serve(job.doc)
     \/ Running /\ core' = "up" /\ mem' = job.doc /\ job' = NoJob
  /\ UNCHANGED <<file, found, interrupted, saved, faults>>

\* The old file cannot be copied, or a backup cannot be hardened.
BackupRefused ==
  /\ job.at \in {"copy", "copying"} \/ (job.at = "publish" /\ job.dest = "backup")
  /\ Fault /\ Failed
  /\ UNCHANGED <<file, found, saved>>

\* ... mutant of WriteRefused that ends as if the file had been replaced.
WriteRefusedUnnoticed ==
  /\ job.at \in {"write", "writing", "replace"}
  /\ Fault
  /\ file' = [file EXCEPT ![TempOf(job.dest)] = Absent]
  /\ job' = [job EXCEPT !.at = "publish"]
  /\ UNCHANGED <<core, mem, found, interrupted, saved>>

\* The temporary cannot be written, hardened or moved: it is removed.
WriteRefused ==
  /\ job.at \in {"write", "writing", "replace"}
  /\ Fault /\ Failed
  /\ file' = [file EXCEPT ![TempOf(job.dest)] = Absent]
  /\ UNCHANGED <<found, saved>>

----------------------------------------------------------------------------
(* Around Core.                                                             *)

\* Core exits or dies; the files stay as they are.
Crash ==
  /\ core # "down"
  /\ core' = "down" /\ mem' = NoDoc /\ job' = NoJob
  /\ interrupted' = (interrupted \/ (core = "loading" /\ Raw))
  /\ UNCHANGED <<file, found, saved, faults>>

\* Something destroys the configuration file while Core is down: one file
\* at a time, and not before there is a backup to fall back to.
Damage ==
  /\ core = "down" /\ IsDoc(file["config"]) /\ Readable(file["backup"])
  /\ Fault
  /\ file' = [file EXCEPT !["config"] = Torn]
  /\ UNCHANGED <<core, mem, job, found, interrupted, saved>>

Next ==
  \/ LoadFirst \/ Load \/ LoadRefused \/ LoadSecretRefused
  \/ \E doc \in Candidates : Save(doc)
  \/ CopyStarts \/ CopyEnds \/ WriteStarts \/ WriteEnds \/ Replace \/ Publish
  \/ BackupRefused \/ WriteRefused
  \/ Crash \/ Damage

Spec == Init /\ [][Next]_vars

----------------------------------------------------------------------------
(* Properties.                                                              *)

\* The configurations as a start reads them.
Readings == {Upgraded(doc) : doc \in Configurations}

Stages == {"idle", "copy", "copying", "write", "writing", "replace", "publish"}
Jobs == [at : Stages, doc : Configurations \cup {NoDoc}, dest : Files, scrub : BOOLEAN]

FTypeOK ==
  /\ file \in [Names -> Documents \cup {Absent, Torn}]
  /\ core \in {"down", "loading", "up", "recovery"}
  /\ mem \in Configurations \cup {NoDoc}
  /\ saved \subseteq Readings
  /\ job \in Jobs
  /\ found \in Documents \cup {NoDoc}
  /\ interrupted \in BOOLEAN
  /\ faults \in 0..MaxFaults

\* a write is under way exactly while a load is or a running Core saves
Working ==
  /\ core = "down" => mem = NoDoc /\ job = NoJob
  /\ core = "loading" => /\ mem = NoDoc /\ job.at # "idle"
                         /\ found \in Documents /\ job.doc = Upgraded(found)
                         /\ Plaintext(found) <=> (job.scrub \/ job.dest = "backup")
  /\ Running => mem # NoDoc /\ job.dest = "config" /\ ~job.scrub
  /\ core = "up" => Valid(mem)
  /\ Running /\ job.at # "idle" => Valid(job.doc)
  /\ IF job.at = "idle" THEN job = NoJob ELSE job.doc # NoDoc

\* what is about to be moved is complete, what is about to be published stored
Writing ==
  /\ job.at \in {"copy", "copying"} =>
       /\ job.dest = "config" /\ ~job.scrub
       /\ file["config"] # Absent
       /\ core = "loading" => file["config"] # Torn
  /\ job.at = "replace" => file[TempOf(job.dest)] = job.doc
  /\ job.at = "publish" \/ job.dest = "backup" => file["config"] = job.doc
  /\ core = "up" /\ job.at # "publish" => file["config"] = mem

\* the files hold nothing that was not in force, the temporaries nothing older
Kept ==
  /\ \A name \in Files : Readable(file[name]) => Upgraded(file[name]) \in saved
  /\ \A name \in Files : file[TempOf(name)] \in Configurations \cup {Absent, Torn}

\* passwords are where the next load, or the one under way, removes them
Sealed ==
  Raw /\ ~interrupted =>
    /\ ~Running
    /\ core = "down" => Readable(Parsed) /\ Upgraded(Parsed) # Parsed
    /\ core = "loading" =>
         \/ Plaintext(found) /\ job.at # "publish"
         \/ job.at \in {"copy", "copying"} /\ ~RawFile("config")

\* What the steps of a load and of a save rely on and hand on: FInv is
\* preserved by every step.
FInv == FTypeOK /\ Working /\ Writing /\ Kept /\ Sealed

\* The document without the child inheritance of its disabled rules, all that
\* validate_config lets pass and a load does not.
ChildrenCleared(doc) == [doc EXCEPT !.rules = {[rule EXCEPT !.children = FALSE] : rule \in @}]

\* A running Core and its file agree: what is served is what the file holds,
\* and a restart accepts it and reads the same but for the child inheritance
\* of disabled rules (mutate_config does not normalise what it saves).  A save
\* that was refused or is under way leaves both at the previous document.
ServedIsStored ==
  core = "up" /\ job.at # "publish" =>
    mem = file["config"] /\ Valid(Stored) /\ Stored = ChildrenCleared(mem)

\* Once a document with passwords in it has been loaded, no file holds one,
\* the backup and the temporaries included.  Excepted is a load cut short.
PlaintextGone ==
  Running /\ ~interrupted => \A name \in Names : IsDoc(file[name]) => ~Plaintext(file[name])

\* The backup never receives passwords: a document that holds them is not
\* copied over it before they have been moved into the SecretStore.
NoRawBackup ==
  [][IsDoc(file'["backup"]) /\ Plaintext(file'["backup"]) =>
       file'["backup"] = file["backup"] \/ interrupted]_vars

\* A migration moves no traffic: every rule, in force or kept in a profile,
\* that led to a proxy or past it leads there afterwards.
MigrationKeepsRoutes ==
  core = "loading" =>
    {route \in Routes(found) : route[3] # NoProxy} \subseteq Routes(job.doc)

\* The configuration Core works with, as a restart reads it.
Serving ==
  IF core = "recovery" THEN Absent ELSE IF mem = NoDoc THEN NoDoc ELSE Upgraded(mem)

\* The detailed specification implements the register, which holds and
\* serves a configuration in the form a start gives it.
Register == INSTANCE ConfigRegister WITH
  Configurations <- Readings, Fallback <- Absent, Foreign <- Torn, Nothing <- NoDoc,
  stored <- IF Stored = NoDoc THEN Torn ELSE Stored,
  serving <- Serving, former <- saved

\* Through every crash, refusal and damaged file the two files behave as one
\* register: a save replaces the configuration at one instant or not at all,
\* and a start serves what is stored or, for repair, the disabled default.
ImplementsRegister == Register!Spec
=============================================================================
