----------------------------- MODULE ServiceHost ----------------------------
(***************************************************************************)
(* The Windows service that hosts Core (proxyduck-service/src/main.rs):    *)
(* its installation step by step, its life under the service control       *)
(* manager, and the configuration the service shares with nobody, which    *)
(* the first installation takes over from the user.                        *)
(***************************************************************************)
EXTENDS Naturals

CONSTANTS
  UserConfigs,  \* what the installing user may have: "absent", "good", "corrupt"
  MaxFaults,    \* crashes, refusals and damaged files in one behaviour
  MaxCommands   \* commands of the administrator in one behaviour

VARIABLES
  scm,          \* the service as its manager sees it, "absent" when not installed
  recovery,     \* what of the failure recovery is configured
  failures,     \* failures the manager has counted (no day passes)
  restart,      \* does the manager have a restart to do?
  process,      \* what run_service does, "none" without a process
  normal_stop,  \* was it asked to stop?
  shared,       \* the shared configuration: "absent", whose it is, or unreadable
                \* with its backup, "torn" when it names a password and "bare" when not
  raced,        \* was it written for the first time while somebody else, who had
                \* seen none either, was still to write it? (history)
  user,         \* the configuration of the installing user
  command,      \* what the running --install, --start or --uninstall does next
  faults, commands

hvars == <<scm, recovery, failures, restart, process, normal_stop, shared, raced, user, command,
           faults, commands>>

\* The defaults, the user's taken over, and what was PUT to the service.
Readable == {"default", "user", "edited"}
Unreadable == {"torn", "bare"}

\* prepare_shared_config refuses what it cannot parse and a password is in.
Unscrubbed == shared = "torn"

\* The installer, or the process, is about to write a file it has not seen.
InstallerWrites == command \in {"save", "copy"}
ProcessWrites == process = "first"

Fault == faults < MaxFaults /\ faults' = faults + 1

----------------------------------------------------------------------------
(* The service control manager (external).                                   *)

Starts ==
  /\ scm' = "start_pending" /\ process' = "prepare"
  /\ normal_stop' = FALSE /\ restart' = FALSE

\* Two restarts are configured, then none.
Failed(counts) ==
  /\ scm' = "stopped" /\ process' = "none"
  /\ failures' = IF counts /\ failures < 3 THEN failures + 1 ELSE failures
  /\ restart' = (counts /\ "actions" \in recovery /\ failures < 2)

\* A process that ended without reporting Stopped; one that reported an error
\* is a failure too once the flag is set.
Died == Failed(TRUE)
ReportedError == Failed("flag" \in recovery)

RestartDue ==
  /\ restart /\ scm = "stopped"
  /\ Starts
  /\ UNCHANGED <<recovery, failures, shared, raced, user, command, faults, commands>>

\* register_handler: accepted while running only.
Stops ==
  /\ normal_stop' = TRUE
  /\ scm' = "stop_pending" /\ process' = "ending"

----------------------------------------------------------------------------
(* The process (service_main, run_service, run_core).                        *)

\* prepare_shared_config; the service's account has no configuration of its own.
Prepare ==
  /\ process = "prepare"
  /\ IF Unscrubbed THEN Died
     ELSE process' = "boot" /\ UNCHANGED <<scm, failures, restart>>
  /\ UNCHANGED <<recovery, normal_stop, shared, raced, user, command, faults, commands>>

\* run_core: the recovery control plane with a file that cannot be read, and
\* without one the defaults, written by a step of its own.
Boot ==
  /\ process = "boot"
  /\ process' = IF shared = "absent" THEN "first" ELSE "pipe"
  /\ UNCHANGED <<scm, recovery, failures, restart, normal_stop, shared, raced, user, command,
                 faults, commands>>

FirstConfig ==
  /\ ProcessWrites
  /\ process' = "pipe"
  /\ shared' = "default" /\ raced' = InstallerWrites
  /\ UNCHANGED <<scm, recovery, failures, restart, normal_stop, user, command, faults,
                 commands>>

\* The pipe is there: Running is reported.
Ready ==
  /\ process = "pipe"
  /\ process' = "serve" /\ scm' = "running"
  /\ UNCHANGED <<recovery, failures, restart, normal_stop, shared, raced, user, command, faults,
                 commands>>

\* It is not within 30 seconds, or there is no user to allow on it.
NotReady ==
  /\ process = "pipe" /\ Fault
  /\ process' = "failing"
  /\ UNCHANGED <<scm, recovery, failures, restart, normal_stop, shared, raced, user, command,
                 commands>>

\* Core stops its engine and Stopped is reported, as a success only if it was
\* asked to and everything went well.
End ==
  /\ process \in {"ending", "failing"}
  /\ \/ /\ process = "ending" /\ normal_stop
        /\ Failed(FALSE)
        /\ UNCHANGED faults
     \/ /\ process = "failing"
        /\ ReportedError
        /\ UNCHANGED faults
     \/ ReportedError /\ Fault
  /\ UNCHANGED <<recovery, normal_stop, shared, raced, user, command, commands>>

\* POST /lifecycle/shutdown, a crash, or somebody ends the process.
Crash ==
  /\ process # "none" /\ Fault
  /\ Died
  /\ UNCHANGED <<recovery, normal_stop, shared, raced, user, command, commands>>

\* The file and its backup become unreadable.
Damage ==
  /\ shared \in Readable /\ Fault
  /\ shared' \in Unreadable
  /\ UNCHANGED <<scm, recovery, failures, restart, process, normal_stop, raced, user, command,
                 commands>>

\* The desktop replaces or edits the configuration over the pipe.
PutConfig ==
  /\ process = "serve" /\ shared # "edited"
  /\ shared' = "edited"
  /\ UNCHANGED <<scm, recovery, failures, restart, process, normal_stop, raced, user, command,
                 faults, commands>>

----------------------------------------------------------------------------
(* --install, under the install mutex; any step may fail or the process be   *)
(* ended, and what was done stays (Abandon).                                 *)

Goes(step) == command' = step
Same == UNCHANGED <<recovery, failures, user, faults, commands>>

Command ==
  /\ command = "none" /\ commands < MaxCommands
  /\ commands' = commands + 1
  /\ command' \in {"migrate", "start", "uninstall"}
  /\ UNCHANGED <<scm, recovery, failures, restart, process, normal_stop, shared, raced, user,
                 faults>>

\* migrate_user_secrets, up to the last look at the shared file, and its save.
Migrate ==
  /\ command = "migrate"
  /\ Goes(IF user = "good" /\ shared = "absent" THEN "save" ELSE "prepare")
  /\ Same /\ UNCHANGED <<scm, restart, process, normal_stop, shared, raced>>

MigrateSave ==
  /\ command = "save"
  /\ shared' = "user" /\ raced' = ProcessWrites
  /\ Goes("prepare")
  /\ Same /\ UNCHANGED <<scm, restart, process, normal_stop>>

\* prepare_shared_config of the installer, who sees the user's configuration;
\* what it has copied it goes on to look at.
InstallPrepare ==
  /\ command = "prepare"
  /\ Goes(IF shared = "absent" /\ user # "absent" THEN "copy"
          ELSE IF Unscrubbed THEN "none" ELSE "create")
  /\ Same /\ UNCHANGED <<scm, restart, process, normal_stop, shared, raced>>

InstallCopy ==
  /\ command = "copy"
  /\ shared' = (IF user = "good" THEN "user" ELSE "default") /\ raced' = ProcessWrites
  /\ Goes("prepare")
  /\ Same /\ UNCHANGED <<scm, restart, process, normal_stop>>

\* create_service, or open_service when it is there.
CreateService ==
  /\ command = "create"
  /\ IF scm = "absent" THEN scm' = "stopped" /\ recovery' = {} /\ Goes("flag")
     ELSE Goes("update") /\ UNCHANGED <<scm, recovery>>
  /\ UNCHANGED <<failures, restart, process, normal_stop, shared, raced, user, faults,
                 commands>>

\* stop_and_wait asks once the service runs and waits for Stopped, for an
\* update and for --uninstall.
AskToStop ==
  /\ command \in {"update", "uninstall"} /\ scm = "running"
  /\ Stops
  /\ Same /\ UNCHANGED <<restart, shared, raced, command>>

Update ==
  /\ command = "update" /\ scm = "stopped"
  /\ Goes("flag")
  /\ Same /\ UNCHANGED <<scm, restart, process, normal_stop, shared, raced>>

SetFlag ==
  /\ command = "flag"
  /\ recovery' = recovery \cup {"flag"}
  /\ Goes("actions")
  /\ UNCHANGED <<scm, failures, restart, process, normal_stop, shared, raced, user, faults,
                 commands>>

SetActions ==
  /\ command = "actions"
  /\ recovery' = recovery \cup {"actions"}
  /\ Goes("none")
  /\ UNCHANGED <<scm, failures, restart, process, normal_stop, shared, raced, user, faults,
                 commands>>

Delete ==
  /\ command = "uninstall" /\ scm \in {"stopped", "absent"}
  /\ scm' = "absent" /\ recovery' = {} /\ restart' = FALSE /\ failures' = 0
  /\ Goes("none")
  /\ UNCHANGED <<process, normal_stop, shared, raced, user, faults, commands>>

\* --start.
Start ==
  /\ command = "start"
  /\ IF scm = "stopped" THEN Starts /\ Goes("await")
     ELSE /\ Goes(IF scm = "start_pending" THEN "await" ELSE "none")
          /\ UNCHANGED <<scm, restart, process, normal_stop>>
  /\ Same /\ UNCHANGED <<shared, raced>>

Awaited ==
  /\ command = "await" /\ scm \in {"running", "stopped", "absent"}
  /\ Goes("none")
  /\ Same /\ UNCHANGED <<scm, restart, process, normal_stop, shared, raced>>

\* A call failed, 30 seconds passed, or the process was ended.
Abandon ==
  /\ command # "none" /\ Fault
  /\ Goes("none")
  /\ UNCHANGED <<scm, recovery, failures, restart, process, normal_stop, shared, raced, user,
                 commands>>

----------------------------------------------------------------------------

HostInit ==
  /\ \/ scm = "absent" /\ recovery = {}
     \/ scm = "stopped" /\ recovery = {"flag", "actions"}  \* installed once before
  /\ failures = 0 /\ restart = FALSE
  /\ process = "none" /\ normal_stop = FALSE
  /\ shared \in {"absent", "edited"} \* a new machine, or one the service ran on
  /\ raced = FALSE
  /\ user \in UserConfigs
  /\ command = "none" /\ faults = 0 /\ commands = 0

Installs ==
  \/ Migrate \/ MigrateSave \/ InstallPrepare \/ InstallCopy \/ CreateService
  \/ AskToStop \/ Update \/ SetFlag \/ SetActions \/ Delete \/ Start \/ Awaited

Runs == Prepare \/ Boot \/ FirstConfig \/ Ready \/ End \/ RestartDue

HostNext == Installs \/ Runs \/ NotReady \/ Crash \/ Damage \/ PutConfig \/ Command \/ Abandon

\* Processes run, and the manager does the restarts it has scheduled.
HostFair == WF_hvars(Installs) /\ WF_hvars(Runs)

HostSpec == HostInit /\ [][HostNext]_hvars /\ HostFair

----------------------------------------------------------------------------

(* Once the service is started it serves its pipe, whatever has become of    *)
(* the configuration, so that the desktop can repair it (CoreOptions,        *)
(* allow_recovery); to be read where a damaged file is the only fault.       *)
RecoveryReachable == (process = "prepare" /\ shared \in Unreadable) ~> (process = "serve")

HostTypeOK ==
  /\ scm \in {"absent", "stopped", "start_pending", "running", "stop_pending"}
  /\ process \in {"none", "prepare", "boot", "first", "pipe", "serve", "failing", "ending"}
  /\ failures \in 0..3 /\ restart \in BOOLEAN /\ normal_stop \in BOOLEAN
  /\ shared \in {"absent"} \cup Readable \cup Unreadable

\* The manager and the process agree; what is left for the manager to restart
\* is at most the second failure of a stopped service; and a service that was
\* removed runs nothing and comes back by nothing but an installation.
ServiceAgrees ==
  /\ process # "none" <=> scm \in {"start_pending", "running", "stop_pending"}
  /\ process = "serve" <=> scm = "running"
  /\ process = "ending" <=> scm = "stop_pending"
  /\ process = "ending" => normal_stop
  /\ restart => scm = "stopped" /\ "actions" \in recovery /\ failures \in 1..2
  /\ scm = "absent" => recovery = {} /\ failures = 0
  /\ command \in {"update", "flag", "actions", "await"} => scm # "absent"

\* No start, of the manager after a failure or of --start, meets a process that
\* still runs, stopping or failing.
NeverStartedTwice ==
  [][process' = "prepare" /\ process # "prepare" => process = "none" /\ scm = "stopped"]_hvars

\* Whoever is about to write a shared configuration has seen none; if there is
\* one all the same, somebody else wrote it in between.  What serves has one.
SeenNone ==
  /\ InstallerWrites \/ ProcessWrites => shared = "absent" \/ raced
  /\ process \in {"pipe", "serve"} => shared # "absent"

\* What there is of the shared configuration is kept, whoever wrote it: no
\* installation, no migration and no start writes over it, readable or not.  It
\* is lost by damage, replaced by a PUT to the service that serves, and, since
\* the last look at the file and its save are two steps, by an installer and a
\* first start that both saw none and write one after the other
\* (prepare_shared_config, migrate_user_secrets, load_or_init).
SharedIsKept ==
  [][shared # "absent" /\ shared' # shared =>
       \/ shared \in Readable /\ shared' \in Unreadable /\ faults < MaxFaults
       \/ shared' = "edited" /\ scm = "running"
       \/ raced]_hvars
=============================================================================
