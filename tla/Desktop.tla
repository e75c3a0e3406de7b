------------------------------- MODULE Desktop ------------------------------
(***************************************************************************)
(* The desktop's connection to Core: how the window chooses between the    *)
(* service's pipe and a core of its own over HTTP (smartflow-ui,           *)
(* src-tauri/src/main.rs), and how it tries again (dist/app.js), beside    *)
(* the service that may be installed, stopped, restarted or removed at any *)
(* point.                                                                  *)
(***************************************************************************)
EXTENDS ServiceHost

CONSTANT MaxAttempts  \* of one connectWithRetry

VARIABLES
  transport,  \* "http", "named_pipe" or "unavailable"
  attempt,    \* of the connectWithRetry under way, 0 without one
  step,       \* what the attempt does next
  timer,      \* reconnectTimer is set
  online,
  manual,     \* a refresh the user asked for has its requests under way
  portable,   \* the core the desktop starts: "none", "booting" or "up"
  owns,       \* owns_core
  spawned     \* last_core_spawn is less than five seconds ago

uvars == <<transport, attempt, step, timer, online, manual, portable, owns, spawned>>
dvars == <<hvars, uvars>>

----------------------------------------------------------------------------

Reachable ==
  \/ transport = "named_pipe" /\ process = "serve"
  \/ transport = "http" /\ portable = "up"

\* refresh_core_session chose, the page loads what it shows.
Chosen(t) == transport' = t /\ step' = "load"

\* Mutant: chosen once, when there is something to choose.
LookOnce ==
  /\ attempt > 0 /\ step = "look"
  /\ IF transport # "http" THEN Chosen(transport)
     ELSE IF scm # "absent" THEN Chosen(IF process = "serve" THEN "named_pipe" ELSE "unavailable")
     ELSE step' = "probe" /\ UNCHANGED transport
  /\ UNCHANGED <<attempt, timer, online, manual, portable, owns, spawned, hvars>>

\* resolve_transport: an installed service is authoritative, even when down.
Look ==
  /\ attempt > 0 /\ step = "look"
  /\ IF scm # "absent" THEN Chosen(IF process = "serve" THEN "named_pipe" ELSE "unavailable")
     ELSE step' = "probe" /\ UNCHANGED transport
  /\ UNCHANGED <<attempt, timer, online, manual, portable, owns, spawned, hvars>>

\* No service a moment ago: spawn_core_if_needed, at most every five seconds. A
\* second core does not get the port and ends.
Probe ==
  /\ attempt > 0 /\ step = "probe"
  /\ Chosen("http")
  /\ IF portable # "up" /\ ~spawned
     THEN portable' = "booting" /\ owns' = TRUE /\ spawned' = TRUE
     ELSE UNCHANGED <<portable, owns, spawned>>
  /\ UNCHANGED <<attempt, timer, online, manual, hvars>>

Trying == attempt > 0 \/ timer

\* state.refreshing: the attempt's refreshAll, or the user's.
Refreshing == step = "load" \/ manual

\* setOnline(true) clears the timer; scheduleReconnect sets none during an attempt.
GoesOnline == online' = TRUE /\ timer' = FALSE
GoesOffline == online' = FALSE /\ timer' = (timer \/ attempt = 0)

\* refreshAll of an attempt, and the end of connectWithRetry.
Loaded ==
  /\ attempt > 0 /\ step = "load" /\ ~manual /\ Reachable
  /\ GoesOnline
  /\ attempt' = 0 /\ step' = "look"
  /\ UNCHANGED <<transport, manual, portable, owns, spawned, hvars>>

NotLoaded ==
  /\ attempt > 0 /\ step = "load" /\ ~manual /\ ~Reachable
  /\ online' = FALSE /\ step' = "look"
  /\ IF attempt < MaxAttempts THEN attempt' = attempt + 1 /\ UNCHANGED timer
                              ELSE attempt' = 0 /\ timer' = TRUE
  /\ UNCHANGED <<transport, manual, portable, owns, spawned, hvars>>

\* While the user's refresh is under way the attempt's returns at once, as if it
\* had loaded everything; the end of connectWithRetry looks whether it has.
Skipped ==
  /\ attempt > 0 /\ step = "load" /\ manual
  /\ attempt' = 0 /\ step' = "look"
  /\ timer' = (timer \/ ~online)
  /\ UNCHANGED <<transport, online, manual, portable, owns, spawned, hvars>>

\* scheduleReconnect's timer; the window is shown.
Timer ==
  /\ timer /\ timer' = FALSE
  /\ IF attempt = 0 THEN attempt' = 1 /\ step' = "look" ELSE UNCHANGED <<attempt, step>>
  /\ UNCHANGED <<transport, online, manual, portable, owns, spawned, hvars>>

\* The interval of init: live data while online, else a timer.
Poll ==
  /\ ~Refreshing
  /\ IF online THEN ~Reachable ELSE ~Trying
  /\ GoesOffline
  /\ UNCHANGED <<transport, attempt, step, manual, portable, owns, spawned, hvars>>

\* refreshBtn, F5: refreshAll, with the transport there is.
Refresh ==
  /\ ~Refreshing
  /\ manual' = TRUE
  /\ UNCHANGED <<transport, attempt, step, timer, online, portable, owns, spawned, hvars>>

Refreshed ==
  /\ manual /\ manual' = FALSE
  /\ IF Reachable THEN GoesOnline ELSE GoesOffline
  /\ UNCHANGED <<transport, attempt, step, portable, owns, spawned, hvars>>

\* retryBtn of the banner that is shown offline.
Reconnect ==
  /\ ~online /\ attempt = 0
  /\ attempt' = 1 /\ step' = "look"
  /\ UNCHANGED <<transport, timer, online, manual, portable, owns, spawned, hvars>>

\* loadLiveData after any other button.
LiveData ==
  /\ Reachable /\ ~online
  /\ GoesOnline
  /\ UNCHANGED <<transport, attempt, step, manual, portable, owns, spawned, hvars>>

\* reportError: one that names the core takes the window offline, and schedules
\* nothing.
Complaint ==
  /\ online /\ online' = FALSE
  /\ UNCHANGED <<transport, attempt, step, timer, manual, portable, owns, spawned, hvars>>

FiveSeconds ==
  /\ spawned /\ spawned' = FALSE
  /\ UNCHANGED <<transport, attempt, step, timer, online, manual, portable, owns, hvars>>

\* The core reads the user's configuration or writes the defaults; without the
\* recovery mode of the service it ends when that cannot be read.
PortableUp ==
  /\ portable = "booting"
  /\ portable' = IF user = "corrupt" THEN "none" ELSE "up"
  /\ user' = IF user = "absent" THEN "good" ELSE user
  /\ UNCHANGED <<transport, attempt, step, timer, online, manual, owns, spawned>>
  /\ UNCHANGED <<scm, recovery, failures, restart, process, normal_stop, shared, raced, command,
                 faults, commands>>

PortableEnds ==
  /\ portable # "none" /\ Fault
  /\ portable' = "none"
  /\ UNCHANGED <<transport, attempt, step, timer, online, manual, owns, spawned>>
  /\ UNCHANGED <<scm, recovery, failures, restart, process, normal_stop, shared, raced, user,
                 command, commands>>

\* Quit, and started again.  The core it owns is asked to stop by a request
\* whose failure nobody looks at: one that is still starting does not hear it.
Reopen ==
  /\ commands < MaxCommands /\ commands' = commands + 1
  /\ \/ portable' = (IF owns /\ portable = "up" THEN "none" ELSE portable) /\ UNCHANGED faults
     \/ owns /\ portable = "up" /\ Fault /\ UNCHANGED portable
  /\ owns' = FALSE /\ spawned' = FALSE
  /\ online' = FALSE /\ timer' = FALSE /\ manual' = FALSE
  /\ attempt' = 1 /\ step' = "look"
  /\ UNCHANGED <<transport, scm, recovery, failures, restart, process, normal_stop, shared, raced,
                 user, command>>

----------------------------------------------------------------------------

DesktopInit ==
  /\ HostInit
  /\ transport = "http" /\ attempt = 1 /\ step = "look"
  /\ timer = FALSE /\ online = FALSE /\ manual = FALSE
  /\ portable = "none" /\ owns = FALSE /\ spawned = FALSE

Connects == Look \/ Probe \/ Loaded \/ NotLoaded \/ Skipped

Asked == Refresh \/ Reconnect \/ LiveData \/ Complaint

DesktopNext ==
  \/ HostNext /\ UNCHANGED uvars
  \/ Connects \/ Timer \/ Poll \/ Asked \/ Refreshed
  \/ FiveSeconds \/ PortableUp \/ PortableEnds \/ Reopen

\* The page's timers run, its requests are answered or time out, and a core that
\* was started comes up or ends.
DesktopFair ==
  /\ HostFair
  /\ WF_dvars(Connects) /\ WF_dvars(Timer) /\ WF_dvars(Poll) /\ WF_dvars(Refreshed)
  /\ WF_dvars(FiveSeconds) /\ WF_dvars(PortableUp)

DesktopSpec == DesktopInit /\ [][DesktopNext]_dvars /\ DesktopFair

----------------------------------------------------------------------------

\* The service is installed and down, and nobody is going to start it: stopped
\* on purpose, never started, failed for the third time, or its configuration
\* is refused.
LeftDown == scm = "stopped" /\ ~restart /\ command = "none"

\* There is no service, and the user's own configuration cannot be read: a core
\* of the desktop's ends before it serves.
NoCoreStarts == scm = "absent" /\ user = "corrupt"

(* Whatever is installed, stopped, crashed or removed around it, and whatever *)
(* the user refreshes, the window finds a core again that answers it, unless *)
(* the service is left down, or there is none and the user's configuration   *)
(* keeps the desktop's own core from starting; it never stays with a         *)
(* transport that has gone (connectWithRetry, refresh_core_session, the      *)
(* service's failure actions).                                               *)
DesktopReconnects == []<>((online /\ Reachable) \/ LeftDown \/ NoCoreStarts)

\* Once the window tries to connect it goes on trying until it is online,
\* although the refresh of an attempt answers success without having loaded
\* anything while the user's is under way, and although its one timer fires
\* during an attempt to no effect (refreshAll, connectWithRetry, scheduleReconnect).
TriesUntilOnline == [][Trying /\ ~Trying' => online']_dvars

\* Online, no timer is left that would start another attempt.
NoTimerOnline == online => ~timer

DesktopInv ==
  /\ HostTypeOK /\ ServiceAgrees /\ SeenNone
  /\ attempt \in Nat /\ timer \in BOOLEAN /\ online \in BOOLEAN /\ owns \in BOOLEAN
  /\ NoTimerOnline
=============================================================================
