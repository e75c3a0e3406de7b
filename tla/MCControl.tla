----------------------------- MODULE MCControl ------------------------------
(***************************************************************************)
(* The parts of the control plane that do not share state, checked side by *)
(* side: a behaviour is one of the part it chooses, the others rest in one *)
(* of their initial states.                                                *)
(***************************************************************************)
EXTENDS MCEngine, ProxyHealth, PipeIpc

CONSTANTS
  HostFaults,
  UserConfigs, MaxCommands, MaxAttempts

VARIABLES
  part,  \* "engine", "health", "pipe" or "desktop"
  scm, recovery, failures, restart, process, normal_stop, shared, raced, user, command,
  hostfaults, commands, transport, attempt, step, timer, online, manual, portable, owns, spawned

D == INSTANCE Desktop WITH faults <- hostfaults, MaxFaults <- HostFaults

Profile(kind, enabled, creds) == [kind |-> kind, enabled |-> enabled, user |-> creds]
MCProfiles == {Profile("socks5", TRUE, "none"), Profile("socks5", TRUE, "right"),
               Profile("direct", TRUE, "none"), Profile("socks5", FALSE, "none")}
MCServers == {"down", "mute", "open", "locked", "tcponly"}

Good == [who |-> "installer", size |-> "fits", frame |-> "whole", version |-> 1,
         fields |-> "valid", path |-> "known", elevated |-> FALSE]
MCRequests == {Good, [Good EXCEPT !.who = "other"], [Good EXCEPT !.size = "over"],
               [Good EXCEPT !.frame = "torn"], [Good EXCEPT !.elevated = TRUE]}

healthVars == <<proxies, pending, health, server, tick, snapshot, tasks, changes, settled>>
hostVars == <<scm, recovery, failures, restart, process, normal_stop, shared, raced, user, command,
              hostfaults, commands>>
desktopVars == <<hostVars, transport, attempt, step, timer, online, manual, portable, owns, spawned>>
allvars == <<part, vars, healthVars, ivars, desktopVars>>

Rest(values) == [p \in Proxies |-> CHOOSE v \in values : TRUE]

ControlInit ==
  /\ part \in {"engine", "health", "pipe", "desktop"}
  /\ Init /\ (part # "engine" => runtime = NoSnap)
  /\ HInit /\ (part # "health" => proxies = Rest(Profiles) /\ server = Rest(Servers))
  /\ IInit
  /\ D!DesktopInit /\ (part # "desktop" => shared = "absent" /\ user = "absent")

ControlNext ==
  \/ part = "engine" /\ Next /\ UNCHANGED <<part, healthVars, ivars, desktopVars>>
  \/ part = "health" /\ HNext /\ UNCHANGED <<part, vars, ivars, desktopVars>>
  \/ part = "pipe" /\ INext /\ UNCHANGED <<part, vars, healthVars, desktopVars>>
  \/ part = "desktop" /\ D!DesktopNext /\ UNCHANGED <<part, vars, healthVars, ivars>>

\* The fairness of each part (Fairness, IFair, DesktopFair) while it is the one.
ControlSpec ==
  /\ ControlInit /\ [][ControlNext]_allvars
  /\ \A t \in Callers : WF_vars(part = "engine" /\ Apply(t))
  /\ WF_vars(part = "engine" /\ Boot) /\ WF_vars(part = "engine" /\ Booted)
  /\ WF_vars(part = "engine" /\ Accepted) /\ WF_vars(part = "engine" /\ ReloadRefused)
  /\ WF_vars(part = "engine" /\ SwitchRefused) /\ WF_vars(part = "engine" /\ (Save \/ SaveRefused))
  /\ WF_vars(part = "engine" /\ SwitchBackRefused) /\ WF_vars(part = "engine" /\ RolledBack)
  /\ WF_vars(part = "engine" /\ Tick) /\ SF_vars(part = "engine" /\ Maintain)
  /\ SF_vars(part = "engine" /\ MaintainOther) /\ WF_vars(part = "engine" /\ Maintained)
  /\ WF_ivars(part = "pipe" /\ Create) /\ WF_ivars(part = "pipe" /\ CreateFails)
  /\ WF_ivars(part = "pipe" /\ Retry)
  /\ \A c \in Clients : WF_ivars(part = "pipe" /\ Serves(c)) /\ WF_ivars(part = "pipe" /\ Expire(c))
  /\ WF_hostVars(part = "desktop" /\ D!Installs) /\ WF_hostVars(part = "desktop" /\ D!Runs)
  /\ WF_desktopVars(part = "desktop" /\ D!Connects) /\ WF_desktopVars(part = "desktop" /\ D!Timer)
  /\ WF_desktopVars(part = "desktop" /\ D!Refreshed)
  /\ WF_desktopVars(part = "desktop" /\ D!Poll) /\ WF_desktopVars(part = "desktop" /\ D!FiveSeconds)
  /\ WF_desktopVars(part = "desktop" /\ D!PortableUp)

----------------------------------------------------------------------------
(* The parts' properties, as they state them.                                *)

\* The pipe listens again and again.
PipeRecovers == (part = "pipe") => ListensAgain

\* The window finds a core again that answers it.
DesktopReconnects == (part = "desktop") => D!DesktopReconnects
=============================================================================
