------------------------------ MODULE MCWindows ------------------------------
(***************************************************************************)
(* What Core changes in Windows, checked side by side: the firewall rules  *)
(* of ProxiFyre's backend, and the network settings with their recovery    *)
(* points.  A behaviour is one of the part it chooses.                     *)
(***************************************************************************)
EXTENDS MCFirewallRules, NetworkRepair

VARIABLE part  \* "firewall" or "network"

MCSettings ==
  {[on |-> TRUE, addr |-> "client", http |-> "client", bypass |-> "client", hosts |-> "own"],
   [on |-> TRUE, addr |-> Nothing, http |-> Nothing, bypass |-> Nothing, hosts |-> "plain"]}

MCFound == {s \in MCSettings : s.addr # Nothing}

\* Rules and clients, each interchangeable among themselves.
Symmetric == Perms \cup Permutations(Handlers)

\* A part that rests is in one of its initial states.
FirewallRests == Init /\ os = {}
NetworkRests == NInit /\ live = CHOOSE s \in Found : TRUE

WindowsInit ==
  \/ part = "firewall" /\ Init /\ NetworkRests
  \/ part = "network" /\ NInit /\ FirewallRests

WindowsNext ==
  \/ part = "firewall" /\ Next /\ UNCHANGED <<part, nvars>>
  \/ part = "network" /\ NNext /\ UNCHANGED <<part, vars>>

WindowsSpec == WindowsInit /\ [][WindowsNext]_<<part, vars, nvars>>
=============================================================================
