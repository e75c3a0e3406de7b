--------------------------- MODULE ConfigRegister ---------------------------
(***************************************************************************)
(* What the configuration file promises: a register that holds one         *)
(* configuration.  A save replaces it at one instant or not at all, Core   *)
(* serves what the register holds, a crash loses nothing of it, and damage *)
(* to the file takes the register back to a configuration it held before.  *)
(***************************************************************************)
CONSTANTS
  Configurations,   \* what may be saved
  Fallback,         \* stands for what Core serves when it cannot use the register
  Foreign,          \* the register holds nothing that this version reads
  Nothing           \* no configuration is being served

VARIABLES
  stored,    \* the configuration a start would find
  serving,   \* the configuration Core works with, Nothing while it is down
  former     \* the configurations the register has held

vars == <<stored, serving, former>>

Init ==
  /\ stored \in Configurations \cup {Foreign}
  /\ serving = Nothing
  /\ former \in SUBSET Configurations
  /\ stored \in former \cup {Foreign}

\* A save takes effect.
Commit ==
  /\ stored' \in Configurations
  /\ former' = former \cup {stored'}
  /\ UNCHANGED serving

\* Core serves what is stored: after a start, and after a save.
Serve ==
  /\ stored # Foreign
  /\ serving' = stored
  /\ UNCHANGED <<stored, former>>

\* Core is up for repair only, with the register untouched.
Recover ==
  /\ serving = Nothing
  /\ serving' = Fallback
  /\ UNCHANGED <<stored, former>>

Stop == serving' = Nothing /\ UNCHANGED <<stored, former>>

\* The file is damaged while nobody serves it: the register goes back.
Revert ==
  /\ serving = Nothing
  /\ stored' \in former
  /\ UNCHANGED <<serving, former>>

\* Saving while Core is up for repair gives up what could not be used, and
\* it is lost before the new configuration is in place.
Forfeit ==
  /\ serving = Fallback
  /\ stored' = Foreign
  /\ UNCHANGED <<serving, former>>

Next == Commit \/ Serve \/ Recover \/ Stop \/ Revert \/ Forfeit

Spec == Init /\ [][Next]_vars
=============================================================================
