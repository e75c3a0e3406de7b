---------------------------- MODULE MCDocuments -----------------------------
(***************************************************************************)
(* What Core keeps in documents, checked side by side: the configuration   *)
(* file, and the policy the API edits.  A behaviour is one of the part it  *)
(* chooses.                                                                *)
(***************************************************************************)
EXTENDS MCConfigFile, MCRulePolicy

VARIABLE part  \* "file" or "policy"

fileVars == <<file, core, mem, job, found, interrupted, saved, faults>>

\* A part that rests is in one of its initial states.
FileRests == Init /\ file = [name \in Names |-> Absent]
PolicyRests ==
  config = C(<<>>, "proxifyre", FALSE, TRUE) /\ held = None /\ edits = 0 /\ foreign = FALSE

DocumentsInit ==
  \/ part = "file" /\ Init /\ PolicyRests
  \/ part = "policy" /\ PInit /\ FileRests

DocumentsNext ==
  \/ part = "file" /\ Next /\ UNCHANGED <<part, pvars>>
  \/ part = "policy" /\ PNext /\ UNCHANGED <<part, fileVars>>

DocumentsSpec == DocumentsInit /\ [][DocumentsNext]_<<part, fileVars, pvars>>
=============================================================================
