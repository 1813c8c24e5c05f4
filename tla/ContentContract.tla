-------------------------- MODULE ContentContract --------------------------
(***************************************************************************)
(* What the worker promises of one content (a chunk's hash), without runs, *)
(* batches, pollers or cancellations: once a job has met it, it is held by *)
(* a run, in module 07, or known to be lost, and never forgotten; only     *)
(* then is it recorded, and only then does a job claim to have ingested it.*)
(***************************************************************************)
VARIABLES
  fate,      \* "unknown", "held", "lost" or "stored"
  recorded,  \* some job has a row of it
  claims     \* completed jobs whose document has it

view == <<fate, recorded, claims>>

\* A job that runs again is not completed meanwhile.
Withdraws == claims' \subseteq claims

\* A run that has found no row takes it, also when another run has, and also one
\* that was lost; its row may fail.
Take ==
  /\ fate' = IF fate = "stored" THEN "stored" ELSE "held"
  /\ recorded' \in {recorded, TRUE}
  /\ Withdraws

Turn(before, after) ==
  /\ fate = before /\ fate' = after
  /\ Withdraws /\ UNCHANGED recorded

Skip == Turn("unknown", "lost")
Store == Turn("held", "stored")
Lose == Turn("held", "lost")

Claim ==
  /\ fate # "unknown" /\ claims \subseteq claims'
  /\ UNCHANGED <<fate, recorded>>

Withdraw == Withdraws /\ UNCHANGED <<fate, recorded>>

Init == fate = "unknown" /\ ~recorded /\ claims = {}

Next == Take \/ Skip \/ Store \/ Lose \/ Claim \/ Withdraw

Spec == Init /\ [][Next]_view
=============================================================================
