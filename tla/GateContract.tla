---------------------------- MODULE GateContract ----------------------------
(***************************************************************************)
(* What one human gate promises, without approvals, events, an enforcer,   *)
(* polls or snapshots: people say things about the gate, it is decided at  *)
(* most once and only as somebody said, and what waits for it ends once,   *)
(* as the gate was decided or as a failure.                                *)
(***************************************************************************)
EXTENDS Integers

CONSTANTS Positive, Negative   \* what people can say for and against

VARIABLES
  said,      \* what people said about the gate
  decision,  \* "none", "pending", "approved", "rejected", or "lost"
  fate       \* of the node that waits: "none", "open", "passed", "refused" or "failed"

view == <<said, decision, fate>>

\* People may always say more; nothing is taken back.
Say == said \subseteq said' /\ UNCHANGED <<decision, fate>>

\* A gate is asked once, for a node or for nobody.
Ask ==
  /\ decision = "none" /\ fate = "none"
  /\ decision' = "pending" /\ fate' \in {"none", "open"}
  /\ UNCHANGED said

\* A decision is never reversed, and rests on something that was said.
Decide ==
  /\ decision = "pending"
  /\ said \subseteq said'
  /\ \/ decision' = "approved" /\ said' \cap Positive # {}
     \/ decision' = "rejected" /\ said' \cap Negative # {}
  /\ UNCHANGED fate

\* The node ends as the gate was decided ...
Finish ==
  /\ fate = "open"
  /\ \/ decision = "approved" /\ fate' = "passed"
     \/ decision = "rejected" /\ fate' = "refused"
  /\ UNCHANGED <<said, decision>>

\* ... or gives up.
GiveUp == fate = "open" /\ fate' = "failed" /\ UNCHANGED <<said, decision>>

\* The gate is forgotten, and with it the node that waits.
Lose ==
  /\ decision # "none" /\ decision' = "lost"
  /\ fate' = IF fate = "open" THEN "failed" ELSE fate
  /\ UNCHANGED said

Init == said = {} /\ decision = "none" /\ fate = "none"

Next == Say \/ Ask \/ Decide \/ Finish \/ GiveUp \/ Lose

Spec == Init /\ [][Next]_view
=============================================================================
