---------------------------- MODULE HumanGateInv ----------------------------
(***************************************************************************)
(* The inductive invariant of human gates, in parts named for what they    *)
(* say; HumanGateProofs shows that every step preserves it.                *)
(***************************************************************************)
EXTENDS HumanGateProps

\* What an event says was done, and what a decided task was told.
EventsHaveActs ==
  \A g \in Gates, v \in Verdicts :
    <<g, v>> \in outbox \cup topic => v \in acts[g]

TasksHaveActs ==
  \A g \in Gates :
    /\ task[g] = "approved" => acts[g] \cap Positive # {}
    /\ task[g] = "rejected" => acts[g] \cap Negative # {}

\* A gate node starts by creating its task, and creates no other; no node waits
\* for a gate of the portal.
AskedOnce ==
  \A g \in Gates :
    IF g \in NodeGates THEN (node[g] = "idle") <=> (task[g] = "none")
                       ELSE node[g] = "idle"

\* QuorumDecides, of the snapshot too: a restart turns it into the store.
Quorums == \A g \in Gates : Quorate(g, approval[g]) /\ Quorate(g, savedApproval[g])

\* An approval is posted once: nothing is in the store, or in the snapshot,
\* before the post arrives.
Unraised(g) == IF g \in NodeGates THEN node[g] = "idle" ELSE task[g] = "none"

PostedOnce ==
  \A g \in Gates :
    /\ Unraised(g) => g \notin posted
    /\ Unraised(g) \/ g \in posted =>
         approval[g].status = "none" /\ savedApproval[g].status = "none"

\* Until module 09 restarts, an event about a gate node's gate tells how its
\* approval stands, or stood before it was deleted.
EventsTell ==
  restarts["M09"] = 0 =>
    \A g \in NodeGates :
      /\ <<g, "approve">> \in outbox \cup topic => approval[g].status \in {"approved", "deleted"}
      /\ <<g, "reject">>  \in outbox \cup topic => approval[g].status \in {"rejected", "deleted"}

GateInv ==
  /\ TypeOK
  /\ EventsHaveActs /\ TasksHaveActs /\ VerdictHasAct
  /\ Quorums /\ AskedOnce /\ PostedOnce
  /\ EventsTell /\ DecisionsAgree
=============================================================================
