--------------------------- MODULE HumanGateProps ---------------------------
(***************************************************************************)
(* What human gates promise, and what documents say of them.               *)
(***************************************************************************)
EXTENDS HumanGate

\* A gate node never proceeds, nor is refused, without somebody having acted
\* that way on that gate (approved it, answered or cancelled its task),
\* whatever is lost, redelivered, restarted, restored or late in between.
Positive == {"approve", "respond approve", "cancel"}
Negative == {"reject", "respond reject"}
VerdictHasAct ==
  \A g \in Gates :
    /\ node[g] = "passed"  => acts[g] \cap Positive # {}
    /\ node[g] = "refused" => acts[g] \cap Negative # {}

\* An approval is decided exactly when its threshold is reached, on either
\* side, whatever the order of approvals, rejections, delegations and HITL
\* answers, and no act is accepted after that (Approve, Reject, Delegate).
\* One with a threshold must not have been restored from a snapshot.
Quorate(g, a) ==
  a.config \/ g \in NodeGates =>
    /\ a.granted <= MinApprovals[g] /\ a.refused <= MaxRejections[g] + 1
    /\ (a.status = "approved") <=> (a.granted = MinApprovals[g])
    /\ (a.status = "rejected") <=> (a.refused = MaxRejections[g] + 1)

QuorumDecides == \A g \in Gates : Quorate(g, approval[g])

-----------------------------------------------------------------------------
(* The task and the approval agree. *)

\* Nobody answered the task but through its approval.
ThroughApproval(g) == acts[g] \subseteq Verdicts /\ restarts["M09"] = 0

Agree(g) ==
  /\ task[g] = "approved" => approval[g].status \in {"approved", "deleted"}
  /\ task[g] = "rejected" => approval[g].status \in {"rejected", "deleted"}

\* The task of a gate node is decided as its approval is, although the decision
\* travels through a broker that loses, repeats and reorders events.
DecisionsAgree == \A g \in NodeGates : ThroughApproval(g) => Agree(g)

-----------------------------------------------------------------------------
(* A gate implements GateContract. *)

FateOf(g) ==
  CASE node[g] = "idle" -> "none"
    [] node[g] \in {"raising", "waiting"} -> "open"
    [] OTHER -> node[g]

GC(g) == INSTANCE GateContract
           WITH said <- acts[g], decision <- task[g], fate <- FateOf(g)

\* Each gate behaves as GateContract allows: it is decided once, as somebody
\* said, no later act, event or answer reverses that, and its node ends once,
\* that way or as a failure, although several parties decide (approvals, answers
\* to the task, cancellation, redelivered events) and none looks at the others.
ImplementsGateContract ==
  /\ \A g \in Gates : GC(g)!Init
  /\ [][\A g \in Gates : [GC(g)!Next]_(GC(g)!view)]_vars

-----------------------------------------------------------------------------
(* Decisions arrive. *)

\* A response in the broker to a gate the enforcer knows decides the task,
\* unless something else does or the engine restarts.
ResponseApplied ==
  \A g \in Gates, v \in Verdicts :
    (<<g, v>> \in topic /\ g \in known /\ task[g] = "pending")
      ~> (task[g] # "pending")

\* A decision on record reaches the waiting node: the deadline of 24 h never
\* overrides it; only a stop or the death of the engine does.
DecisionReachesNode ==
  \A g \in NodeGates :
    /\ (node[g] = "waiting" /\ task[g] = "approved")
         ~> (node[g] = "passed" \/ g \in stopped \/ task[g] = "lost")
    /\ (node[g] = "waiting" /\ task[g] = "rejected")
         ~> (node[g] = "refused" \/ g \in stopped \/ task[g] = "lost")

\* No gate node waits for ever, although events are lost and gates forgotten.
GateEnds == \A g \in NodeGates : node[g] \in {"raising", "waiting"} ~> node[g] \in Ended
=============================================================================
