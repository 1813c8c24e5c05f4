---------------------------- MODULE ApprovalGate ----------------------------
(***************************************************************************)
(* Module 09 (human supervision): the approvals raised for human tasks,    *)
(* the acts on them, HITL answers, the events they cause, and the file     *)
(* snapshots the process restores after a restart.                         *)
(*                                                                         *)
(* An approval is raised for one task and carries its id as request_id, so *)
(* a gate stands for both. A handler changes the store first and publishes *)
(* afterwards: the outbox holds what handlers at work have yet to publish. *)
(*                                                                         *)
(* Broker messages form a set: the writer's balancer ignores the tenant    *)
(* key, so partitions, and with them the order of delivery, are free.      *)
(***************************************************************************)
EXTENDS Integers, FiniteSets

CONSTANTS
  Gates,          \* the gates: one human task and one approval each
  MinApprovals,   \* gate -> threshold_config.min_approvals, 1 by default
  MaxRejections,  \* gate -> threshold_config.max_rejections, 0 by default
  Occurs,         \* what people, clocks and operators do in this instance
  MaxTrouble,     \* publications lost and messages redelivered (bound)
  MaxRestarts     \* restarts of each of the two processes (bound)

ASSUME ApprovalAssumption ==
  /\ MinApprovals \in [Gates -> Nat \ {0}]
  /\ MaxRejections \in [Gates -> Nat]
  /\ MaxTrouble \in Nat
  /\ MaxRestarts \in Nat

VARIABLES
  posted,         \* gates whose POST /approvals is on its way
  approval,       \* gate -> its approval
  hitl,           \* gates with a recorded HITL answer
  answering,      \* <<gate, verdict>> of answers recorded and not yet applied
  outbox,         \* events of handlers at work, not yet published
  topic,          \* events in the broker, not yet consumed
  savedApproval,  \* approvals.json
  savedHitl,      \* hitl.json
  saving,         \* SaveAll wrote approvals.json and not yet hitl.json
  acts,           \* history: the human acts accepted on each gate
  trouble,        \* losses and redeliveries so far
  restarts        \* "M03", "M09" -> restarts so far

supervision == <<posted, approval, hitl, answering, outbox, topic,
                 savedApproval, savedHitl, saving, acts, trouble, restarts>>

Verdicts == {"approve", "reject"}
Events   == Gates \X ({"raised"} \cup Verdicts)

TerminalApproval == {"approved", "rejected", "expired"}
OpenApproval     == {"pending", "in_progress", "delegated"}

NoApproval == [status |-> "none", granted |-> 0, refused |-> 0, config |-> FALSE]
Approval   ==
  [status  : {"none", "deleted"} \cup OpenApproval \cup TerminalApproval,
   granted : Nat,      \* len(Approvals)
   refused : Nat,      \* len(Rejections)
   config  : BOOLEAN]  \* its threshold_config is there

\* What can be done to a task besides deciding its approval.
HumanActs == Verdicts \cup {"respond approve", "respond reject", "cancel"}

ApprovalTypeOK ==
  /\ posted \subseteq Gates
  /\ approval \in [Gates -> Approval]
  /\ hitl \subseteq Gates
  /\ answering \subseteq Gates \X Verdicts
  /\ outbox \subseteq Events
  /\ topic \subseteq Events
  /\ savedApproval \in [Gates -> Approval]
  /\ savedHitl \subseteq Gates
  /\ saving \in BOOLEAN
  /\ acts \in [Gates -> SUBSET HumanActs]
  /\ trouble \in Nat
  /\ restarts \in [{"M03", "M09"} -> Nat]

ApprovalInit ==
  /\ posted = {}
  /\ approval = [g \in Gates |-> NoApproval]
  /\ hitl = {}
  /\ answering = {}
  /\ outbox = {}
  /\ topic = {}
  /\ savedApproval = approval
  /\ savedHitl = hitl
  /\ saving = FALSE
  /\ acts = [g \in Gates |-> {}]
  /\ trouble = 0
  /\ restarts = [m \in {"M03", "M09"} |-> 0]

-----------------------------------------------------------------------------
(* Handlers. A request on a terminal approval is a conflict and changes    *)
(* nothing, so it is left out.                                             *)

\* Faulty: terminal approvals can be acted on.
FaultyOpen(g) == approval[g].status \notin {"none", "deleted"}

Open(g) == approval[g].status \in OpenApproval

\* What an approval without its threshold_config falls back to.
Needed(g)  == IF approval[g].config THEN MinApprovals[g] ELSE 1
Allowed(g) == IF approval[g].config THEN MaxRejections[g] ELSE 0

\* How Approve and Reject leave an approval.
Granted(g) ==
  LET n == approval[g].granted + 1 IN
  [approval[g] EXCEPT !.granted = n,
     !.status = IF n >= Needed(g) THEN "approved" ELSE "in_progress"]

\* Faulty: one rejection too few decides.
FaultyRefused(g) ==
  LET n == approval[g].refused + 1 IN
  [approval[g] EXCEPT !.refused = n,
     !.status = IF n >= Allowed(g) THEN "rejected" ELSE "in_progress"]

Refused(g) ==
  LET n == approval[g].refused + 1 IN
  [approval[g] EXCEPT !.refused = n,
     !.status = IF n > Allowed(g) THEN "rejected" ELSE "in_progress"]

\* The store decides, the act is on record and its event is still to be
\* published, whether or not the threshold was reached.
Decide(g, verdict) ==
  /\ approval' = [approval EXCEPT
       ![g] = IF verdict = "approve" THEN Granted(g) ELSE Refused(g)]
  /\ acts' = [acts EXCEPT ![g] = @ \cup {verdict}]
  /\ outbox' = outbox \cup {<<g, verdict>>}

\* POST /approvals arrives.
CreateApproval(g) ==
  /\ g \in posted
  /\ posted' = posted \ {g}
  /\ approval' = [approval EXCEPT
       ![g] = [NoApproval EXCEPT !.status = "pending", !.config = TRUE]]
  /\ outbox' = outbox \cup {<<g, "raised">>}
  /\ UNCHANGED <<hitl, answering, topic, savedApproval, savedHitl, saving,
                 acts, trouble, restarts>>

\* POST /approvals/{id}/approve and /reject.
Act(g, verdict) ==
  /\ verdict \in Occurs
  /\ Open(g)
  /\ Decide(g, verdict)
  /\ UNCHANGED <<posted, hitl, answering, topic, savedApproval, savedHitl,
                 saving, trouble, restarts>>

Delegate(g) ==
  /\ "delegate" \in Occurs
  /\ Open(g)
  /\ approval' = [approval EXCEPT ![g].status = "delegated"]
  /\ UNCHANGED <<posted, hitl, answering, outbox, topic, savedApproval,
                 savedHitl, saving, acts, trouble, restarts>>

\* A deadline was set by PATCH and has passed. The store turns the approval to
\* expired before the next request sees it, which is as good as at once.
Expire(g) ==
  /\ "expire" \in Occurs
  /\ Open(g)
  /\ approval' = [approval EXCEPT ![g].status = "expired"]
  /\ UNCHANGED <<posted, hitl, answering, outbox, topic, savedApproval,
                 savedHitl, saving, acts, trouble, restarts>>

Delete(g) ==
  /\ "delete" \in Occurs
  /\ approval[g].status \notin {"none", "deleted"}
  /\ approval' = [approval EXCEPT ![g] = [NoApproval EXCEPT !.status = "deleted"]]
  /\ UNCHANGED <<posted, hitl, answering, outbox, topic, savedApproval,
                 savedHitl, saving, acts, trouble, restarts>>

\* POST /hitl/{request_id}/answer records the answer, once per request ...
RecordAnswer(g, verdict) ==
  /\ "answer" \in Occurs
  /\ g \notin hitl
  /\ hitl' = hitl \cup {g}
  /\ answering' = answering \cup {<<g, verdict>>}
  /\ UNCHANGED <<posted, approval, outbox, topic, savedApproval, savedHitl,
                 saving, acts, trouble, restarts>>

\* ... and then decides the approval of that request, if there is one and it
\* is open; otherwise the answer stays on record and decides nothing.
ApplyAnswer(g, verdict) ==
  /\ <<g, verdict>> \in answering
  /\ answering' = answering \ {<<g, verdict>>}
  /\ IF Open(g) THEN Decide(g, verdict) ELSE UNCHANGED <<approval, acts, outbox>>
  /\ UNCHANGED <<posted, hitl, topic, savedApproval, savedHitl, saving,
                 trouble, restarts>>

-----------------------------------------------------------------------------
(* Snapshots and restarts. *)

\* SaveAll writes one file after the other, every ten seconds and at shutdown,
\* while requests go on. The JSON of an approval leaves its threshold_config
\* out. Only the last snapshot before a restart matters.
SaveApprovals ==
  /\ restarts["M09"] < MaxRestarts
  /\ ~saving
  /\ saving' = TRUE
  /\ savedApproval' = [g \in Gates |-> [approval[g] EXCEPT !.config = FALSE]]
  /\ UNCHANGED <<posted, approval, hitl, answering, outbox, topic, savedHitl,
                 acts, trouble, restarts>>

SaveAnswers ==
  /\ saving
  /\ saving' = FALSE
  /\ savedHitl' = hitl
  /\ UNCHANGED <<posted, approval, hitl, answering, outbox, topic,
                 savedApproval, acts, trouble, restarts>>

\* The process is replaced: its handlers are gone, its stores are the files'.
RestartSupervision ==
  /\ restarts["M09"] < MaxRestarts
  /\ restarts' = [restarts EXCEPT !["M09"] = @ + 1]
  /\ approval' = savedApproval
  /\ hitl' = savedHitl
  /\ answering' = {}
  /\ outbox' = {}
  /\ saving' = FALSE
  /\ UNCHANGED <<posted, topic, savedApproval, savedHitl, acts, trouble>>

-----------------------------------------------------------------------------
(* Publication: the broker takes the event, or the write fails and the     *)
(* handler goes on all the same.                                           *)

Publish(g, event) ==
  /\ <<g, event>> \in outbox
  /\ outbox' = outbox \ {<<g, event>>}
  /\ \/ topic' = topic \cup {<<g, event>>} /\ UNCHANGED trouble
     \/ trouble < MaxTrouble /\ trouble' = trouble + 1 /\ UNCHANGED topic
  /\ UNCHANGED <<posted, approval, hitl, answering, savedApproval, savedHitl,
                 saving, acts, restarts>>

\* The consumer takes an event; the broker may deliver it once more.
Take(g, event) ==
  /\ <<g, event>> \in topic
  /\ \/ topic' = topic \ {<<g, event>>} /\ UNCHANGED trouble
     \/ trouble < MaxTrouble /\ trouble' = trouble + 1 /\ UNCHANGED topic
  /\ UNCHANGED <<posted, approval, hitl, answering, outbox, savedApproval,
                 savedHitl, saving, acts, restarts>>
=============================================================================
