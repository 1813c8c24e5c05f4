----------------------------- MODULE HumanGate -----------------------------
(***************************************************************************)
(* A human gate of module 03 (agent orchestration): the gate node that     *)
(* creates a task, raises its approval in module 09 and polls the task;    *)
(* the enforcer that applies the decisions of module 09 to the task; and   *)
(* the routes that answer or cancel a task directly.                       *)
(*                                                                         *)
(* Every attempt of a gate node creates a task of its own, so a gate is    *)
(* one attempt. The portal raises gates as well: it creates the task with  *)
(* POST /human-tasks and posts the approval, of any type; no node waits    *)
(* for it. The task store is the in-memory one (in PostgreSQL the gate's   *)
(* task violates a foreign key and the node fails at once).                *)
(***************************************************************************)
EXTENDS ApprovalGate

CONSTANT NodeGates   \* the gates a gate node waits for

\* A gate node raises an approval of type parallel, without a threshold.
ASSUME GateAssumption ==
  /\ NodeGates \subseteq Gates
  /\ \A g \in NodeGates : MinApprovals[g] = 1 /\ MaxRejections[g] = 0

VARIABLES
  task,    \* gate -> status of its human task; "lost" after a restart
  node,    \* gate -> where its gate node is
  known,   \* gates in Enforcer.gates
  stopped  \* gates whose workflow was stopped

vars == <<supervision, task, node, known, stopped>>

Tasks == {"none", "pending", "approved", "rejected", "lost"}
Ended == {"passed", "refused", "failed"}
Nodes == {"idle", "raising", "waiting"} \cup Ended

TypeOK ==
  /\ ApprovalTypeOK
  /\ task \in [Gates -> Tasks]
  /\ node \in [Gates -> Nodes]
  /\ known \subseteq Gates
  /\ stopped \subseteq Gates

Init ==
  /\ ApprovalInit
  /\ task = [g \in Gates |-> "none"]
  /\ node = [g \in Gates |-> "idle"]
  /\ known = {}
  /\ stopped = {}

-----------------------------------------------------------------------------
(* The task store. *)

\* Faulty: a status of its own, which no poller knows.
FaultyAnswer(action) ==
  CASE action = "reject" -> "rejected" [] action = "cancel" -> "cancelled"
    [] OTHER -> "approved"

\* What the store makes of an action on a pending task: only reject and
\* request_info refuse it, so cancelling a task approves it.
Answer(action) == IF action = "reject" THEN "rejected" ELSE "approved"

Respond(g, action) == task' = [task EXCEPT ![g] = Answer(action)]

-----------------------------------------------------------------------------
(* The gate node. *)

LaunchGate(g) ==
  /\ g \in NodeGates
  /\ node[g] = "idle"
  /\ task' = [task EXCEPT ![g] = "pending"]
  /\ node' = [node EXCEPT ![g] = "raising"]
  /\ posted' = posted \cup {g}
  /\ UNCHANGED <<approval, hitl, answering, outbox, topic, savedApproval,
                 savedHitl, saving, acts, trouble, restarts, known, stopped>>

\* The request fails or takes more than 15 s; module 09 may never see it, or
\* handle it nevertheless.
RaiseFails(g) ==
  /\ node[g] = "raising"
  /\ node' = [node EXCEPT ![g] = "failed"]
  /\ posted' \in {posted, posted \ {g}}
  /\ UNCHANGED <<approval, hitl, answering, outbox, topic, savedApproval,
                 savedHitl, saving, acts, trouble, restarts, task, known, stopped>>

\* Module 09 publishes gate.raised and then replies.
PublishRaised(g) ==
  /\ Publish(g, "raised")
  /\ node' = [node EXCEPT ![g] = IF @ = "raising" THEN "waiting" ELSE @]
  /\ UNCHANGED <<task, known, stopped>>

PublishResponse(g, verdict) ==
  /\ Publish(g, verdict)
  /\ UNCHANGED <<task, node, known, stopped>>

\* A tick of the poll finds the decision.
Poll(g) ==
  /\ node[g] = "waiting"
  /\ \/ task[g] = "approved" /\ node' = [node EXCEPT ![g] = "passed"]
     \/ task[g] = "rejected" /\ node' = [node EXCEPT ![g] = "refused"]
  /\ UNCHANGED <<supervision, task, known, stopped>>

\* Faulty: the deadline is looked at first.
FaultyUndecided(g) == TRUE

\* Faulty: no deadline for a gate that module 09 shows as approved.
FaultyDeadline(g) ==
  task[g] \notin {"approved", "rejected"} /\ approval[g].status # "approved"

Undecided(g) == task[g] \notin {"approved", "rejected"}

\* A tick after 24 h finds none: the status is looked at before the deadline.
TimeOut(g) ==
  /\ "timeout" \in Occurs
  /\ node[g] = "waiting"
  /\ Undecided(g)
  /\ node' = [node EXCEPT ![g] = "failed"]
  /\ UNCHANGED <<supervision, task, known, stopped>>

\* The execution's context is cancelled; the request, if it is on its way, may
\* be handled all the same.
StopRun(g) ==
  /\ "stop" \in Occurs
  /\ node[g] \in {"raising", "waiting"}
  /\ node' = [node EXCEPT ![g] = "failed"]
  /\ stopped' = stopped \cup {g}
  /\ UNCHANGED <<supervision, task, known>>

-----------------------------------------------------------------------------
(* The enforcer: one goroutine per topic. *)

ConsumeRaised(g) ==
  /\ Take(g, "raised")
  /\ known' = known \cup {g}
  /\ UNCHANGED <<task, node, stopped>>

\* Faulty: responses to gates nobody waits for any more are ignored.
FaultyApplies(g) == g \in known /\ task[g] = "pending" /\ node[g] = "waiting"

\* Faulty: a task that was decided is answered again.
FaultyAppliesAgain(g) == g \in known

Applies(g) == g \in known /\ task[g] = "pending"

\* A response to a gate the enforcer does not know is dropped; one that the
\* task store refuses leaves the entry in place.
ConsumeResponse(g, verdict) ==
  /\ Take(g, verdict)
  /\ IF Applies(g)
     THEN Respond(g, verdict) /\ known' = known \ {g}
     ELSE UNCHANGED <<task, known>>
  /\ UNCHANGED <<node, stopped>>

-----------------------------------------------------------------------------
(* The routes for tasks. *)

CreateHumanTask(g) ==
  /\ g \in Gates \ NodeGates
  /\ task[g] = "none"
  /\ task' = [task EXCEPT ![g] = "pending"]
  /\ posted' = posted \cup {g}
  /\ UNCHANGED <<approval, hitl, answering, outbox, topic, savedApproval,
                 savedHitl, saving, acts, trouble, restarts, node, known, stopped>>

RespondToHumanTask(g, verdict) ==
  /\ "respond" \in Occurs
  /\ task[g] = "pending"
  /\ Respond(g, verdict)
  /\ acts' = [acts EXCEPT ![g] = @ \cup {IF verdict = "approve"
                                         THEN "respond approve" ELSE "respond reject"}]
  /\ UNCHANGED <<posted, approval, hitl, answering, outbox, topic, savedApproval,
                 savedHitl, saving, trouble, restarts, node, known, stopped>>

CancelHumanTask(g) ==
  /\ "cancel" \in Occurs
  /\ task[g] = "pending"
  /\ Respond(g, "cancel")
  /\ acts' = [acts EXCEPT ![g] = @ \cup {"cancel"}]
  /\ UNCHANGED <<posted, approval, hitl, answering, outbox, topic, savedApproval,
                 savedHitl, saving, trouble, restarts, node, known, stopped>>

\* The engine's process is replaced: tasks, gate map and waiting nodes are gone.
RestartEngine ==
  /\ restarts["M03"] < MaxRestarts
  /\ restarts' = [restarts EXCEPT !["M03"] = @ + 1]
  /\ task' = [g \in Gates |-> IF task[g] = "none" THEN "none" ELSE "lost"]
  /\ node' = [g \in Gates |->
                IF node[g] \in {"raising", "waiting"} THEN "failed" ELSE node[g]]
  /\ known' = {}
  /\ UNCHANGED <<posted, approval, hitl, answering, outbox, topic, savedApproval,
                 savedHitl, saving, acts, trouble, stopped>>

-----------------------------------------------------------------------------

SupervisionStep ==
  /\ \/ \E g \in Gates :
          \/ CreateApproval(g) \/ Delegate(g) \/ Expire(g) \/ Delete(g)
          \/ \E v \in Verdicts :
               Act(g, v) \/ RecordAnswer(g, v) \/ ApplyAnswer(g, v)
     \/ SaveApprovals \/ SaveAnswers \/ RestartSupervision
  /\ UNCHANGED <<task, node, known, stopped>>

GateStep ==
  \E g \in Gates :
    \/ LaunchGate(g) \/ RaiseFails(g) \/ PublishRaised(g)
    \/ Poll(g) \/ TimeOut(g) \/ StopRun(g) \/ ConsumeRaised(g)
    \/ CreateHumanTask(g) \/ CancelHumanTask(g)
    \/ \E v \in Verdicts :
         PublishResponse(g, v) \/ ConsumeResponse(g, v) \/ RespondToHumanTask(g, v)

Next == SupervisionStep \/ GateStep \/ RestartEngine

Spec == Init /\ [][Next]_vars

\* Handlers run to their end, messages are consumed, tickers tick; whether and
\* when people act is not assumed, nor when a request is handled.
Fairness ==
  \A g \in Gates :
    /\ WF_vars(RaiseFails(g) \/ PublishRaised(g))
    /\ WF_vars(Poll(g) \/ TimeOut(g))
    /\ WF_vars(ConsumeRaised(g))
    /\ \A v \in Verdicts :
         /\ WF_vars(PublishResponse(g, v))
         /\ WF_vars(ConsumeResponse(g, v))

FairSpec == Spec /\ Fairness
=============================================================================
