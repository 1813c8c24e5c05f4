--------------------------- MODULE DeployContract ---------------------------
(***************************************************************************)
(* What one deployment promises, without objects, copies, calls or edits:  *)
(* its stages end one after the other, one is completed only once what it  *)
(* makes exists, the department opens only when the deployment did, and    *)
(* after a failed stage never, whatever is edited, saved or restored; but  *)
(* an administrator may patch the status to any word.                      *)
(***************************************************************************)
EXTENDS Naturals, Sequences

CONSTANTS
  Stages,  \* names of the stages in their order
  Seats,   \* seats that deploy_swarm registers an agent for
  SOPs     \* number of workflows that deploy_workflows creates

VARIABLES
  record,     \* status of the deployment and of its stages
  alive,      \* the run goes on
  shown,      \* status of the department
  agents,     \* seats whose agent is registered
  workflows,  \* number of workflows that exist
  kept        \* the record as it was last saved

view == <<record, alive, shown, agents, workflows, kept>>

Failed(of) == \E i \in 1 .. Len(Stages) : of.stage[i] = "failed"

\* Anything may be shown but operation, before the run's end or after a failure.
Shows == alive \/ Failed(record') => shown' # "operational"

Makes == agents \subseteq agents' /\ workflows <= workflows'

Made(stage) ==
  /\ stage = "deploy_swarm" => agents = Seats
  /\ stage = "deploy_workflows" => workflows = SOPs

Turn(i, before, after) ==
  /\ alive /\ record.stage[i] = before
  /\ record' = [record EXCEPT !.stage[i] = after]
  /\ UNCHANGED <<alive, shown, agents, workflows, kept>>

\* The status follows in a write of its own.
State(status) ==
  /\ alive
  /\ record' = [record EXCEPT !.status = status]
  /\ UNCHANGED <<alive, shown, agents, workflows, kept>>

Begin(i) ==
  /\ Turn(i, "none", "running")
  /\ \A k \in 1 .. i - 1 : record.stage[k] = "completed"

Enter(i) == record.stage[i] = "running" /\ State(Stages[i])

Complete(i) ==
  /\ Turn(i, "running", "completed") /\ Made(Stages[i])
  /\ record.status = Stages[i]

Fail(i) ==
  /\ Turn(i, "running", "failed")
  /\ record.status = Stages[i]

Settle == Failed(record) /\ State("failed")

Work ==
  /\ Makes /\ Shows
  /\ ~alive => UNCHANGED <<agents, workflows>>
  /\ UNCHANGED <<record, alive, kept>>

Open ==
  /\ \A i \in 1 .. Len(Stages) : record.stage[i] = "completed"
  /\ State("operational")

\* The run ends and the department shows how.
End ==
  /\ alive /\ alive' = FALSE
  /\ \/ record.status = "operational" /\ shown' = "operational"
     \/ record.status = "failed" /\ shown' = "degraded"
  /\ UNCHANGED <<record, agents, workflows, kept>>

Keep == kept' = record /\ UNCHANGED <<record, alive, shown, agents, workflows>>

Recover ==
  /\ record' = kept /\ alive' = FALSE /\ Shows
  /\ UNCHANGED <<agents, workflows, kept>>

Init ==
  /\ record.status = "select" /\ \A i \in 1 .. Len(Stages) : record.stage[i] = "none"
  /\ alive = TRUE /\ shown = "provisioning"
  /\ agents = {} /\ workflows = 0
  /\ kept = record

Next ==
  \/ Work \/ Settle \/ Open \/ End \/ Keep \/ Recover
  \/ \E i \in 1 .. Len(Stages) : Begin(i) \/ Enter(i) \/ Complete(i) \/ Fail(i)

Spec == Init /\ [][Next]_view
=============================================================================
