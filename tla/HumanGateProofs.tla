-------------------------- MODULE HumanGateProofs --------------------------
(***************************************************************************)
(* Human gates keep their promises for every set of gates, every threshold *)
(* and any number of losses, redeliveries and restarts.                    *)
(***************************************************************************)
EXTENDS HumanGateInv, TLAPS

-----------------------------------------------------------------------------
(* What the decisions of the approval store do to one approval. *)

\* NoApproval is an approval, and so are one emptied to a new status and one
\* to which Approve, Reject or Delegate was applied.
LEMMA DecisionsTyped ==
  ASSUME TypeOK, NEW g \in Gates
  PROVE  /\ NoApproval \in Approval
         /\ [NoApproval EXCEPT !.status = "pending", !.config = TRUE] \in Approval
         /\ [NoApproval EXCEPT !.status = "deleted"] \in Approval
         /\ Granted(g) \in Approval
         /\ Refused(g) \in Approval
         /\ [approval[g] EXCEPT !.status = "delegated"] \in Approval
         /\ [approval[g] EXCEPT !.status = "expired"] \in Approval
<1>1. approval[g] \in Approval
  BY DEF TypeOK, ApprovalTypeOK
<1>2. approval[g].granted + 1 \in Nat /\ approval[g].refused + 1 \in Nat
  BY <1>1 DEF Approval
<1>3. Granted(g) \in Approval
  BY <1>1, <1>2 DEF Granted, Approval, OpenApproval, TerminalApproval
<1>4. Refused(g) \in Approval
  BY <1>1, <1>2 DEF Refused, Approval, OpenApproval, TerminalApproval
<1> QED
  BY <1>1, <1>3, <1>4 DEF NoApproval, Approval, OpenApproval, TerminalApproval

\* The fallback of a gate node's gate is its threshold.
LEMMA Thresholds ==
  ASSUME TypeOK, NEW g \in Gates, approval[g].config \/ g \in NodeGates
  PROVE  Needed(g) = MinApprovals[g] /\ Allowed(g) = MaxRejections[g]
BY GateAssumption DEF Needed, Allowed

\* Approve and Reject keep an open approval decided exactly at its threshold.
LEMMA DecisionsQuorate ==
  ASSUME TypeOK, NEW g \in Gates, Open(g), Quorate(g, approval[g])
  PROVE  Quorate(g, Granted(g)) /\ Quorate(g, Refused(g))
<1>1. approval[g] \in Approval /\ MinApprovals[g] \in Nat \ {0} /\ MaxRejections[g] \in Nat
  BY ApprovalAssumption DEF TypeOK, ApprovalTypeOK
<1>2. Granted(g).config = approval[g].config /\ Refused(g).config = approval[g].config
  BY <1>1 DEF Granted, Refused, Approval
<1>3. CASE ~(approval[g].config \/ g \in NodeGates)
  BY <1>2, <1>3 DEF Quorate
<1>4. CASE approval[g].config \/ g \in NodeGates
  <2> DEFINE a == approval[g]
  <2>1. /\ a.granted \in Nat /\ a.refused \in Nat
        /\ a.granted < MinApprovals[g] /\ a.refused < MaxRejections[g] + 1
    BY <1>1, <1>4 DEF Quorate, Open, OpenApproval, Approval
  <2>2. Needed(g) = MinApprovals[g] /\ Allowed(g) = MaxRejections[g]
    BY <1>4, Thresholds
  <2>3. Quorate(g, Granted(g))
    <3>1. /\ Granted(g).granted = a.granted + 1 /\ Granted(g).refused = a.refused
          /\ Granted(g).status = IF a.granted + 1 >= MinApprovals[g] THEN "approved" ELSE "in_progress"
      BY <1>1, <2>2 DEF Granted, Approval
    <3> QED
      BY <1>1, <2>1, <3>1 DEF Quorate
  <2>4. Quorate(g, Refused(g))
    <3>1. /\ Refused(g).refused = a.refused + 1 /\ Refused(g).granted = a.granted
          /\ Refused(g).status = IF a.refused + 1 > MaxRejections[g] THEN "rejected" ELSE "in_progress"
      BY <1>1, <2>2 DEF Refused, Approval
    <3> QED
      BY <1>1, <2>1, <3>1 DEF Quorate
  <2> QED BY <2>3, <2>4
<1> QED BY <1>3, <1>4

\* An emptied approval, or one whose status alone changes to an undecided one,
\* keeps its counts below the thresholds.
LEMMA StatusQuorate ==
  ASSUME TypeOK, NEW g \in Gates
  PROVE  /\ Quorate(g, NoApproval)
         /\ Quorate(g, [NoApproval EXCEPT !.status = "pending", !.config = TRUE])
         /\ Quorate(g, [NoApproval EXCEPT !.status = "deleted"])
         /\ Open(g) /\ Quorate(g, approval[g]) =>
              /\ Quorate(g, [approval[g] EXCEPT !.status = "delegated"])
              /\ Quorate(g, [approval[g] EXCEPT !.status = "expired"])
<1>1. approval[g] \in Approval /\ MinApprovals[g] \in Nat \ {0} /\ MaxRejections[g] \in Nat
  BY ApprovalAssumption DEF TypeOK, ApprovalTypeOK
<1> QED
  BY <1>1 DEF Quorate, NoApproval, Open, OpenApproval, Approval
-----------------------------------------------------------------------------
(* Types. *)

LEMMA TypeInit == Init => TypeOK
<1> SUFFICES ASSUME Init PROVE TypeOK
  OBVIOUS
<1>1. NoApproval \in Approval
  BY DEF NoApproval, Approval
<1>2. ApprovalTypeOK
  BY <1>1 DEF Init, ApprovalInit, ApprovalTypeOK, HumanActs
<1> QED
  BY <1>2 DEF Init, TypeOK, Tasks, Nodes

\* Recording a decision keeps the types of the approvals, acts and outbox.
LEMMA DecideTyped ==
  ASSUME TypeOK, NEW g \in Gates, NEW v \in Verdicts, Decide(g, v)
  PROVE  /\ approval' \in [Gates -> Approval]
         /\ acts' \in [Gates -> SUBSET HumanActs]
         /\ outbox' \subseteq Events
<1>1. approval' \in [Gates -> Approval]
  <2>1. Granted(g) \in Approval /\ Refused(g) \in Approval
    BY DecisionsTyped
  <2> QED
    BY <2>1 DEF Decide, TypeOK, ApprovalTypeOK
<1>2. acts' \in [Gates -> SUBSET HumanActs]
  BY DEF Decide, TypeOK, ApprovalTypeOK, HumanActs
<1>3. outbox' \subseteq Events
  BY DEF Decide, TypeOK, ApprovalTypeOK, Events
<1> QED BY <1>1, <1>2, <1>3

\* No step of module 09 leaves the types.
LEMMA SupervisionTyped ==
  ASSUME TypeOK, SupervisionStep
  PROVE  TypeOK'
<1> USE DEF TypeOK, ApprovalTypeOK
<1>1. ASSUME NEW g \in Gates, CreateApproval(g) PROVE TypeOK'
  <2>1. [NoApproval EXCEPT !.status = "pending", !.config = TRUE] \in Approval
    BY DecisionsTyped
  <2>2. approval' \in [Gates -> Approval] /\ outbox' \subseteq Events
    BY <1>1, <2>1 DEF CreateApproval, Events
  <2> QED
    BY <1>1, <2>2 DEF SupervisionStep, CreateApproval
<1>2. ASSUME NEW g \in Gates, Delegate(g) PROVE TypeOK'
  <2>1. [approval[g] EXCEPT !.status = "delegated"] \in Approval
    BY DecisionsTyped
  <2>2. approval' \in [Gates -> Approval]
    BY <1>2, <2>1 DEF Delegate
  <2> QED
    BY <1>2, <2>2 DEF SupervisionStep, Delegate
<1>3. ASSUME NEW g \in Gates, Expire(g) PROVE TypeOK'
  <2>1. [approval[g] EXCEPT !.status = "expired"] \in Approval
    BY DecisionsTyped
  <2>2. approval' \in [Gates -> Approval]
    BY <1>3, <2>1 DEF Expire
  <2> QED
    BY <1>3, <2>2 DEF SupervisionStep, Expire
<1>4. ASSUME NEW g \in Gates, Delete(g) PROVE TypeOK'
  <2>1. [NoApproval EXCEPT !.status = "deleted"] \in Approval
    BY DecisionsTyped
  <2>2. approval' \in [Gates -> Approval]
    BY <1>4, <2>1 DEF Delete
  <2> QED
    BY <1>4, <2>2 DEF SupervisionStep, Delete
<1>5. ASSUME NEW g \in Gates, NEW v \in Verdicts, Act(g, v) PROVE TypeOK'
  BY <1>5, DecideTyped DEF SupervisionStep, Act
<1>6. ASSUME NEW g \in Gates, NEW v \in Verdicts, RecordAnswer(g, v) PROVE TypeOK'
  BY <1>6 DEF SupervisionStep, RecordAnswer
<1>7. ASSUME NEW g \in Gates, NEW v \in Verdicts, ApplyAnswer(g, v) PROVE TypeOK'
  BY <1>7, DecideTyped DEF SupervisionStep, ApplyAnswer
<1>8. ASSUME SaveApprovals \/ SaveAnswers PROVE TypeOK'
  <2>1. \A g \in Gates : [approval[g] EXCEPT !.config = FALSE] \in Approval
    BY DEF Approval
  <2>2. CASE SaveApprovals
    BY <1>8, <2>1, <2>2 DEF SupervisionStep, SaveApprovals
  <2>3. CASE SaveAnswers
    BY <1>8, <2>3 DEF SupervisionStep, SaveAnswers
  <2> QED BY <1>8, <2>2, <2>3
<1>9. ASSUME RestartSupervision PROVE TypeOK'
  <2>1. restarts' \in [{"M03", "M09"} -> Nat]
    BY <1>9 DEF RestartSupervision
  <2> QED
    BY <1>9, <2>1 DEF SupervisionStep, RestartSupervision
<1> QED
  BY <1>1, <1>2, <1>3, <1>4, <1>5, <1>6, <1>7, <1>8, <1>9 DEF SupervisionStep

\* Nor does a step of the gate nodes, the enforcer or the task routes.
LEMMA GateTyped ==
  ASSUME TypeOK, GateStep
  PROVE  TypeOK'
<1> USE DEF TypeOK, ApprovalTypeOK, Tasks, Nodes, Ended
<1>1. ASSUME NEW g \in Gates, LaunchGate(g) \/ RaiseFails(g) PROVE TypeOK'
  BY <1>1 DEF LaunchGate, RaiseFails
<1>2. ASSUME NEW g \in Gates, PublishRaised(g) PROVE TypeOK'
  BY <1>2 DEF PublishRaised, Publish
<1>3. ASSUME NEW g \in Gates, Poll(g) \/ TimeOut(g) \/ StopRun(g) PROVE TypeOK'
  BY <1>3 DEF Poll, TimeOut, StopRun, supervision
<1>4. ASSUME NEW g \in Gates, ConsumeRaised(g) PROVE TypeOK'
  BY <1>4 DEF ConsumeRaised, Take
<1>5. ASSUME NEW g \in Gates, CreateHumanTask(g) PROVE TypeOK'
  BY <1>5 DEF CreateHumanTask
<1>6. ASSUME NEW g \in Gates, CancelHumanTask(g) PROVE TypeOK'
  BY <1>6 DEF CancelHumanTask, Respond, Answer, HumanActs
<1>7. ASSUME NEW g \in Gates, NEW v \in Verdicts, PublishResponse(g, v) PROVE TypeOK'
  BY <1>7 DEF PublishResponse, Publish
<1>8. ASSUME NEW g \in Gates, NEW v \in Verdicts, ConsumeResponse(g, v) PROVE TypeOK'
  BY <1>8 DEF ConsumeResponse, Take, Respond, Answer
<1>9. ASSUME NEW g \in Gates, NEW v \in Verdicts, RespondToHumanTask(g, v) PROVE TypeOK'
  BY <1>9 DEF RespondToHumanTask, Respond, Answer, HumanActs
<1> QED
  BY <1>1, <1>2, <1>3, <1>4, <1>5, <1>6, <1>7, <1>8, <1>9 DEF GateStep

LEMMA TypeStep == TypeOK /\ [Next]_vars => TypeOK'
<1> SUFFICES ASSUME TypeOK, [Next]_vars PROVE TypeOK'
  OBVIOUS
<1>1. CASE RestartEngine
  BY <1>1 DEF RestartEngine, TypeOK, ApprovalTypeOK, Tasks, Nodes, Ended
<1>2. CASE UNCHANGED vars
  BY <1>2 DEF vars, supervision, TypeOK, ApprovalTypeOK
<1> QED
  BY <1>1, <1>2, SupervisionTyped, GateTyped DEF Next

ActsInv == EventsHaveActs /\ TasksHaveActs /\ VerdictHasAct

\* What a step of module 09 may do to the history and to the events: acts are
\* never forgotten, and a new event comes with its act.
LEMMA SupervisionActs ==
  ASSUME TypeOK, SupervisionStep
  PROVE  /\ \A g \in Gates : acts[g] \subseteq acts'[g]
         /\ \A g \in Gates, v \in Verdicts :
              <<g, v>> \in outbox' \cup topic' =>
                <<g, v>> \in outbox \cup topic \/ v \in acts'[g]
<1> DEFINE Goal == /\ \A g \in Gates : acts[g] \subseteq acts'[g]
                   /\ \A g \in Gates, v \in Verdicts :
                        <<g, v>> \in outbox' \cup topic' =>
                          <<g, v>> \in outbox \cup topic \/ v \in acts'[g]
<1>1. ASSUME NEW g \in Gates, CreateApproval(g) PROVE Goal
  BY <1>1 DEF CreateApproval, Verdicts
<1>2. ASSUME NEW g \in Gates, Delegate(g) \/ Expire(g) \/ Delete(g) PROVE Goal
  BY <1>2 DEF Delegate, Expire, Delete
<1>3. ASSUME NEW g \in Gates, NEW v \in Verdicts, Decide(g, v), topic' = topic PROVE Goal
  <2>1. acts' = [acts EXCEPT ![g] = @ \cup {v}] /\ acts \in [Gates -> SUBSET HumanActs]
    BY <1>3 DEF Decide, TypeOK, ApprovalTypeOK
  <2>2. v \in acts'[g] /\ \A h \in Gates : acts[h] \subseteq acts'[h]
    BY <2>1
  <2> QED
    BY <1>3, <2>2 DEF Decide
<1>4. ASSUME NEW g \in Gates, NEW v \in Verdicts, Act(g, v) \/ RecordAnswer(g, v) \/ ApplyAnswer(g, v)
      PROVE Goal
  <2>1. CASE Act(g, v)
    BY <1>3, <2>1 DEF Act
  <2>2. CASE RecordAnswer(g, v)
    BY <2>2 DEF RecordAnswer
  <2>3. CASE ApplyAnswer(g, v)
    <3>1. CASE Open(g)
      BY <1>3, <2>3, <3>1 DEF ApplyAnswer
    <3>2. CASE ~Open(g)
      BY <2>3, <3>2 DEF ApplyAnswer
    <3> QED BY <3>1, <3>2
  <2> QED BY <1>4, <2>1, <2>2, <2>3
<1>5. ASSUME SaveApprovals \/ SaveAnswers \/ RestartSupervision PROVE Goal
  BY <1>5 DEF SaveApprovals, SaveAnswers, RestartSupervision
<1> HIDE DEF Goal
<1>6. Goal
  BY <1>1, <1>2, <1>4, <1>5 DEF SupervisionStep
<1> QED BY <1>6 DEF Goal

\* Answering a task records the act that its new status stands for.
LEMMA GateActs ==
  ASSUME TypeOK, EventsHaveActs, TasksHaveActs, GateStep
  PROVE  EventsHaveActs' /\ TasksHaveActs'
<1> USE DEF EventsHaveActs, TasksHaveActs
<1>0. acts \in [Gates -> SUBSET HumanActs] /\ task \in [Gates -> Tasks]
  BY DEF TypeOK, ApprovalTypeOK
<1>1. ASSUME NEW g \in Gates, LaunchGate(g) \/ CreateHumanTask(g)
      PROVE  EventsHaveActs' /\ TasksHaveActs'
  BY <1>0, <1>1 DEF LaunchGate, CreateHumanTask
<1>2. ASSUME NEW g \in Gates, RaiseFails(g) \/ Poll(g) \/ TimeOut(g) \/ StopRun(g)
      PROVE  EventsHaveActs' /\ TasksHaveActs'
  BY <1>2 DEF RaiseFails, Poll, TimeOut, StopRun, supervision
<1>3. ASSUME NEW g \in Gates, PublishRaised(g)
      PROVE  EventsHaveActs' /\ TasksHaveActs'
  BY <1>3 DEF PublishRaised, Publish, Verdicts
<1>4. ASSUME NEW g \in Gates, ConsumeRaised(g)
      PROVE  EventsHaveActs' /\ TasksHaveActs'
  BY <1>4 DEF ConsumeRaised, Take
<1>5. ASSUME NEW g \in Gates, CancelHumanTask(g)
      PROVE  EventsHaveActs' /\ TasksHaveActs'
  <2>1. "cancel" \in acts'[g] /\ \A h \in Gates : acts[h] \subseteq acts'[h]
    BY <1>0, <1>5 DEF CancelHumanTask
  <2>2. task' = [task EXCEPT ![g] = "approved"]
    BY <1>5 DEF CancelHumanTask, Respond, Answer
  <2> QED
    BY <1>0, <1>5, <2>1, <2>2 DEF CancelHumanTask, Positive
<1>6. ASSUME NEW g \in Gates, NEW v \in Verdicts, PublishResponse(g, v)
      PROVE  EventsHaveActs' /\ TasksHaveActs'
  BY <1>6 DEF PublishResponse, Publish
<1>7. ASSUME NEW g \in Gates, NEW v \in Verdicts, ConsumeResponse(g, v)
      PROVE  EventsHaveActs' /\ TasksHaveActs'
  <2>1. EventsHaveActs' /\ v \in acts[g] /\ acts' = acts
    BY <1>7 DEF ConsumeResponse, Take
  <2>2. \/ task' = task
        \/ task' = [task EXCEPT ![g] = IF v = "reject" THEN "rejected" ELSE "approved"]
    BY <1>7 DEF ConsumeResponse, Respond, Answer
  <2> QED
    BY <1>0, <2>1, <2>2 DEF Verdicts, Positive, Negative
<1>8. ASSUME NEW g \in Gates, NEW v \in Verdicts, RespondToHumanTask(g, v)
      PROVE  EventsHaveActs' /\ TasksHaveActs'
  <2> DEFINE act == IF v = "approve" THEN "respond approve" ELSE "respond reject"
  <2>1. act \in acts'[g] /\ \A h \in Gates : acts[h] \subseteq acts'[h]
    BY <1>0, <1>8 DEF RespondToHumanTask
  <2>2. task' = [task EXCEPT ![g] = IF v = "reject" THEN "rejected" ELSE "approved"]
    BY <1>8 DEF RespondToHumanTask, Respond, Answer
  <2> QED
    BY <1>0, <1>8, <2>1, <2>2 DEF RespondToHumanTask, Verdicts, Positive, Negative
<1> QED
  BY <1>1, <1>2, <1>3, <1>4, <1>5, <1>6, <1>7, <1>8 DEF GateStep

\* A gate node's verdict is the one its task already had.
LEMMA NodesFollowTasks ==
  ASSUME TypeOK, GateStep, NEW g \in Gates
  PROVE  /\ node'[g] = "passed"  => node[g] = "passed"  \/ task[g] = "approved"
         /\ node'[g] = "refused" => node[g] = "refused" \/ task[g] = "rejected"
         /\ acts[g] \subseteq acts'[g]
<1>0. acts \in [Gates -> SUBSET HumanActs] /\ node \in [Gates -> Nodes]
  BY DEF TypeOK, ApprovalTypeOK
<1> DEFINE Goal == /\ node'[g] = "passed"  => node[g] = "passed"  \/ task[g] = "approved"
                   /\ node'[g] = "refused" => node[g] = "refused" \/ task[g] = "rejected"
                   /\ acts[g] \subseteq acts'[g]
<1>1. ASSUME NEW h \in Gates, LaunchGate(h) \/ RaiseFails(h) \/ CreateHumanTask(h) PROVE Goal
  BY <1>0, <1>1 DEF LaunchGate, RaiseFails, CreateHumanTask
<1>2. ASSUME NEW h \in Gates, Poll(h) \/ TimeOut(h) \/ StopRun(h) PROVE Goal
  BY <1>0, <1>2 DEF Poll, TimeOut, StopRun, supervision
<1>3. ASSUME NEW h \in Gates, PublishRaised(h) \/ ConsumeRaised(h) PROVE Goal
  BY <1>0, <1>3 DEF PublishRaised, Publish, ConsumeRaised, Take
<1>4. ASSUME NEW h \in Gates, CancelHumanTask(h) PROVE Goal
  BY <1>0, <1>4 DEF CancelHumanTask
<1>5. ASSUME NEW h \in Gates, NEW v \in Verdicts, PublishResponse(h, v) \/ ConsumeResponse(h, v)
      PROVE Goal
  BY <1>5 DEF PublishResponse, Publish, ConsumeResponse, Take
<1>6. ASSUME NEW h \in Gates, NEW v \in Verdicts, RespondToHumanTask(h, v) PROVE Goal
  BY <1>0, <1>6 DEF RespondToHumanTask
<1> HIDE DEF Goal
<1>7. Goal
  BY <1>1, <1>2, <1>3, <1>4, <1>5, <1>6 DEF GateStep
<1> QED BY <1>7 DEF Goal

LEMMA ActsStep == TypeOK /\ ActsInv /\ [Next]_vars => ActsInv'
<1> SUFFICES ASSUME TypeOK, ActsInv, [Next]_vars PROVE ActsInv'
  OBVIOUS
<1> USE DEF ActsInv
<1>1. CASE SupervisionStep
  <2>1. task' = task /\ node' = node
    BY <1>1 DEF SupervisionStep
  <2> QED
    BY <1>1, <2>1, SupervisionActs DEF EventsHaveActs, TasksHaveActs, VerdictHasAct
<1>2. CASE GateStep
  <2>1. EventsHaveActs' /\ TasksHaveActs'
    BY <1>2, GateActs
  <2>2. VerdictHasAct'
    BY <1>2, NodesFollowTasks DEF VerdictHasAct, TasksHaveActs
  <2> QED BY <2>1, <2>2
<1>3. CASE RestartEngine
  BY <1>3 DEF RestartEngine, EventsHaveActs, TasksHaveActs, VerdictHasAct
<1>4. CASE UNCHANGED vars
  BY <1>4 DEF vars, supervision, EventsHaveActs, TasksHaveActs, VerdictHasAct
<1> QED
  BY <1>1, <1>2, <1>3, <1>4 DEF Next

LEMMA GateLeavesApprovals ==
  ASSUME GateStep
  PROVE  approval' = approval /\ savedApproval' = savedApproval /\ restarts' = restarts
<1> DEFINE Goal == approval' = approval /\ savedApproval' = savedApproval /\ restarts' = restarts
<1>1. ASSUME NEW g \in Gates,
             \/ LaunchGate(g) \/ RaiseFails(g) \/ CreateHumanTask(g) \/ CancelHumanTask(g)
             \/ Poll(g) \/ TimeOut(g) \/ StopRun(g)
      PROVE  Goal
  BY <1>1 DEF LaunchGate, RaiseFails, CreateHumanTask, CancelHumanTask, Poll, TimeOut,
              StopRun, supervision
<1>2. ASSUME NEW g \in Gates, PublishRaised(g) \/ ConsumeRaised(g) PROVE Goal
  BY <1>2 DEF PublishRaised, Publish, ConsumeRaised, Take
<1>3. ASSUME NEW g \in Gates, NEW v \in Verdicts,
             PublishResponse(g, v) \/ ConsumeResponse(g, v) \/ RespondToHumanTask(g, v)
      PROVE  Goal
  BY <1>3 DEF PublishResponse, Publish, ConsumeResponse, Take, RespondToHumanTask
<1> HIDE DEF Goal
<1>4. Goal BY <1>1, <1>2, <1>3 DEF GateStep
<1> QED BY <1>4 DEF Goal

-----------------------------------------------------------------------------
(* Thresholds. *)

LEMMA QuorumStep == TypeOK /\ Quorums /\ [Next]_vars => Quorums'
<1> SUFFICES ASSUME TypeOK, Quorums, [Next]_vars PROVE Quorums'
  OBVIOUS
<1> USE DEF Quorums
<1>0. approval \in [Gates -> Approval] /\ savedApproval \in [Gates -> Approval]
  BY DEF TypeOK, ApprovalTypeOK
<1>1. ASSUME NEW g \in Gates, NEW a, Quorate(g, a),
             approval' = [approval EXCEPT ![g] = a], savedApproval' = savedApproval
      PROVE  Quorums'
  BY <1>0, <1>1 DEF Quorate
<1>2. ASSUME UNCHANGED <<approval, savedApproval>> PROVE Quorums'
  BY <1>2 DEF Quorate
<1>3. ASSUME NEW g \in Gates, CreateApproval(g) PROVE Quorums'
  BY <1>1, <1>3, StatusQuorate DEF CreateApproval
<1>4. ASSUME NEW g \in Gates, Delegate(g) PROVE Quorums'
  <2>1. approval' = [approval EXCEPT ![g] = [approval[g] EXCEPT !.status = "delegated"]]
    BY <1>0, <1>4 DEF Delegate
  <2>2. Quorate(g, [approval[g] EXCEPT !.status = "delegated"])
    BY <1>4, StatusQuorate DEF Delegate
  <2> QED BY <1>1, <1>4, <2>1, <2>2 DEF Delegate
<1>5. ASSUME NEW g \in Gates, Expire(g) PROVE Quorums'
  <2>1. approval' = [approval EXCEPT ![g] = [approval[g] EXCEPT !.status = "expired"]]
    BY <1>0, <1>5 DEF Expire
  <2>2. Quorate(g, [approval[g] EXCEPT !.status = "expired"])
    BY <1>5, StatusQuorate DEF Expire
  <2> QED BY <1>1, <1>5, <2>1, <2>2 DEF Expire
<1>6. ASSUME NEW g \in Gates, Delete(g) PROVE Quorums'
  BY <1>1, <1>6, StatusQuorate DEF Delete
<1>7. ASSUME NEW g \in Gates, NEW v \in Verdicts, Open(g), Decide(g, v),
             savedApproval' = savedApproval
      PROVE  Quorums'
  BY <1>1, <1>7, DecisionsQuorate DEF Decide
<1>8. ASSUME NEW g \in Gates, NEW v \in Verdicts, Act(g, v) \/ RecordAnswer(g, v) \/ ApplyAnswer(g, v)
      PROVE  Quorums'
  <2>1. CASE Act(g, v)
    BY <1>7, <2>1 DEF Act
  <2>2. CASE RecordAnswer(g, v)
    BY <1>2, <2>2 DEF RecordAnswer
  <2>3. CASE ApplyAnswer(g, v)
    BY <1>2, <1>7, <2>3 DEF ApplyAnswer
  <2> QED BY <1>8, <2>1, <2>2, <2>3
<1>9. ASSUME SaveApprovals \/ SaveAnswers \/ RestartSupervision PROVE Quorums'
  <2>1. CASE SaveApprovals
    <3>1. \A g \in Gates : Quorate(g, [approval[g] EXCEPT !.config = FALSE])
      BY <1>0 DEF Quorate, Approval
    <3> QED BY <2>1, <3>1 DEF SaveApprovals
  <2>2. CASE SaveAnswers \/ RestartSupervision
    BY <2>2 DEF SaveAnswers, RestartSupervision
  <2> QED BY <1>9, <2>1, <2>2
<1>10. CASE SupervisionStep
  BY <1>3, <1>4, <1>5, <1>6, <1>8, <1>9, <1>10 DEF SupervisionStep
<1>11. CASE GateStep
  BY <1>2, <1>11, GateLeavesApprovals
<1>12. CASE RestartEngine \/ UNCHANGED vars
  BY <1>2, <1>12 DEF RestartEngine, vars, supervision
<1> QED
  BY <1>10, <1>11, <1>12 DEF Next

\* Only the launch of a gate node takes it out of idle, and creates its task.
LEMMA AskedStep == TypeOK /\ AskedOnce /\ [Next]_vars => AskedOnce'
<1> SUFFICES ASSUME TypeOK, AskedOnce, [Next]_vars PROVE AskedOnce'
  OBVIOUS
<1>0. task \in [Gates -> Tasks] /\ node \in [Gates -> Nodes]
  BY DEF TypeOK
<1> USE DEF AskedOnce
<1>1. ASSUME UNCHANGED <<task, node>> PROVE AskedOnce'
  BY <1>1
<1>2. ASSUME GateStep PROVE AskedOnce'
  <2>1. ASSUME NEW h \in Gates, LaunchGate(h) \/ CreateHumanTask(h) PROVE AskedOnce'
    BY <1>0, <2>1 DEF LaunchGate, CreateHumanTask
  <2>2. ASSUME NEW h \in Gates, RaiseFails(h) \/ Poll(h) \/ TimeOut(h) \/ StopRun(h)
        PROVE  AskedOnce'
    BY <1>0, <2>2 DEF RaiseFails, Poll, TimeOut, StopRun
  <2>3. ASSUME NEW h \in Gates, PublishRaised(h) \/ ConsumeRaised(h) PROVE AskedOnce'
    BY <1>0, <2>3 DEF PublishRaised, ConsumeRaised
  <2>4. ASSUME NEW h \in Gates, task[h] = "pending", NEW action, Respond(h, action),
               node' = node
        PROVE  AskedOnce'
    BY <1>0, <2>4 DEF Respond, Answer
  <2>5. ASSUME NEW h \in Gates, CancelHumanTask(h) PROVE AskedOnce'
    BY <2>4, <2>5 DEF CancelHumanTask
  <2>6. ASSUME NEW h \in Gates, NEW v \in Verdicts,
               PublishResponse(h, v) \/ ConsumeResponse(h, v) \/ RespondToHumanTask(h, v)
        PROVE  AskedOnce'
    <3>1. CASE PublishResponse(h, v)
      BY <1>1, <3>1 DEF PublishResponse
    <3>2. CASE ConsumeResponse(h, v)
      BY <1>1, <2>4, <3>2 DEF ConsumeResponse, Applies
    <3>3. CASE RespondToHumanTask(h, v)
      BY <2>4, <3>3 DEF RespondToHumanTask
    <3> QED BY <2>6, <3>1, <3>2, <3>3
  <2> QED
    BY <1>2, <2>1, <2>2, <2>3, <2>5, <2>6 DEF GateStep
<1>3. CASE RestartEngine
  BY <1>0, <1>3 DEF RestartEngine
<1> QED
  BY <1>1, <1>2, <1>3 DEF Next, SupervisionStep, vars

LEMMA PostedStep == TypeOK /\ PostedOnce /\ [Next]_vars => PostedOnce'
<1> SUFFICES ASSUME TypeOK, PostedOnce, [Next]_vars PROVE PostedOnce'
  OBVIOUS
<1>0. /\ approval \in [Gates -> Approval] /\ savedApproval \in [Gates -> Approval]
      /\ task \in [Gates -> Tasks] /\ node \in [Gates -> Nodes] /\ posted \subseteq Gates
  BY DEF TypeOK, ApprovalTypeOK
<1> USE DEF PostedOnce, Unraised
<1>1. ASSUME SupervisionStep PROVE PostedOnce'
  <2>0. task' = task /\ node' = node
    BY <1>1 DEF SupervisionStep
  \* a change to an approval that was there already
  <2>1. ASSUME NEW g \in Gates, approval[g].status # "none", NEW a,
               approval' = [approval EXCEPT ![g] = a],
               posted' = posted, savedApproval' = savedApproval
        PROVE  PostedOnce'
    BY <1>0, <2>0, <2>1
  <2>2. ASSUME UNCHANGED <<posted, approval, savedApproval>> PROVE PostedOnce'
    BY <2>0, <2>2
  <2>3. ASSUME NEW g \in Gates, CreateApproval(g) PROVE PostedOnce'
    BY <1>0, <2>0, <2>3 DEF CreateApproval
  <2>4. ASSUME NEW g \in Gates, Delegate(g) \/ Expire(g) PROVE PostedOnce'
    <3>1. PICK s \in {"delegated", "expired"} :
            approval' = [approval EXCEPT ![g] = [approval[g] EXCEPT !.status = s]]
      BY <1>0, <2>4 DEF Delegate, Expire
    <3> QED BY <2>1, <2>4, <3>1 DEF Delegate, Expire, Open, OpenApproval
  <2>5. ASSUME NEW g \in Gates, Delete(g) PROVE PostedOnce'
    BY <2>1, <2>5 DEF Delete
  <2>6. ASSUME NEW g \in Gates, NEW v \in Verdicts, Act(g, v) \/ RecordAnswer(g, v) \/ ApplyAnswer(g, v)
        PROVE  PostedOnce'
    <3>1. CASE Open(g) /\ Decide(g, v)
      BY <2>1, <2>6, <3>1 DEF Act, RecordAnswer, ApplyAnswer, Decide, Open, OpenApproval
    <3>2. CASE approval' = approval
      BY <2>2, <2>6, <3>2 DEF Act, RecordAnswer, ApplyAnswer
    <3> QED BY <2>6, <3>1, <3>2 DEF Act, RecordAnswer, ApplyAnswer
  <2>7. ASSUME SaveApprovals \/ SaveAnswers \/ RestartSupervision PROVE PostedOnce'
    <3>1. CASE SaveApprovals
      <4>1. \A g \in Gates : savedApproval'[g].status = approval[g].status
        BY <1>0, <3>1 DEF SaveApprovals, Approval
      <4> QED BY <2>0, <3>1, <4>1 DEF SaveApprovals
    <3>2. CASE SaveAnswers \/ RestartSupervision
      BY <2>0, <3>2 DEF SaveAnswers, RestartSupervision
    <3> QED BY <2>7, <3>1, <3>2
  <2> QED
    BY <1>1, <2>3, <2>4, <2>5, <2>6, <2>7 DEF SupervisionStep
<1>2. ASSUME GateStep PROVE PostedOnce'
  <2>0. approval' = approval /\ savedApproval' = savedApproval
    BY <1>2, GateLeavesApprovals
  <2>1. ASSUME NEW g \in Gates, LaunchGate(g) \/ CreateHumanTask(g) PROVE PostedOnce'
    BY <1>0, <2>0, <2>1 DEF LaunchGate, CreateHumanTask
  <2>2. ASSUME NEW g \in Gates, RaiseFails(g) \/ StopRun(g) \/ Poll(g) \/ TimeOut(g) PROVE PostedOnce'
    BY <1>0, <2>0, <2>2 DEF RaiseFails, StopRun, Poll, TimeOut, supervision
  <2>3. ASSUME NEW g \in Gates, PublishRaised(g) \/ ConsumeRaised(g) PROVE PostedOnce'
    BY <1>0, <2>0, <2>3 DEF PublishRaised, Publish, ConsumeRaised, Take
  <2>4. ASSUME NEW g \in Gates, task[g] = "pending", NEW action, Respond(g, action),
               posted' = posted, node' = node
        PROVE  PostedOnce'
    BY <1>0, <2>0, <2>4 DEF Respond, Answer
  <2>5. ASSUME NEW g \in Gates, CancelHumanTask(g) PROVE PostedOnce'
    BY <2>4, <2>5 DEF CancelHumanTask
  <2>6. ASSUME NEW g \in Gates, NEW v \in Verdicts,
               PublishResponse(g, v) \/ ConsumeResponse(g, v) \/ RespondToHumanTask(g, v)
        PROVE  PostedOnce'
    <3>1. CASE PublishResponse(g, v)
      BY <2>0, <3>1 DEF PublishResponse, Publish
    <3>2. CASE ConsumeResponse(g, v)
      BY <2>0, <2>4, <3>2 DEF ConsumeResponse, Take, Applies
    <3>3. CASE RespondToHumanTask(g, v)
      BY <2>4, <3>3 DEF RespondToHumanTask
    <3> QED BY <2>6, <3>1, <3>2, <3>3
  <2> QED
    BY <1>2, <2>1, <2>2, <2>3, <2>5, <2>6 DEF GateStep
<1>3. CASE RestartEngine
  BY <1>0, <1>3 DEF RestartEngine
<1>4. CASE UNCHANGED vars
  BY <1>4 DEF vars, supervision
<1> QED
  BY <1>1, <1>2, <1>3, <1>4 DEF Next

-----------------------------------------------------------------------------
(* The task of a gate node is decided as its approval is. *)

Told == EventsTell /\ DecisionsAgree

LEMMA ToldStep == TypeOK /\ PostedOnce /\ Told /\ [Next]_vars => Told'
<1> SUFFICES ASSUME TypeOK, PostedOnce, Told, [Next]_vars PROVE Told'
  OBVIOUS
<1>0. /\ approval \in [Gates -> Approval] /\ task \in [Gates -> Tasks]
      /\ acts \in [Gates -> SUBSET HumanActs] /\ posted \subseteq Gates
      /\ restarts \in [{"M03", "M09"} -> Nat] /\ NodeGates \subseteq Gates
  BY GateAssumption DEF TypeOK, ApprovalTypeOK
<1> USE DEF Told, EventsTell, DecisionsAgree, ThroughApproval, Agree
<1>1. ASSUME SupervisionStep PROVE Told'
  <2>0. task' = task
    BY <1>1 DEF SupervisionStep
  <2>1. ASSUME UNCHANGED <<approval, outbox, topic, acts, restarts>> PROVE Told'
    BY <2>0, <2>1
  \* an open approval has no decision on its way, and decides no task
  <2>2. ASSUME NEW g \in Gates, Open(g), NEW a, approval' = [approval EXCEPT ![g] = a],
               UNCHANGED <<outbox, topic, acts, restarts>>
        PROVE  Told'
    BY <1>0, <2>0, <2>2 DEF Open, OpenApproval
  <2>3. ASSUME NEW g \in Gates, CreateApproval(g) PROVE Told'
    <3>1. approval[g].status = "none"
      BY <2>3 DEF CreateApproval, PostedOnce
    <3> QED
      BY <1>0, <2>0, <2>3, <3>1 DEF CreateApproval
  <2>4. ASSUME NEW g \in Gates, Delegate(g) \/ Expire(g) PROVE Told'
    <3>1. PICK s \in {"delegated", "expired"} :
            approval' = [approval EXCEPT ![g] = [approval[g] EXCEPT !.status = s]]
      BY <1>0, <2>4 DEF Delegate, Expire
    <3> QED BY <2>2, <2>4, <3>1 DEF Delegate, Expire
  <2>5. ASSUME NEW g \in Gates, Delete(g) PROVE Told'
    <3>1. /\ approval'[g].status = "deleted"
          /\ \A h \in Gates \ {g} : approval'[h] = approval[h]
      BY <1>0, <2>5 DEF Delete, NoApproval
    <3> QED BY <1>0, <2>0, <2>5, <3>1 DEF Delete
  <2>6. ASSUME NEW g \in Gates, NEW v \in Verdicts, Open(g), Decide(g, v),
               UNCHANGED <<topic, restarts>>
        PROVE  Told'
    <3>1. \A h \in Gates : acts[h] \subseteq acts'[h]
      BY <1>0, <2>6 DEF Decide
    <3>2. \A h \in Gates \ {g} : approval'[h] = approval[h]
      BY <1>0, <2>6 DEF Decide
    <3>3. g \in NodeGates => approval'[g].status = IF v = "approve" THEN "approved" ELSE "rejected"
      <4> SUFFICES ASSUME g \in NodeGates
                   PROVE  approval'[g].status = IF v = "approve" THEN "approved" ELSE "rejected"
        OBVIOUS
      <4>1. approval[g] \in Approval /\ MinApprovals[g] = 1 /\ MaxRejections[g] = 0
        BY <1>0, GateAssumption
      <4>2. Needed(g) = 1 /\ Allowed(g) = 0
        BY <4>1, Thresholds
      <4>3. Granted(g).status = "approved" /\ Refused(g).status = "rejected"
        BY <4>1, <4>2 DEF Granted, Refused, Approval
      <4> QED BY <1>0, <2>6, <4>3 DEF Decide
    <3>4. EventsTell'
      BY <1>0, <2>6, <3>2, <3>3 DEF Decide, Verdicts, Open, OpenApproval
    <3>5. DecisionsAgree'
      BY <1>0, <2>0, <2>6, <3>1, <3>2 DEF Open, OpenApproval
    <3> QED BY <3>4, <3>5
  <2>7. ASSUME NEW g \in Gates, NEW v \in Verdicts, Act(g, v) \/ RecordAnswer(g, v) \/ ApplyAnswer(g, v)
        PROVE  Told'
    <3>1. CASE Open(g) /\ Decide(g, v)
      BY <2>6, <2>7, <3>1 DEF Act, RecordAnswer, ApplyAnswer
    <3>2. CASE UNCHANGED <<approval, acts, outbox>>
      BY <2>1, <2>7, <3>2 DEF Act, RecordAnswer, ApplyAnswer
    <3> QED BY <2>7, <3>1, <3>2 DEF Act, RecordAnswer, ApplyAnswer
  <2>8. ASSUME SaveApprovals \/ SaveAnswers PROVE Told'
    BY <2>1, <2>8 DEF SaveApprovals, SaveAnswers
  <2>9. ASSUME RestartSupervision PROVE Told'
    <3>1. restarts'["M09"] # 0
      BY <1>0, <2>9 DEF RestartSupervision
    <3> QED BY <3>1
  <2> QED
    BY <1>1, <2>3, <2>4, <2>5, <2>7, <2>8, <2>9 DEF SupervisionStep
<1>2. ASSUME GateStep PROVE Told'
  <2>0. approval' = approval /\ restarts' = restarts
    BY <1>2, GateLeavesApprovals
  <2>1. ASSUME outbox' \cup topic' \subseteq outbox \cup topic, task' = task, acts' = acts PROVE Told'
    BY <2>0, <2>1
  <2>2. ASSUME NEW g \in Gates, LaunchGate(g) \/ CreateHumanTask(g) PROVE Told'
    BY <1>0, <2>0, <2>2 DEF LaunchGate, CreateHumanTask
  <2>3. ASSUME NEW g \in Gates, RaiseFails(g) \/ StopRun(g) \/ Poll(g) \/ TimeOut(g) PROVE Told'
    BY <2>1, <2>3 DEF RaiseFails, StopRun, Poll, TimeOut, supervision
  <2>4. ASSUME NEW g \in Gates, PublishRaised(g) \/ ConsumeRaised(g) PROVE Told'
    BY <2>1, <2>4 DEF PublishRaised, Publish, ConsumeRaised, Take
  \* an answer given directly is on record
  <2>5. ASSUME NEW g \in Gates, NEW act \in HumanActs \ Verdicts, NEW action, Respond(g, action),
               acts' = [acts EXCEPT ![g] = @ \cup {act}], UNCHANGED <<outbox, topic>>
        PROVE  Told'
    <3>1. ~(acts'[g] \subseteq Verdicts)
      BY <1>0, <2>5
    <3> QED
      BY <1>0, <2>0, <2>5, <3>1 DEF Respond
  <2>6. ASSUME NEW g \in Gates, CancelHumanTask(g) PROVE Told'
    BY <2>5, <2>6 DEF CancelHumanTask, HumanActs, Verdicts
  <2>7. ASSUME NEW g \in Gates, NEW v \in Verdicts, PublishResponse(g, v) PROVE Told'
    BY <2>1, <2>7 DEF PublishResponse, Publish
  <2>8. ASSUME NEW g \in Gates, NEW v \in Verdicts, ConsumeResponse(g, v) PROVE Told'
    <3>1. /\ outbox' \cup topic' \subseteq outbox \cup topic /\ acts' = acts
          /\ <<g, v>> \in topic
      BY <2>8 DEF ConsumeResponse, Take
    <3>2. \/ task' = task
          \/ task' = [task EXCEPT ![g] = IF v = "reject" THEN "rejected" ELSE "approved"]
      BY <2>8 DEF ConsumeResponse, Respond, Answer
    <3> QED
      BY <1>0, <2>0, <3>1, <3>2 DEF Verdicts
  <2>9. ASSUME NEW g \in Gates, NEW v \in Verdicts, RespondToHumanTask(g, v) PROVE Told'
    <3> DEFINE act == IF v = "approve" THEN "respond approve" ELSE "respond reject"
    <3>1. act \in HumanActs \ Verdicts
      BY DEF HumanActs, Verdicts
    <3>2. /\ Respond(g, v) /\ acts' = [acts EXCEPT ![g] = @ \cup {act}]
          /\ UNCHANGED <<outbox, topic>>
      BY <2>9 DEF RespondToHumanTask
    <3> QED BY <2>5, <3>1, <3>2
  <2> HIDE DEF Told
  <2> QED
    BY <1>2, <2>2, <2>3, <2>4, <2>6, <2>7, <2>8, <2>9 DEF GateStep
<1>3. CASE RestartEngine
  BY <1>0, <1>3 DEF RestartEngine
<1>4. CASE UNCHANGED vars
  BY <1>4 DEF vars, supervision
<1> QED
  BY <1>1, <1>2, <1>3, <1>4 DEF Next

-----------------------------------------------------------------------------
(* The theorems. *)

\* The inductive invariant: types, the acts behind every event, task and
\* verdict, the thresholds, one task and one post per gate, and events that tell how
\* their approval stands.
THEOREM GateInvariant == Spec => []GateInv
<1>1. Init => GateInv
  <2> SUFFICES ASSUME Init PROVE GateInv
    OBVIOUS
  <2>1. TypeOK
    BY TypeInit
  <2>2. ActsInv
    BY DEF Init, ApprovalInit, ActsInv, EventsHaveActs, TasksHaveActs, VerdictHasAct
  <2>3. Quorums
    BY <2>1, StatusQuorate DEF Init, ApprovalInit, Quorums
  <2>4. AskedOnce /\ PostedOnce /\ Told
    BY GateAssumption DEF Init, ApprovalInit, AskedOnce, PostedOnce, Told, EventsTell, DecisionsAgree,
                          ThroughApproval, Agree, NoApproval
  <2> QED BY <2>1, <2>2, <2>3, <2>4 DEF GateInv, ActsInv, Told
<1>2. GateInv /\ [Next]_vars => GateInv'
  BY TypeStep, ActsStep, QuorumStep, AskedStep, PostedStep, ToldStep DEF GateInv, ActsInv, Told
<1> QED
  BY <1>1, <1>2, PTL DEF Spec

\* Every variable keeps its type (approvals.go, gates.go, node_handler.go).
THEOREM GateTypeCorrect == Spec => []TypeOK
<1>1. GateInv => TypeOK
  BY DEF GateInv
<1> QED BY GateInvariant, <1>1, PTL

\* A gate node neither proceeds nor is refused without a human act of that
\* kind on its gate (node_handler.go polls, gates.go applies).
THEOREM VerdictAlwaysHasAct == Spec => []VerdictHasAct
<1>1. GateInv => VerdictHasAct
  BY DEF GateInv
<1> QED BY GateInvariant, <1>1, PTL

\* Whatever the thresholds, an approval is decided exactly when one of them is
\* reached, and takes no act after that (approvals.go).
THEOREM QuorumAlwaysDecides == Spec => []QuorumDecides
<1>1. GateInv => QuorumDecides
  BY DEF GateInv, Quorums, Quorate, QuorumDecides
<1> QED BY GateInvariant, <1>1, PTL

\* A gate node's task is decided as its approval is, as long as nobody answers
\* the task directly and module 09 is not restored from an older snapshot.
THEOREM DecisionsAlwaysAgree == Spec => []DecisionsAgree
<1>1. GateInv => DecisionsAgree
  BY DEF GateInv
<1> QED BY GateInvariant, <1>1, PTL
-----------------------------------------------------------------------------
(* Refinement: what each step is to one gate. *)

\* A step that leaves a gate's acts, task and fate alone is no step of it.
LEMMA Untouched ==
  ASSUME NEW g \in Gates, acts'[g] = acts[g], task'[g] = task[g], FateOf(g)' = FateOf(g)
  PROVE  [GC(g)!Next]_(GC(g)!view)
BY DEF GC!view

\* The start and the end of a gate's node.
LEMMA NodeStepRefines ==
  ASSUME TypeOK, AskedOnce, NEW g \in Gates, NEW h \in Gates,
         \/ LaunchGate(h) \/ CreateHumanTask(h) \/ Poll(h)
         \/ RaiseFails(h) \/ TimeOut(h) \/ StopRun(h) \/ PublishRaised(h)
  PROVE  [GC(g)!Next]_(GC(g)!view)
<1>0. task \in [Gates -> Tasks] /\ node \in [Gates -> Nodes]
  BY DEF TypeOK
<1> USE DEF FateOf
<1>1. acts' = acts
  BY DEF LaunchGate, CreateHumanTask, Poll, RaiseFails, TimeOut, StopRun, PublishRaised,
         Publish, supervision
<1>2. CASE LaunchGate(h)
  <2>1. task[h] = "none"
    BY <1>2 DEF LaunchGate, AskedOnce
  <2>2. CASE g = h
    <3>1. /\ FateOf(g) = "none" /\ FateOf(g)' = "open"
          /\ task[g] = "none" /\ task'[g] = "pending"
      BY <1>0, <1>2, <2>1, <2>2 DEF LaunchGate
    <3> QED BY <1>1, <3>1 DEF GC!Ask, GC!Next
  <2>3. CASE g # h
    BY <1>0, <1>1, <1>2, <2>3, Untouched DEF LaunchGate
  <2> QED BY <2>2, <2>3
<1>3. CASE CreateHumanTask(h)
  <2>1. node[h] = "idle" /\ node' = node
    BY <1>3 DEF CreateHumanTask, AskedOnce
  <2>2. CASE g = h
    <3>1. /\ FateOf(g) = "none" /\ FateOf(g)' = "none"
          /\ task[g] = "none" /\ task'[g] = "pending"
      BY <1>0, <1>3, <2>1, <2>2 DEF CreateHumanTask
    <3> QED BY <1>1, <3>1 DEF GC!Ask, GC!Next
  <2>3. CASE g # h
    BY <1>0, <1>1, <1>3, <2>1, <2>3, Untouched DEF CreateHumanTask
  <2> QED BY <2>2, <2>3
<1>4. CASE Poll(h)
  <2>1. CASE g = h
    <3>1. /\ FateOf(g) = "open" /\ task'[g] = task[g]
          /\ \/ task[g] = "approved" /\ FateOf(g)' = "passed"
             \/ task[g] = "rejected" /\ FateOf(g)' = "refused"
      BY <1>0, <1>4, <2>1 DEF Poll
    <3> QED BY <1>1, <3>1 DEF GC!Finish, GC!Next
  <2>2. CASE g # h
    BY <1>0, <1>1, <1>4, <2>2, Untouched DEF Poll
  <2> QED BY <2>1, <2>2
<1>5. CASE RaiseFails(h) \/ TimeOut(h) \/ StopRun(h)
  <2>1. CASE g = h
    <3>1. FateOf(g) = "open" /\ FateOf(g)' = "failed" /\ task'[g] = task[g]
      BY <1>0, <1>5, <2>1 DEF RaiseFails, TimeOut, StopRun
    <3> QED BY <1>1, <3>1 DEF GC!GiveUp, GC!Next
  <2>2. CASE g # h
    BY <1>0, <1>1, <1>5, <2>2, Untouched DEF RaiseFails, TimeOut, StopRun
  <2> QED BY <2>1, <2>2
<1>6. CASE PublishRaised(h)
  <2>1. FateOf(g)' = FateOf(g) /\ task' = task
    BY <1>0, <1>6 DEF PublishRaised
  <2> QED BY <1>1, <2>1, Untouched
<1> QED
  BY <1>2, <1>3, <1>4, <1>5, <1>6

\* A task answered while it is pending, and as somebody said, is a decision.
LEMMA AnswerRefines ==
  ASSUME TypeOK, NEW g \in Gates, NEW h \in Gates, NEW status \in {"approved", "rejected"},
         task[h] = "pending", task' = [task EXCEPT ![h] = status], node' = node,
         \A k \in Gates : acts[k] \subseteq acts'[k],
         \A k \in Gates \ {h} : acts'[k] = acts[k],
         acts'[h] \cap (IF status = "approved" THEN Positive ELSE Negative) # {}
  PROVE  [GC(g)!Next]_(GC(g)!view)
<1>0. task \in [Gates -> Tasks]
  BY DEF TypeOK
<1>1. FateOf(g)' = FateOf(g)
  BY DEF FateOf
<1>2. CASE g = h
  <2>1. task[g] = "pending" /\ task'[g] = status /\ acts[g] \subseteq acts'[g]
    BY <1>0, <1>2
  <2>2. \/ status = "approved" /\ acts'[g] \cap Positive # {}
        \/ status = "rejected" /\ acts'[g] \cap Negative # {}
    BY <1>2
  <2> QED BY <1>1, <2>1, <2>2 DEF GC!Decide, GC!Next
<1>3. CASE g # h
  BY <1>0, <1>1, <1>3, Untouched
<1> QED BY <1>2, <1>3

\* Who answers a task: its approval's event, the route that answers it, and
\* the route that cancels it.
LEMMA TaskStepRefines ==
  ASSUME TypeOK, EventsHaveActs, NEW g \in Gates, NEW h \in Gates, NEW v \in Verdicts,
         \/ CancelHumanTask(h) \/ RespondToHumanTask(h, v) \/ ConsumeRaised(h)
         \/ PublishResponse(h, v) \/ ConsumeResponse(h, v)
  PROVE  [GC(g)!Next]_(GC(g)!view)
<1>0. acts \in [Gates -> SUBSET HumanActs]
  BY DEF TypeOK, ApprovalTypeOK
<1>1. ASSUME NEW act, acts' = [acts EXCEPT ![h] = @ \cup {act}]
      PROVE  /\ act \in acts'[h]
             /\ \A k \in Gates : acts[k] \subseteq acts'[k]
             /\ \A k \in Gates \ {h} : acts'[k] = acts[k]
  BY <1>0, <1>1
<1>2. CASE CancelHumanTask(h)
  <2>1. /\ task[h] = "pending" /\ task' = [task EXCEPT ![h] = "approved"] /\ node' = node
        /\ acts' = [acts EXCEPT ![h] = @ \cup {"cancel"}]
    BY <1>2 DEF CancelHumanTask, Respond, Answer
  <2>2. acts'[h] \cap Positive # {}
    BY <1>1, <2>1 DEF Positive
  <2> QED BY <1>1, <2>1, <2>2, AnswerRefines
<1>3. CASE RespondToHumanTask(h, v)
  <2> DEFINE status == IF v = "reject" THEN "rejected" ELSE "approved"
             act == IF v = "approve" THEN "respond approve" ELSE "respond reject"
  <2>1. /\ task[h] = "pending" /\ task' = [task EXCEPT ![h] = status] /\ node' = node
        /\ acts' = [acts EXCEPT ![h] = @ \cup {act}]
    BY <1>3 DEF RespondToHumanTask, Respond, Answer
  <2>2. acts'[h] \cap (IF status = "approved" THEN Positive ELSE Negative) # {}
    BY <1>1, <2>1 DEF Positive, Negative, Verdicts
  <2>3. status \in {"approved", "rejected"}
    OBVIOUS
  <2> HIDE DEF status, act
  <2> QED BY <1>1, <2>1, <2>2, <2>3, AnswerRefines
<1>4. CASE ConsumeResponse(h, v)
  <2> DEFINE status == IF v = "reject" THEN "rejected" ELSE "approved"
  <2>1. acts' = acts /\ node' = node /\ v \in acts[h]
    BY <1>4 DEF ConsumeResponse, Take, EventsHaveActs
  <2>2. CASE Applies(h)
    <3>1. task[h] = "pending" /\ task' = [task EXCEPT ![h] = status]
      BY <1>4, <2>2 DEF ConsumeResponse, Applies, Respond, Answer
    <3>2. acts'[h] \cap (IF status = "approved" THEN Positive ELSE Negative) # {}
      BY <2>1 DEF Positive, Negative, Verdicts
    <3>3. status \in {"approved", "rejected"}
      OBVIOUS
    <3> HIDE DEF status
    <3> QED BY <2>1, <3>1, <3>2, <3>3, AnswerRefines
  <2>3. CASE ~Applies(h)
    BY <1>4, <2>1, <2>3, Untouched DEF ConsumeResponse, FateOf
  <2> QED BY <2>2, <2>3
<1>5. CASE ConsumeRaised(h) \/ PublishResponse(h, v)
  <2>1. acts' = acts /\ task' = task /\ node' = node
    BY <1>5 DEF ConsumeRaised, Take, PublishResponse, Publish
  <2> QED BY <2>1, Untouched DEF FateOf
<1> QED BY <1>2, <1>3, <1>4, <1>5

\* A restart of the engine forgets every gate that was asked.
LEMMA RestartRefines ==
  ASSUME TypeOK, AskedOnce, NEW g \in Gates, RestartEngine
  PROVE  [GC(g)!Next]_(GC(g)!view)
<1>0. node \in [Gates -> Nodes] /\ acts' = acts
  BY DEF TypeOK, RestartEngine
<1>1. /\ task'[g] = IF task[g] = "none" THEN "none" ELSE "lost"
      /\ node'[g] = IF node[g] \in {"raising", "waiting"} THEN "failed" ELSE node[g]
  BY DEF RestartEngine
<1>2. CASE task[g] = "none"
  BY <1>0, <1>1, <1>2, Untouched DEF AskedOnce, FateOf
<1>3. CASE task[g] # "none"
  <2>1. FateOf(g)' = IF FateOf(g) = "open" THEN "failed" ELSE FateOf(g)
    BY <1>0, <1>1 DEF FateOf, Nodes, Ended
  <2> QED
    BY <1>0, <1>1, <1>3, <2>1 DEF GC!Lose, GC!Next
<1> QED BY <1>2, <1>3

\* Each gate implements GateContract: decided at most once, as somebody said,
\* whatever is redelivered, restored, answered or cancelled; and its node ends
\* once, as the gate was decided or as a failure (node_handler.go, gates.go,
\* the human task routes).
THEOREM GatesImplementContract == Spec => ImplementsGateContract
<1>1. Init => \A g \in Gates : GC(g)!Init
  BY DEF Init, ApprovalInit, FateOf, GC!Init
<1>2. ASSUME GateInv, [Next]_vars
      PROVE  \A g \in Gates : [GC(g)!Next]_(GC(g)!view)
  <2> SUFFICES ASSUME NEW g \in Gates PROVE [GC(g)!Next]_(GC(g)!view)
    OBVIOUS
  <2>0. TypeOK /\ AskedOnce /\ EventsHaveActs
    BY <1>2 DEF GateInv
  <2>1. CASE SupervisionStep
    <3>1. FateOf(g)' = FateOf(g) /\ task' = task
      BY <2>1 DEF SupervisionStep, FateOf
    <3>2. acts[g] \subseteq acts'[g]
      BY <2>0, <2>1, SupervisionActs
    <3> QED BY <3>1, <3>2 DEF GC!Say, GC!Next
  <2>2. CASE GateStep
    <3>1. PICK h \in Gates :
            \/ LaunchGate(h) \/ CreateHumanTask(h) \/ Poll(h)
            \/ RaiseFails(h) \/ TimeOut(h) \/ StopRun(h) \/ PublishRaised(h)
            \/ \E v \in Verdicts :
                 \/ CancelHumanTask(h) \/ RespondToHumanTask(h, v) \/ ConsumeRaised(h)
                 \/ PublishResponse(h, v) \/ ConsumeResponse(h, v)
      BY <2>2 DEF GateStep, Verdicts
    <3>2. ASSUME NEW v \in Verdicts,
                 \/ CancelHumanTask(h) \/ RespondToHumanTask(h, v) \/ ConsumeRaised(h)
                 \/ PublishResponse(h, v) \/ ConsumeResponse(h, v)
          PROVE  [GC(g)!Next]_(GC(g)!view)
      BY <2>0, <3>2, TaskStepRefines
    <3>3. CASE \/ LaunchGate(h) \/ CreateHumanTask(h) \/ Poll(h)
               \/ RaiseFails(h) \/ TimeOut(h) \/ StopRun(h) \/ PublishRaised(h)
      BY <2>0, <3>3, NodeStepRefines
    <3> QED BY <3>1, <3>2, <3>3
  <2>3. CASE RestartEngine
    BY <2>0, <2>3, RestartRefines
  <2>4. CASE UNCHANGED vars
    BY <2>4, Untouched DEF vars, supervision, FateOf
  <2> QED BY <1>2, <2>1, <2>2, <2>3, <2>4 DEF Next
<1>3. ASSUME GateInv, [Next]_vars
      PROVE  [\A g \in Gates : [GC(g)!Next]_(GC(g)!view)]_vars
  BY <1>2, <1>3
<1> QED
  BY <1>1, <1>3, GateInvariant, PTL DEF Spec, ImplementsGateContract
=============================================================================
