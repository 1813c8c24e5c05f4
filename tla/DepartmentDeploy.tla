-------------------------- MODULE DepartmentDeploy --------------------------
(***************************************************************************)
(* The deployment of one department (module 05): the orchestrator that     *)
(* provisions it stage by stage in the background, the administrators who  *)
(* edit it meanwhile, and the snapshots that survive the process.          *)
(*                                                                         *)
(* Departments are Go objects behind pointers, and a shallow copy shares   *)
(* the slices of its original: objects[1] is the one that the deploy       *)
(* handler made, which the store holds until the first Replace stores a    *)
(* deep copy, and which the orchestrator goes on working on.               *)
(***************************************************************************)
EXTENDS Naturals, Sequences, FiniteSets

CONSTANTS
  Seats,        \* positions of the org chart; the template has an agent for each
  SOPs,         \* number of workflows of the template
  Integrates,   \* the template has integrations
  HasMemory,    \* the memory client is configured
  Admins,       \* administrators, one edit each at a time
  Edits,        \* what they do, of "holder", "sync", "patch" and "archive"
  MaxEdits,     \* bound on their edits
  MaxRestarts   \* bound on the restarts of the process

ASSUME DeployAssumption ==
  /\ IsFiniteSet(Seats)
  /\ SOPs \in Nat /\ MaxEdits \in Nat /\ MaxRestarts \in Nat
  /\ Integrates \in BOOLEAN /\ HasMemory \in BOOLEAN
  /\ Edits \subseteq {"holder", "sync", "patch", "archive"}

VARIABLES
  objects,     \* department objects in the order of their creation
  stored,      \* the object that the store holds
  deployment,  \* status, and what it says of every stage
  run,         \* the orchestrator: stage, part, agents tried, whether one failed
  registered,  \* seats whose agent module 04 has registered
  compiled,    \* workflows that module 03 has created
  edit,        \* administrator -> what a request has read and is about to do
  edits,       \* number of edits begun
  saved,       \* the snapshot files of deployments and departments
  restarts     \* number of restarts

vars == <<objects, stored, deployment, run, registered, compiled, edit, edits,
          saved, restarts>>

\* Names of the stages in their order; deploy_workflows is left out if the
\* template has none.
Stages ==
  IF SOPs > 0
  THEN <<"configure", "connect_data", "provision_memory", "deploy_swarm", "deploy_workflows">>
  ELSE <<"configure", "connect_data", "provision_memory", "deploy_swarm">>

Ended == {"operational", "failed"}

Seat == [holder : {"ai_agent", "human", "vacant"}, agent : BOOLEAN]
\* "patched" is whatever word an administrator wrote over the status.
DepartmentStatus == {"provisioning", "operational", "degraded", "archived", "patched"}
Department ==
  [status : DepartmentStatus,
   seats : [Seats -> Seat], agents : SUBSET Seats, workflows : 0 .. SOPs,
   memory : BOOLEAN, services : {"old", "template"}]
Deployment ==
  [status : {"select"} \cup {Stages[i] : i \in 1 .. Len(Stages)} \cup Ended,
   stage : [1 .. Len(Stages) -> {"none", "running", "completed", "failed"}]]

NoEdit == [kind |-> "none"]

\* The template may have got better services since the department was made.
Init ==
  LET made == [status |-> "provisioning",
               seats |-> [s \in Seats |-> [holder |-> "ai_agent", agent |-> FALSE]],
               agents |-> {}, workflows |-> 0, memory |-> FALSE, services |-> "old"]
  IN /\ objects = <<made>> /\ stored = 1
     /\ deployment = [status |-> "select", stage |-> [i \in 1 .. Len(Stages) |-> "none"]]
     /\ run = [stage |-> 1, part |-> "begin", tried |-> {}, err |-> FALSE]
     /\ registered = {} /\ compiled = 0
     /\ edit = [a \in Admins |-> NoEdit] /\ edits = 0
     /\ saved = [deployment |-> deployment, department |-> made]
     /\ restarts = 0

-----------------------------------------------------------------------------
(* The stores. *)

\* Replace stores a deep copy.
Replaced(heap, department) ==
  /\ objects' = Append(heap, department)
  /\ stored' = Len(heap) + 1

\* Faulty: the status goes to the orchestrator's own object.
FaultyUpdateStatus(status) ==
  /\ objects' = [objects EXCEPT ![1].status = status]
  /\ UNCHANGED stored

UpdateStatus(status) ==
  /\ objects' = [objects EXCEPT ![stored].status = status]
  /\ UNCHANGED stored

Record(stage, status) ==
  deployment' = [deployment EXCEPT !.stage[stage] = status]

-----------------------------------------------------------------------------
(* The orchestrator. *)

Own == objects[1]
At(stage, part) == run.part = part /\ run.stage <= Len(Stages) /\ Stages[run.stage] = stage
UnchangedOutside == UNCHANGED <<edit, edits, saved, restarts>>
UnchangedWorld == UNCHANGED <<registered, compiled>> /\ UnchangedOutside

Goes(part) == run' = [run EXCEPT !.part = part]

\* beginStage: the record of the stage first, then the status.
Begin ==
  /\ run.part = "begin" /\ run.stage <= Len(Stages)
  /\ Record(run.stage, "running")
  /\ Goes("enter")
  /\ UNCHANGED <<objects, stored>> /\ UnchangedWorld

Enter ==
  /\ run.part = "enter"
  /\ deployment' = [deployment EXCEPT !.status = Stages[run.stage]]
  /\ Goes("work")
  /\ UNCHANGED <<objects, stored>> /\ UnchangedWorld

\* completeStage, and on to the next stage.
CompleteStage ==
  /\ run.part = "complete"
  /\ Record(run.stage, "completed")
  /\ run' = [run EXCEPT !.stage = @ + 1, !.part = "begin"]
  /\ UNCHANGED <<objects, stored>> /\ UnchangedWorld

\* Faulty: the stage is left running.
FaultyFail ==
  /\ run.part = "fail" /\ UNCHANGED deployment
  /\ Goes("mark")
  /\ UNCHANGED <<objects, stored>> /\ UnchangedWorld

\* fail writes three times: the stage, the deployment and the department.
Fail ==
  /\ run.part = "fail"
  /\ Record(run.stage, "failed")
  /\ Goes("mark")
  /\ UNCHANGED <<objects, stored>> /\ UnchangedWorld

\* Faulty: the deployment is left in its stage.
FaultyMark ==
  /\ run.part = "mark" /\ UNCHANGED deployment
  /\ Goes("degrade")
  /\ UNCHANGED <<objects, stored>> /\ UnchangedWorld

Mark ==
  /\ run.part = "mark"
  /\ deployment' = [deployment EXCEPT !.status = "failed"]
  /\ Goes("degrade")
  /\ UNCHANGED <<objects, stored>> /\ UnchangedWorld

Degrade ==
  /\ run.part = "degrade"
  /\ UpdateStatus("degraded")
  /\ Goes("over")
  /\ UNCHANGED deployment /\ UnchangedWorld

\* The template is validated and the registry pinged.
Configure ==
  /\ At("configure", "work")
  /\ Goes("complete") \/ Goes("fail")
  /\ UNCHANGED <<objects, stored, deployment>> /\ UnchangedWorld

ConnectData ==
  /\ At("connect_data", "work")
  /\ IF Integrates THEN Replaced(objects, Own) ELSE UNCHANGED <<objects, stored>>
  /\ Goes("complete") /\ UNCHANGED deployment /\ UnchangedWorld

\* StoreVectors has answered.
ProvisionMemory ==
  /\ At("provision_memory", "work")
  /\ \/ /\ IF HasMemory
           THEN LET own == [Own EXCEPT !.memory = TRUE]
                IN Replaced([objects EXCEPT ![1] = own], own)
           ELSE UNCHANGED <<objects, stored>>
        /\ Goes("complete")
     \/ HasMemory /\ Goes("fail") /\ UNCHANGED <<objects, stored>>
  /\ UNCHANGED deployment /\ UnchangedWorld

\* CreateAgent may fail, after the registry has registered the agent too; the
\* next agent follows in any case.  Backfill looks at the agent's definition
\* only, not at who holds the seat.
RegisterAgent(s) ==
  /\ At("deploy_swarm", "work") /\ s \notin run.tried
  /\ \/ /\ registered' = registered \cup {s}
        /\ objects' = [objects EXCEPT ![1].agents = @ \cup {s},
                                      ![1].seats[s].agent = TRUE]
        /\ run' = [run EXCEPT !.tried = @ \cup {s}]
     \/ /\ registered' \in {registered, registered \cup {s}}
        /\ run' = [run EXCEPT !.tried = @ \cup {s}, !.err = TRUE]
        /\ UNCHANGED objects
  /\ UNCHANGED <<stored, deployment, compiled>> /\ UnchangedOutside

\* Faulty: an agent that failed is only logged.
FaultySwarmFailed == FALSE

SwarmFailed == run.err

\* Every agent was tried.
SwarmDone ==
  /\ At("deploy_swarm", "work") /\ run.tried = Seats
  /\ Replaced(objects, Own)
  /\ Goes(IF SwarmFailed THEN "fail" ELSE "complete")
  /\ UNCHANGED deployment /\ UnchangedWorld

\* Faulty: one too many.
FaultyMoreSOPs == Own.workflows <= SOPs

MoreSOPs == Own.workflows < SOPs

\* The first failure ends the stage, and what was created stays unlisted.
CompileWorkflow ==
  /\ At("deploy_workflows", "work") /\ MoreSOPs
  /\ \/ /\ compiled' = compiled + 1
        /\ objects' = [objects EXCEPT ![1].workflows = @ + 1]
        /\ UNCHANGED run
     \/ compiled' \in {compiled, compiled + 1} /\ Goes("fail") /\ UNCHANGED objects
  /\ UNCHANGED <<stored, deployment, registered>> /\ UnchangedOutside

\* Faulty: the workflows are not written to the store.
FaultyWorkflowsDone ==
  /\ At("deploy_workflows", "work") /\ ~MoreSOPs
  /\ UNCHANGED <<objects, stored>>
  /\ Goes("complete") /\ UNCHANGED deployment /\ UnchangedWorld

WorkflowsDone ==
  /\ At("deploy_workflows", "work") /\ ~MoreSOPs
  /\ Replaced(objects, Own)
  /\ Goes("complete") /\ UNCHANGED deployment /\ UnchangedWorld

\* The deployment first, then the department, whatever its status is.
OperationalDeployment ==
  /\ run.part = "begin" /\ run.stage = Len(Stages) + 1
  /\ deployment' = [deployment EXCEPT !.status = "operational"]
  /\ Goes("open")
  /\ UNCHANGED <<objects, stored>> /\ UnchangedWorld

OperationalDepartment ==
  /\ run.part = "open"
  /\ UpdateStatus("operational")
  /\ Goes("over")
  /\ UNCHANGED deployment /\ UnchangedWorld

Run ==
  \/ Begin \/ Enter \/ CompleteStage \/ Fail \/ Mark \/ Degrade
  \/ Configure \/ ConnectData
  \/ ProvisionMemory \/ (\E s \in Seats : RegisterAgent(s)) \/ SwarmDone
  \/ CompileWorkflow \/ WorkflowsDone \/ OperationalDeployment \/ OperationalDepartment

-----------------------------------------------------------------------------
(* Administrators.  HandleDepartmentByID reads a shallow copy first. *)

UnchangedRun == UNCHANGED <<deployment, run, registered, compiled, saved, restarts>>

\* of is the object whose slices the copy shares, read its own fields.
Read(a, kind) ==
  /\ edit[a] = NoEdit /\ edits < MaxEdits /\ kind \in Edits
  /\ edit' = [edit EXCEPT ![a] = [kind |-> kind, of |-> stored, read |-> objects[stored]]]
  /\ edits' = edits + 1
  /\ UNCHANGED <<objects, stored>> /\ UnchangedRun

\* The request has written into the slices of the object it read.
Wrote(a, kind) == edit' = [edit EXCEPT ![a].kind = kind]
Done(a) == edit' = [edit EXCEPT ![a] = NoEdit]

\* setPositionHolder, once the user is known to exist: the seat changes in the
\* slice that the copy shares, under no lock.
SetPositionHolder(a, s, seat) ==
  /\ edit[a].kind = "holder"
  /\ objects' = [objects EXCEPT ![edit[a].of].seats[s] = seat]
  /\ Wrote(a, "seated")
  /\ UNCHANGED <<stored, edits>> /\ UnchangedRun

\* The slice is then decoded into the stored org chart: what JSON leaves out of
\* a seat, an empty agent, stays as it was stored.
Decoded(old, new) == [holder |-> new.holder, agent |-> old.agent \/ new.agent]

UpdateOrgChart(a) ==
  /\ edit[a].kind = "seated"
  /\ objects' = [objects EXCEPT ![stored].seats =
       [s \in Seats |-> Decoded(@[s], objects[edit[a].of].seats[s])]]
  /\ Done(a)
  /\ UNCHANGED <<stored, edits>> /\ UnchangedRun

\* The copy as it is now: its slices are shared.
Copy(a) == [edit[a].read EXCEPT !.seats = objects[edit[a].of].seats]

\* The template's workflow references, if they differ, in the slice that the
\* copy shares.
SyncServiceWorkflows(a) ==
  /\ edit[a].kind = "sync"
  /\ objects' = [objects EXCEPT ![edit[a].of].services = "template"]
  /\ IF objects[edit[a].of].services = "old" THEN Wrote(a, "synced") ELSE Done(a)
  /\ UNCHANGED <<stored, edits>> /\ UnchangedRun

\* The whole copy replaces what is stored.
ReplaceSynced(a) ==
  /\ edit[a].kind = "synced"
  /\ Replaced(objects, [Copy(a) EXCEPT !.services = "template"])
  /\ Done(a)
  /\ UNCHANGED edits /\ UnchangedRun

\* patchDepartment takes any word for a status; archiveDepartment has its own.
Patch(a) ==
  /\ edit[a].kind = "patch"
  /\ UpdateStatus("patched")
  /\ Done(a)
  /\ UNCHANGED edits /\ UnchangedRun

Archive(a) ==
  /\ edit[a].kind = "archive"
  /\ UpdateStatus("archived")
  /\ Done(a)
  /\ UNCHANGED edits /\ UnchangedRun

Administer(a) ==
  \/ \E kind \in Edits : Read(a, kind)
  \/ \E s \in Seats : SetPositionHolder(a, s, [holder |-> "human", agent |-> FALSE])
  \/ UpdateOrgChart(a) \/ SyncServiceWorkflows(a) \/ ReplaceSynced(a)
  \/ Patch(a) \/ Archive(a)

-----------------------------------------------------------------------------
(* Snapshots and restarts. *)

\* One file after the other: the pair need not fit.
SaveFile(file) ==
  /\ saved' = [saved EXCEPT ![file] =
       IF file = "deployment" THEN deployment ELSE objects[stored]]
  /\ saved' # saved
  /\ UNCHANGED <<objects, stored, deployment, run, registered, compiled, edit,
                 edits, restarts>>

\* No code picks up a run that the process left unfinished.
Restart ==
  /\ restarts < MaxRestarts
  /\ objects' = <<saved.department>> /\ stored' = 1
  /\ deployment' = saved.deployment
  /\ run' = [run EXCEPT !.part = "over"]
  /\ edit' = [a \in Admins |-> NoEdit]
  /\ restarts' = restarts + 1
  /\ UNCHANGED <<registered, compiled, edits, saved>>

Next ==
  \/ Run
  \/ \E a \in Admins : Administer(a)
  \/ \E file \in {"deployment", "department"} : SaveFile(file)
  \/ Restart

Spec == Init /\ [][Next]_vars

\* The orchestrator's goroutine runs on: its calls return or time out.
FairSpec == Spec /\ WF_vars(Run)
=============================================================================
