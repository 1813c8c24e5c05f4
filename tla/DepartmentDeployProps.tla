------------------------ MODULE DepartmentDeployProps ------------------------
(***************************************************************************)
(* What the deployment of a department promises.                           *)
(***************************************************************************)
EXTENDS DepartmentDeploy

TypeOK ==
  /\ stored \in 1 .. Len(objects)
  /\ \A i \in 1 .. Len(objects) : objects[i] \in Department
  /\ deployment \in Deployment
  /\ run \in [stage : 1 .. Len(Stages) + 1,
              part : {"begin", "enter", "work", "complete", "fail", "mark", "degrade",
                      "open", "over"},
              tried : SUBSET Seats, err : BOOLEAN]
  /\ registered \subseteq Seats
  /\ compiled \in 0 .. SOPs
  /\ \A a \in Admins : edit[a] = NoEdit \/
       edit[a] \in [kind : Edits \cup {"seated", "synced"}, of : 1 .. Len(objects),
                   read : Department]
  /\ edits \in 0 .. MaxEdits /\ restarts \in 0 .. MaxRestarts
  /\ saved \in [deployment : Deployment, department : Department]

\* What the deployment record says of its stages is true of the world, also of
\* one saved between any two writes and restored: stages before the last one it
\* began are completed, a completed swarm has every agent registered and
\* completed workflows exist; it is operational only if all are completed,
\* failed only if one is, and else its status names the last stage it began or,
\* between the two writes of beginStage, the one before.
StagesTell ==
  LET Is(i, status) == deployment.stage[i] = status
      done(name) == \E i \in 1 .. Len(Stages) : Stages[i] = name /\ Is(i, "completed")
  IN /\ \A i, k \in 1 .. Len(Stages) : i < k /\ ~Is(k, "none") => Is(i, "completed")
     /\ done("deploy_swarm") => registered = Seats
     /\ done("deploy_workflows") => compiled = SOPs
     /\ deployment.status = "operational" => \A i \in 1 .. Len(Stages) : Is(i, "completed")
     /\ deployment.status = "failed" => \E i \in 1 .. Len(Stages) : Is(i, "failed")
     /\ \A i, k \in 1 .. Len(Stages) :
          deployment.status = Stages[i] =>
            /\ ~Is(i, "none")
            /\ i < k => Is(k, "none") \/ (k = i + 1 /\ Is(k, "running"))

\* The deployment implements DeployContract: its stages are completed one after
\* the other and only once what they make exists, the department opens only when
\* the deployment did, and after a failed stage it never does, whatever a sync
\* writes back, between whichever writes the files were saved and whatever a
\* restart restores.  Only an administrator's patch may say otherwise.
Contract == INSTANCE DeployContract WITH
  record <- deployment, alive <- run.part # "over", shown <- objects[stored].status,
  agents <- registered, workflows <- compiled, kept <- saved.deployment
ImplementsDeployContract == Contract!Spec

\* No sync has replaced what is stored: its copy may be older than the run.
NotSynced == objects[stored].services = "old"

\* A department that the run has put into operation lists all its agents and
\* workflows and has its memory, although the store and the orchestrator hold
\* different objects, administrators change the stored one, and the process may
\* restart.
OperationalIsWhole ==
  LET department == objects[stored] IN
  NotSynced /\ department.status = "operational" =>
    /\ department.agents = Seats
    /\ department.workflows = SOPs
    /\ department.memory = HasMemory

\* When the run is over the department shows its outcome, or what an
\* administrator made of it: "any failure marks the deployment failed and the
\* department degraded".
OutcomeShown ==
  run.part = "over" /\ restarts = 0 /\ NotSynced =>
    \/ deployment.status = "operational" /\ objects[stored].status \in {"operational", "archived", "patched"}
    \/ deployment.status = "failed" /\ objects[stored].status \in {"degraded", "archived", "patched"}

\* A deployment comes to an end unless the process does.
DeploymentEnds == <>(deployment.status \in Ended \/ restarts > 0)

\* Syncing the services "changes delivery_workflow_id only ...: instance state
\* (SLAs, status, owners) is untouched" (handlers/departments.go).
SyncTouchesOnlyServices ==
  [][\A a \in Admins : ReplaceSynced(a) =>
       objects'[stored'] = [objects[stored] EXCEPT !.services = objects'[stored'].services]]_vars
=============================================================================
