------------------------- MODULE DepartmentDeployInv -------------------------
(***************************************************************************)
(* The inductive invariant behind DepartmentDeployProps.                   *)
(*                                                                         *)
(* While the run goes on, the record of the deployment and both objects,   *)
(* the orchestrator's own and the stored one, follow from the stage and    *)
(* its part: a copy is stored at the end of every stage that changes the   *)
(* own object.  Once it is over only what was concluded remains.           *)
(***************************************************************************)
EXTENDS DepartmentDeployProps

Shapes ==
  /\ TypeOK
  /\ objects \in Seq(Department)
  /\ edit \in [Admins -> {NoEdit} \cup
                  [kind : Edits \cup {"seated", "synced"}, of : Nat, read : Department]]
  /\ \A a \in Admins : edit[a] # NoEdit => edit[a].of \in 1 .. Len(objects)

Live == run.part # "over"

\* What a record of the deployment tells, be it the current one or a saved one,
\* with these agents registered and that many workflows compiled.
Tells(record, agents, workflows) ==
  LET done(name) == \E i \in 1 .. Len(Stages) :
                      Stages[i] = name /\ record.stage[i] = "completed"
  IN /\ \A i, k \in 1 .. Len(Stages) :
          i < k /\ record.stage[k] # "none" => record.stage[i] = "completed"
     /\ done("deploy_swarm") => agents = Seats
     /\ done("deploy_workflows") => workflows = SOPs
     /\ record.status = "operational" =>
          \A i \in 1 .. Len(Stages) : record.stage[i] = "completed"
     /\ record.status = "failed" => \E i \in 1 .. Len(Stages) : record.stage[i] = "failed"
     /\ \A i, k \in 1 .. Len(Stages) :
          record.status = Stages[i] =>
            /\ record.stage[i] # "none"
            /\ i < k => \/ record.stage[k] = "none"
                        \/ k = i + 1 /\ record.stage[k] = "running"

\* The stage that a run is at, as its record has it.
Shown(part) ==
  IF part \in {"enter", "work", "complete", "fail"} THEN "running"
  ELSE IF part \in {"mark", "degrade"} THEN "failed" ELSE "none"

\* The status as the run has written it last.
StatusOf(r) ==
  IF r.part = "open" THEN "operational"
  ELSE IF r.part = "degrade" THEN "failed"
  ELSE IF r.part \in {"work", "complete", "fail", "mark"} THEN Stages[r.stage]
  ELSE IF r.stage = 1 THEN "select" ELSE Stages[r.stage - 1]

\* A record of the deployment that follows a live run.
Follows(record, r) ==
  /\ \A i \in 1 .. Len(Stages) :
       record.stage[i] = IF i < r.stage THEN "completed"
                         ELSE IF i = r.stage THEN Shown(r.part) ELSE "none"
  /\ record.status = StatusOf(r)
  /\ r.part = "open" => r.stage = Len(Stages) + 1
  /\ r.part \notin {"begin", "open"} => r.stage <= Len(Stages)

RecordFollows == Live => Follows(deployment, run)

\* The run is past the work of a stage.
Past(stage) == run.stage > stage \/ (run.stage = stage /\ run.part = "complete")

\* The own object, and the stored one unless it was synced, have what the
\* stages behind the run have made.
Provisioned(department) ==
  /\ Past(3) => department.memory = HasMemory
  /\ Past(4) => department.agents = Seats
  /\ Past(5) => department.workflows = SOPs

WorkFollows ==
  Live =>
    /\ Provisioned(Own)
    /\ NotSynced => Provisioned(objects[stored])
    /\ ~run.err => run.tried \subseteq registered \cap Own.agents
    /\ run.err => run.stage = 4 /\ ~Past(4)
    /\ Past(4) => registered = Seats
    /\ run.part \notin {"fail", "mark", "degrade"} => compiled = Own.workflows
    /\ Past(5) => compiled = SOPs

\* A department without a memory client gets no memory, and none is in operation
\* before the run says so.
NoMemory(department) == department.memory => HasMemory
NotYet ==
  /\ \A i \in 1 .. Len(objects) : NoMemory(objects[i])
  /\ \A a \in Admins : edit[a] # NoEdit => NoMemory(edit[a].read)
  /\ NoMemory(saved.department)
  /\ Live =>
       /\ \A i \in 1 .. Len(objects) : objects[i].status # "operational"
       /\ \A a \in Admins : edit[a] # NoEdit => edit[a].read.status # "operational"
       /\ saved.department.status # "operational"

\* After a failure, also one of a saved record, nothing that is stored, read or
\* saved is in operation, and the run has only that to show.
NeverOpens ==
  Contract!Failed(deployment) \/ Contract!Failed(saved.deployment) =>
    /\ Live => run.part \in {"mark", "degrade"}
    /\ \A i \in 1 .. Len(objects) : objects[i].status # "operational"
    /\ \A a \in Admins : edit[a] # NoEdit => edit[a].read.status # "operational"
    /\ saved.department.status # "operational"

\* An unsynced department in operation has everything.
Whole(department) ==
  department.services = "old" /\ department.status = "operational" =>
    /\ department.agents = Seats
    /\ department.workflows = SOPs
    /\ department.memory = HasMemory

Inv ==
  /\ Shapes
  /\ Tells(deployment, registered, compiled)
  /\ Tells(saved.deployment, registered, compiled)
  /\ RecordFollows /\ WorkFollows /\ NotYet
  /\ Whole(objects[stored]) /\ Whole(saved.department)
  /\ OutcomeShown

\* What a run has not finished: four steps for a stage that it has not left, one
\* for an agent it has not tried and one for a workflow it has not created.
Unfinished(r, created) ==
  4 * (Len(Stages) + 1 - r.stage) + Cardinality(Seats \ r.tried) + (SOPs - created)

\* How many steps a run may still take.
StepsLeft(r, created) ==
  CASE r.part = "begin"             -> Unfinished(r, created) + 3
    [] r.part = "enter"             -> Unfinished(r, created) + 2
    [] r.part = "work"              -> Unfinished(r, created) + 1
    [] r.part = "complete"          -> Unfinished(r, created)
    [] r.part = "fail"              -> 3
    [] r.part = "mark"              -> 2
    [] r.part \in {"degrade", "open"} -> 1
    [] r.part = "over"              -> 0

\* Every step of the run brings it nearer to its end, and nothing takes it
\* further away: not the administrators' edits, nor a snapshot, nor a restart.
RunDescends ==
  [][/\ Run => StepsLeft(run', compiled') < StepsLeft(run, compiled)
     /\ StepsLeft(run', compiled') <= StepsLeft(run, compiled)]_vars
=============================================================================
