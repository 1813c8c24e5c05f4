----------------------- MODULE DepartmentDeployProofs -----------------------
(***************************************************************************)
(* The record of a deployment tells the truth and a department in          *)
(* operation is whole, for every org chart, number of workflows, set of    *)
(* administrators and number of edits and restarts.                        *)
(***************************************************************************)
EXTENDS DepartmentDeployInv, FiniteSetTheorems, TLAPS

-----------------------------------------------------------------------------
(* Data. *)

LEMMA StagesAre ==
  /\ Len(Stages) = IF SOPs > 0 THEN 5 ELSE 4
  /\ Len(Stages) \in Nat
  /\ Stages[1] = "configure" /\ Stages[2] = "connect_data"
  /\ Stages[3] = "provision_memory" /\ Stages[4] = "deploy_swarm"
  /\ SOPs > 0 => Stages[5] = "deploy_workflows"
<1>1. CASE SOPs > 0
  <2>1. Stages = <<"configure", "connect_data", "provision_memory", "deploy_swarm", "deploy_workflows">>
    BY <1>1 DEF Stages
  <2> QED BY <1>1, <2>1
<1>2. CASE ~(SOPs > 0)
  <2>1. Stages = <<"configure", "connect_data", "provision_memory", "deploy_swarm">>
    BY <1>2 DEF Stages
  <2> QED BY <1>2, <2>1
<1> QED BY <1>1, <1>2

\* Each stage has one number.
LEMMA StageNumbers ==
  ASSUME NEW i \in 1 .. Len(Stages)
  PROVE  /\ Stages[i] = "configure" <=> i = 1
         /\ Stages[i] = "connect_data" <=> i = 2
         /\ Stages[i] = "provision_memory" <=> i = 3
         /\ Stages[i] = "deploy_swarm" <=> i = 4
         /\ Stages[i] = "deploy_workflows" <=> i = 5
<1>1. i \in {1, 2, 3, 4, 5} /\ (i = 5 => SOPs > 0)
  BY StagesAre
<1> QED
  BY <1>1, StagesAre

\* No two stages have the same name, and none that of another status.
LEMMA StagesDiffer ==
  ASSUME NEW i \in 1 .. Len(Stages)
  PROVE  /\ Stages[i] \notin {"select", "operational", "failed"}
         /\ \A k \in 1 .. Len(Stages) : Stages[i] = Stages[k] => i = k
<1>1. i \in {1, 2, 3, 4, 5} /\ (i = 5 => SOPs > 0)
  BY StagesAre
<1>2. Stages[i] \in {"configure", "connect_data", "provision_memory", "deploy_swarm",
                    "deploy_workflows"}
  BY <1>1, StagesAre
<1> QED
  BY <1>2, StageNumbers

LEMMA SeqExcept ==
  ASSUME NEW D, NEW s \in Seq(D), NEW i \in 1 .. Len(s), NEW d \in D
  PROVE  LET t == [s EXCEPT ![i] = d] IN
         /\ t \in Seq(D) /\ Len(t) = Len(s) /\ t[i] = d
         /\ \A k \in 1 .. Len(s) : k # i => t[k] = s[k]
OBVIOUS

LEMMA SeqAppend ==
  ASSUME NEW D, NEW s \in Seq(D), NEW d \in D
  PROVE  LET t == Append(s, d) IN
         /\ t \in Seq(D) /\ Len(t) = Len(s) + 1 /\ t[Len(s) + 1] = d
         /\ \A k \in 1 .. Len(s) : t[k] = s[k]
OBVIOUS

\* A department with one field changed.
LEMMA DepartmentTyped ==
  ASSUME NEW d \in Department
  PROVE  /\ \A s \in DepartmentStatus :
              [d EXCEPT !.status = s] \in Department
         /\ \A ss \in [Seats -> Seat] : [d EXCEPT !.seats = ss] \in Department
         /\ [d EXCEPT !.services = "template"] \in Department
         /\ [d EXCEPT !.memory = TRUE] \in Department
         /\ d.workflows < SOPs => [d EXCEPT !.workflows = @ + 1] \in Department
<1>1. d.workflows < SOPs => d.workflows + 1 \in 0 .. SOPs
  BY DeployAssumption DEF Department
<1>2. [d EXCEPT !.memory = TRUE] \in Department
  BY Zenon DEF Department
<1>3. d.workflows < SOPs => [d EXCEPT !.workflows = @ + 1] \in Department
  BY <1>1 DEF Department
<1>4. \A ss \in [Seats -> Seat] : [d EXCEPT !.seats = ss] \in Department
  BY DEF Department
<1> QED
  BY <1>2, <1>3, <1>4 DEF Department

\* A department whose agent of a seat is registered.
LEMMA AgentTyped ==
  ASSUME NEW d \in Department, NEW s \in Seats
  PROVE  LET new == [d EXCEPT !.agents = @ \cup {s}, !.seats[s].agent = TRUE] IN
         /\ new \in Department
         /\ new.agents = d.agents \cup {s}
         /\ new.status = d.status /\ new.workflows = d.workflows
         /\ new.memory = d.memory /\ new.services = d.services
<1>1. d.seats \in [Seats -> Seat] /\ d.seats[s] \in Seat
  BY DEF Department
<1>2. [d.seats[s] EXCEPT !.agent = TRUE] \in Seat
  BY <1>1, Zenon DEF Seat
<1>3. [d.seats EXCEPT ![s].agent = TRUE] \in [Seats -> Seat]
  BY <1>1, <1>2
<1> DEFINE seats == [d.seats EXCEPT ![s].agent = TRUE]
<1>4. [d EXCEPT !.agents = @ \cup {s}, !.seats[s].agent = TRUE]
      = [d EXCEPT !.agents = d.agents \cup {s}, !.seats = seats]
  BY DEF Department
<1> HIDE DEF seats
<1> QED
  BY <1>3, <1>4 DEF seats, Department

\* The objects after each kind of write.
LEMMA HeapKnown ==
  ASSUME Shapes
  PROVE  /\ objects \in Seq(Department) /\ Len(objects) \in Nat
         /\ 1 \in 1 .. Len(objects) /\ stored \in 1 .. Len(objects)
         /\ Own \in Department /\ objects[stored] \in Department
         /\ \A i \in 1 .. Len(objects) : objects[i] \in Department
BY DEF Shapes, TypeOK, Own

LEMMA ReplacedHeap ==
  ASSUME NEW heap \in Seq(Department), NEW d \in Department, Replaced(heap, d)
  PROVE  /\ objects' \in Seq(Department) /\ Len(objects') = Len(heap) + 1
         /\ stored' = Len(heap) + 1 /\ objects'[stored'] = d
         /\ \A k \in 1 .. Len(heap) : objects'[k] = heap[k]
BY SeqAppend DEF Replaced

LEMMA UpdatedHeap ==
  ASSUME Shapes, NEW s \in DepartmentStatus, UpdateStatus(s)
  PROVE  /\ objects' \in Seq(Department) /\ Len(objects') = Len(objects)
         /\ stored' = stored /\ objects'[stored] = [objects[stored] EXCEPT !.status = s]
         /\ \A k \in 1 .. Len(objects) : k # stored => objects'[k] = objects[k]
<1> DEFINE d == [objects[stored] EXCEPT !.status = s]
<1>1. d \in Department
  BY HeapKnown, DepartmentTyped
<1>2. objects' = [objects EXCEPT ![stored] = d] /\ stored' = stored
  BY DEF UpdateStatus
<1> HIDE DEF d
<1>3. /\ objects' \in Seq(Department) /\ Len(objects') = Len(objects) /\ objects'[stored] = d
      /\ \A k \in 1 .. Len(objects) : k # stored => objects'[k] = objects[k]
  BY <1>1, <1>2, HeapKnown, SeqExcept
<1> QED
  BY <1>2, <1>3 DEF d

RunType == [stage : 1 .. Len(Stages) + 1,
            part : {"begin", "enter", "work", "complete", "fail", "mark", "degrade",
                    "open", "over"},
            tried : SUBSET Seats, err : BOOLEAN]

\* What is left to show of a step of the run to keep the shapes.
LEMMA ShapesKept ==
  ASSUME Shapes, UnchangedOutside,
         objects' \in Seq(Department), Len(objects') >= Len(objects),
         stored' \in 1 .. Len(objects'),
         deployment' \in Deployment, run' \in RunType,
         registered' \subseteq Seats, compiled' \in 0 .. SOPs
  PROVE  Shapes'
<1>1. Len(objects) \in Nat /\ Len(objects') \in Nat
  BY HeapKnown
<1>2. \A a \in Admins : edit'[a] # NoEdit => edit'[a].of \in 1 .. Len(objects')
  BY <1>1 DEF Shapes, UnchangedOutside
<1>3. edit' \in [Admins -> {NoEdit} \cup [kind : Edits \cup {"seated", "synced"}, of : Nat, read : Department]]
  BY DEF Shapes, UnchangedOutside
<1>4. \A a \in Admins : edit'[a] = NoEdit \/
        edit'[a] \in [kind : Edits \cup {"seated", "synced"}, of : 1 .. Len(objects'), read : Department]
  BY <1>2, <1>3
<1>5. \A i \in 1 .. Len(objects') : objects'[i] \in Department
  OBVIOUS
<1>6. edits' \in 0 .. MaxEdits /\ restarts' \in 0 .. MaxRestarts
      /\ saved' \in [deployment : Deployment, department : Department]
  BY DEF Shapes, TypeOK, UnchangedOutside
<1>7. TypeOK'
  BY <1>4, <1>5, <1>6 DEF TypeOK, RunType
<1> QED
  BY <1>2, <1>3, <1>7 DEF Shapes

-----------------------------------------------------------------------------
(* The record of the deployment. *)

LEMMA RecordTyped ==
  ASSUME deployment \in Deployment, NEW i \in 1 .. Len(Stages),
         NEW s \in {"none", "running", "completed", "failed"}
  PROVE  /\ [deployment.stage EXCEPT ![i] = s]
              \in [1 .. Len(Stages) -> {"none", "running", "completed", "failed"}]
         /\ \A k \in 1 .. Len(Stages) :
              [deployment.stage EXCEPT ![i] = s][k] = IF k = i THEN s ELSE deployment.stage[k]
BY DEF Deployment

\* What the status says of where the run is.
LEMMA StatusKnown ==
  ASSUME NEW r \in RunType, r.part # "over", r.part \notin {"begin", "open"} => r.stage <= Len(Stages)
  PROVE  /\ StatusOf(r) = "operational" <=> r.part = "open"
         /\ StatusOf(r) = "failed" <=> r.part = "degrade"
         /\ \A i \in 1 .. Len(Stages) :
              StatusOf(r) = Stages[i] =>
                \/ r.part \in {"work", "complete", "fail", "mark"} /\ i = r.stage
                \/ r.part \in {"begin", "enter"} /\ r.stage > 1 /\ i = r.stage - 1
<1>1. Len(Stages) \in Nat /\ r.stage \in 1 .. Len(Stages) + 1
  BY StagesAre DEF RunType
<1>2. r.part \in {"begin", "enter", "work", "complete", "fail", "mark", "degrade", "open"}
  BY DEF RunType
<1>3. CASE r.part = "open"
  BY <1>3, StagesDiffer DEF StatusOf
<1>4. CASE r.part = "degrade"
  BY <1>4, StagesDiffer DEF StatusOf
<1>5. CASE r.part \in {"work", "complete", "fail", "mark"}
  <2>1. StatusOf(r) = Stages[r.stage] /\ r.stage \in 1 .. Len(Stages)
    BY <1>1, <1>5 DEF StatusOf
  <2> QED
    BY <1>5, <2>1, StagesDiffer
<1>6. CASE r.part \in {"begin", "enter"} /\ r.stage = 1
  <2>1. StatusOf(r) = "select"
    BY <1>6 DEF StatusOf
  <2> QED
    BY <1>6, <2>1, StagesDiffer
<1>7. CASE r.part \in {"begin", "enter"} /\ r.stage # 1
  <2>1. r.stage - 1 \in 1 .. Len(Stages) /\ r.stage > 1
    BY <1>1, <1>7
  <2>2. StatusOf(r) = Stages[r.stage - 1]
    BY <1>7 DEF StatusOf
  <2> QED
    BY <1>7, <2>1, <2>2, StagesDiffer
<1> QED
  BY <1>2, <1>3, <1>4, <1>5, <1>6, <1>7

\* A live run's record tells the truth.
LEMMA FollowsTells ==
  ASSUME NEW record \in Deployment, NEW r \in RunType, r.part # "over",
         Follows(record, r), NEW agents, NEW workflows,
         r.stage > 4 \/ (r.stage = 4 /\ r.part = "complete") => agents = Seats,
         r.stage > 5 \/ (r.stage = 5 /\ r.part = "complete") => workflows = SOPs
  PROVE  Tells(record, agents, workflows)
<1>1. Len(Stages) \in Nat /\ r.stage \in Nat /\ r.stage \in 1 .. Len(Stages) + 1
  BY StagesAre DEF RunType
<1>2. \A i \in 1 .. Len(Stages) : record.stage[i] = "completed" => i < r.stage
  BY <1>1 DEF Follows, Shown
<1>3. ASSUME NEW i \in 1 .. Len(Stages), NEW k \in 1 .. Len(Stages), i < k,
             record.stage[k] # "none"
      PROVE  record.stage[i] = "completed"
  <2>1. k <= r.stage
    BY <1>1, <1>3 DEF Follows
  <2>2. i < r.stage
    BY <1>1, <1>3, <2>1
  <2> QED BY <2>2 DEF Follows
<1>4. ASSUME NEW i \in 1 .. Len(Stages), Stages[i] = "deploy_swarm", record.stage[i] = "completed"
      PROVE  agents = Seats
  BY <1>1, <1>2, <1>4, StageNumbers
<1>5. ASSUME NEW i \in 1 .. Len(Stages), Stages[i] = "deploy_workflows", record.stage[i] = "completed"
      PROVE  workflows = SOPs
  BY <1>1, <1>2, <1>5, StageNumbers
<1>6. /\ record.status = StatusOf(r)
      /\ r.part = "open" => r.stage = Len(Stages) + 1
      /\ r.part \notin {"begin", "open"} => r.stage <= Len(Stages)
  BY DEF Follows
<1>s. /\ record.status = "operational" => r.part = "open"
      /\ record.status = "failed" => r.part = "degrade"
  BY <1>6, StatusKnown, Zenon
<1>7. ASSUME record.status = "operational", NEW i \in 1 .. Len(Stages)
      PROVE  record.stage[i] = "completed"
  <2>1. i < r.stage
    BY <1>1, <1>6, <1>7, <1>s
  <2> QED BY <2>1 DEF Follows
<1>8. ASSUME record.status = "failed"
      PROVE  \E i \in 1 .. Len(Stages) : record.stage[i] = "failed"
  <2>1. r.part = "degrade" /\ r.stage \in 1 .. Len(Stages)
    BY <1>1, <1>6, <1>8, <1>s
  <2>2. record.stage[r.stage] = "failed"
    BY <1>1, <2>1 DEF Follows, Shown
  <2> QED BY <2>1, <2>2
<1>9. ASSUME NEW i \in 1 .. Len(Stages), NEW k \in 1 .. Len(Stages), record.status = Stages[i]
      PROVE  /\ record.stage[i] # "none"
             /\ i < k => \/ record.stage[k] = "none"
                         \/ k = i + 1 /\ record.stage[k] = "running"
  <2>1. CASE r.part \in {"work", "complete", "fail", "mark"} /\ i = r.stage
    BY <1>1, <2>1 DEF Follows, Shown
  <2>2. CASE r.part \in {"begin", "enter"} /\ r.stage > 1 /\ i = r.stage - 1
    <3>1. record.stage[i] = "completed"
      BY <1>1, <2>2 DEF Follows
    <3>2. i < k => k = i + 1 \/ k > r.stage
      BY <1>1, <2>2
    <3>3. k > r.stage => record.stage[k] = "none"
      BY <1>1 DEF Follows
    <3>4. k = i + 1 => record.stage[k] = Shown(r.part)
      BY <1>1, <2>2 DEF Follows
    <3> QED
      BY <2>2, <3>1, <3>2, <3>3, <3>4 DEF Shown
  <2> QED
    BY <1>6, <1>9, <2>1, <2>2, StatusKnown
<1> QED
  BY <1>3, <1>4, <1>5, <1>7, <1>8, <1>9 DEF Tells

\* What is left to show of a step of the run that goes on.
LEMMA LiveStep ==
  ASSUME Inv, Shapes', Live, Live', UnchangedOutside,
         Follows(deployment', run'), WorkFollows',
         \A i \in 1 .. Len(objects') :
            objects'[i].status # "operational" /\ NoMemory(objects'[i]),
         registered \subseteq registered',
         compiled = SOPs => compiled' = SOPs
  PROVE  Inv'
<1>1. RecordFollows'
  BY DEF RecordFollows
<1>2. NotYet'
  BY DEF Inv, NotYet, UnchangedOutside, NoMemory, Live
<1>3. Tells(deployment', registered', compiled')
  <2>1. deployment' \in Deployment /\ run' \in RunType /\ run'.part # "over"
    BY DEF Shapes, TypeOK, RunType, Live
  <2>2. run'.stage \in Nat /\ (run'.part = "complete" => run'.stage \in 1 .. Len(Stages))
    BY <2>1, StagesAre DEF RunType, Follows
  <2>3. run'.stage > 4 \/ (run'.stage = 4 /\ run'.part = "complete") => registered' = Seats
    BY DEF WorkFollows, Past
  <2>4. run'.stage > 5 \/ (run'.stage = 5 /\ run'.part = "complete") => compiled' = SOPs
    BY DEF WorkFollows, Past
  <2> QED
    BY <2>1, <2>3, <2>4, FollowsTells
<1>4. Tells(saved'.deployment, registered', compiled')
  <2>1. saved' = saved /\ Tells(saved.deployment, registered, compiled)
    BY DEF Inv, UnchangedOutside
  <2>2. registered = Seats => registered' = Seats
    BY DEF Shapes, TypeOK
  <2> QED
    BY <2>1, <2>2 DEF Tells
<1>5. Whole(objects'[stored']) /\ Whole(saved'.department)
  BY DEF Inv, UnchangedOutside, Whole, Shapes, TypeOK
<1>6. OutcomeShown'
  BY DEF Live, OutcomeShown
<1> QED
  BY <1>1, <1>2, <1>3, <1>4, <1>5, <1>6 DEF Inv

-----------------------------------------------------------------------------
(* The steps of the run. *)

LEMMA RunKnown ==
  ASSUME Inv, Live
  PROVE  /\ run \in RunType /\ run.stage \in Nat /\ deployment \in Deployment
         /\ deployment.stage \in [1 .. Len(Stages) -> {"none", "running", "completed", "failed"}]
         /\ Follows(deployment, run) /\ WorkFollows
         /\ Provisioned(Own)
         /\ \A i \in 1 .. Len(objects) :
              objects[i].status # "operational" /\ NoMemory(objects[i])
BY StagesAre DEF Inv, Shapes, TypeOK, RunType, Deployment, RecordFollows, WorkFollows, NotYet, Live

\* A stage that the run is at.
LEMMA AtKnown ==
  ASSUME Inv, NEW stage, NEW part, At(stage, part), part # "over"
  PROVE  /\ Live /\ run.part = part /\ run.stage \in 1 .. Len(Stages)
         /\ stage = "configure" <=> run.stage = 1
         /\ stage = "connect_data" <=> run.stage = 2
         /\ stage = "provision_memory" <=> run.stage = 3
         /\ stage = "deploy_swarm" <=> run.stage = 4
         /\ stage = "deploy_workflows" <=> run.stage = 5
<1>1. Live /\ run.part = part /\ run.stage \in 1 .. Len(Stages) /\ Stages[run.stage] = stage
  BY StagesAre DEF At, Live, Inv, Shapes, TypeOK
<1> QED
  BY <1>1, StageNumbers

\* The record after the work of a stage was done or failed.
LEMMA GoesFollows ==
  ASSUME Inv, Live, run.part = "work", NEW part \in {"complete", "fail"}, Goes(part),
         UNCHANGED deployment
  PROVE  /\ Follows(deployment', run') /\ Live' /\ run' \in RunType /\ deployment' \in Deployment
         /\ run'.stage = run.stage /\ run'.part = part
         /\ run'.tried = run.tried /\ run'.err = run.err
<1>1. /\ run' \in RunType /\ run'.stage = run.stage /\ run'.part = part
      /\ run'.tried = run.tried /\ run'.err = run.err
  BY RunKnown DEF RunType, Goes
<1> QED
  BY <1>1, RunKnown DEF Follows, Shown, StatusOf, Live

\* A step that changes neither an object nor what the world outside holds.
LEMMA SameHeap ==
  ASSUME Inv, Live, UNCHANGED <<objects, stored>>, UnchangedWorld,
         run' \in RunType, deployment' \in Deployment, Live',
         Follows(deployment', run'), WorkFollows'
  PROVE  Inv'
<1>1. Shapes'
  BY HeapKnown, ShapesKept DEF UnchangedWorld, Inv, Shapes, TypeOK
<1> QED
  BY <1>1, RunKnown, LiveStep DEF UnchangedWorld

\* A step that only writes the record.
LEMMA WritesRecord ==
  ASSUME Inv, Live, UNCHANGED <<objects, stored>>, UnchangedWorld,
         deployment' \in Deployment, Follows(deployment', run'), run' \in RunType,
         run'.part \notin {"complete", "over"}, run.part # "complete",
         run.part \in {"fail", "mark", "degrade"} => run'.part \in {"mark", "degrade"},
         run'.stage = run.stage, run'.tried = run.tried, run'.err = run.err
  PROVE  Inv'
<1>1. Live'
  BY DEF Live
<1>2. /\ Past(3) <=> Past(3)'
      /\ Past(4) <=> Past(4)'
      /\ Past(5) <=> Past(5)'
  BY DEF Past
<1>3. Own' = Own /\ objects'[stored'] = objects[stored] /\ (NotSynced' <=> NotSynced)
  BY DEF Own, NotSynced
<1>4. Provisioned(Own)' /\ (NotSynced' => Provisioned(objects[stored])')
  BY <1>2, <1>3, RunKnown DEF Provisioned, WorkFollows
<1>5. WorkFollows'
  BY <1>2, <1>3, <1>4, RunKnown DEF WorkFollows, UnchangedWorld
<1> QED
  BY <1>1, <1>5, SameHeap

\* A stage of the record that the run rewrites.
LEMMA RecordWritten ==
  ASSUME Inv, Live, run.stage \in 1 .. Len(Stages), NEW s \in {"running", "completed", "failed"},
         Record(run.stage, s)
  PROVE  /\ deployment' \in Deployment /\ deployment'.status = deployment.status
         /\ deployment'.stage = [deployment.stage EXCEPT ![run.stage] = s]
         /\ \A k \in 1 .. Len(Stages) :
              deployment'.stage[k] = IF k = run.stage THEN s ELSE deployment.stage[k]
<1> DEFINE stage == [deployment.stage EXCEPT ![run.stage] = s]
<1>1. /\ stage \in [1 .. Len(Stages) -> {"none", "running", "completed", "failed"}]
      /\ \A k \in 1 .. Len(Stages) :
           stage[k] = IF k = run.stage THEN s ELSE deployment.stage[k]
  BY RunKnown, RecordTyped
<1>2. deployment' = [deployment EXCEPT !.stage = stage]
  BY RunKnown DEF Record, Deployment
<1> HIDE DEF stage
<1>3. deployment' \in Deployment /\ deployment'.status = deployment.status /\ deployment'.stage = stage
  BY <1>1, <1>2, RunKnown DEF Deployment
<1> QED
  BY <1>1, <1>3 DEF stage

\* A status that the run writes.
LEMMA StatusWritten ==
  ASSUME Inv, Live, NEW s, s \in Ended \/ \E i \in 1 .. Len(Stages) : s = Stages[i],
         deployment' = [deployment EXCEPT !.status = s]
  PROVE  /\ deployment' \in Deployment /\ deployment'.status = s
         /\ deployment'.stage = deployment.stage
BY RunKnown DEF Deployment

\* A part that the run goes on with.
LEMMA GoesTyped ==
  ASSUME Inv, Live, NEW part, Goes(part),
         part \in {"enter", "work", "complete", "fail", "mark", "degrade", "open", "over"}
  PROVE  /\ run' \in RunType /\ run'.part = part /\ run'.stage = run.stage
         /\ run'.tried = run.tried /\ run'.err = run.err
BY RunKnown DEF RunType, Goes

LEMMA BeginKeeps ==
  ASSUME Inv, Begin
  PROVE  Inv'
<1>1. Live /\ run.part = "begin" /\ run.stage \in 1 .. Len(Stages) /\ run.stage \in Nat
  BY StagesAre DEF Begin, Live, Inv, Shapes, TypeOK
<1>2. /\ run' \in RunType /\ run'.stage = run.stage /\ run'.part = "enter"
      /\ run'.tried = run.tried /\ run'.err = run.err
  BY <1>1, GoesTyped DEF Begin
<1>3. Record(run.stage, "running") /\ UNCHANGED <<objects, stored>> /\ UnchangedWorld
  BY DEF Begin
<1>4. \A i \in 1 .. Len(Stages) :
        deployment'.stage[i] = IF i < run.stage THEN "completed"
                               ELSE IF i = run.stage THEN "running" ELSE "none"
  BY <1>1, <1>3, RunKnown, RecordWritten DEF Follows
<1>5. Follows(deployment', run')
  BY <1>1, <1>2, <1>3, <1>4, RunKnown, RecordWritten DEF Follows, Shown, StatusOf
<1> QED
  BY <1>1, <1>2, <1>3, <1>5, RecordWritten, WritesRecord

LEMMA EnterKeeps ==
  ASSUME Inv, Enter
  PROVE  Inv'
<1>1. Live /\ run.part = "enter"
  BY DEF Enter, Live
<1>2. /\ run' \in RunType /\ run'.stage = run.stage /\ run'.part = "work"
      /\ run'.tried = run.tried /\ run'.err = run.err
  BY <1>1, GoesTyped DEF Enter
<1>3. /\ deployment' = [deployment EXCEPT !.status = Stages[run.stage]]
      /\ UNCHANGED <<objects, stored>> /\ UnchangedWorld
  BY DEF Enter
<1>4. run.stage \in 1 .. Len(Stages)
  BY <1>1, RunKnown, StagesAre DEF Follows, RunType
<1>5. /\ deployment' \in Deployment /\ deployment'.status = Stages[run.stage]
      /\ deployment'.stage = deployment.stage
  BY <1>1, <1>3, <1>4, StatusWritten
<1>6. Follows(deployment', run')
  BY <1>1, <1>2, <1>4, <1>5, RunKnown DEF Follows, Shown, StatusOf
<1> QED
  BY <1>1, <1>2, <1>3, <1>5, <1>6, WritesRecord

LEMMA CompleteStageKeeps ==
  ASSUME Inv, CompleteStage
  PROVE  Inv'
<1>1. Live /\ run.part = "complete" /\ run.stage \in 1 .. Len(Stages) /\ run.stage \in Nat
  <2>1. Live
    BY DEF CompleteStage, Live
  <2> QED BY <2>1, RunKnown, StagesAre DEF CompleteStage, Follows, RunType
<1>2. /\ run' \in RunType /\ run'.stage = run.stage + 1 /\ run'.part = "begin"
      /\ run'.tried = run.tried /\ run'.err = run.err
  <2>1. run.stage + 1 \in 1 .. Len(Stages) + 1
    BY <1>1, StagesAre
  <2> QED BY <1>1, <2>1, RunKnown DEF RunType, CompleteStage
<1>3. Record(run.stage, "completed") /\ UNCHANGED <<objects, stored>> /\ UnchangedWorld
  BY DEF CompleteStage
<1>4. /\ deployment' \in Deployment /\ deployment'.status = deployment.status
      /\ \A i \in 1 .. Len(Stages) :
           deployment'.stage[i] = IF i = run.stage THEN "completed" ELSE deployment.stage[i]
  BY <1>1, <1>3, RecordWritten
<1>5. Follows(deployment', run')
  <2>1. \A i \in 1 .. Len(Stages) :
        deployment'.stage[i] = IF i < run.stage + 1 THEN "completed" ELSE "none"
    BY <1>1, <1>4, RunKnown DEF Follows
  <2>2. deployment.status = Stages[run.stage]
    BY <1>1, RunKnown DEF Follows, StatusOf
  <2>3. StatusOf(run') = Stages[run.stage]
    BY <1>1, <1>2 DEF StatusOf
  <2> QED BY <1>2, <1>4, <2>1, <2>2, <2>3 DEF Follows, Shown
<1>6. Live' /\ objects' = objects /\ stored' = stored
  BY <1>2, <1>3 DEF Live
<1>7. WorkFollows'
  <2>1. /\ Past(3) <=> Past(3)'
        /\ Past(4) <=> Past(4)'
        /\ Past(5) <=> Past(5)'
    BY <1>1, <1>2 DEF Past
  <2>2. run.err = FALSE
    BY <1>1, RunKnown DEF WorkFollows, Past, RunType
  <2> QED
    BY <1>1, <1>2, <1>3, <1>6, <2>1, <2>2, RunKnown
    DEF WorkFollows, Provisioned, NotSynced, Own, UnchangedWorld
<1> QED
  BY <1>1, <1>2, <1>3, <1>4, <1>5, <1>6, <1>7, SameHeap

LEMMA FailKeeps ==
  ASSUME Inv, Fail
  PROVE  Inv'
<1>1. Live /\ run.part = "fail" /\ run.stage \in 1 .. Len(Stages) /\ run.stage \in Nat
  <2>1. Live
    BY DEF Fail, Live
  <2> QED BY <2>1, RunKnown, StagesAre DEF Fail, Follows, RunType
<1>2. /\ run' \in RunType /\ run'.stage = run.stage /\ run'.part = "mark"
      /\ run'.tried = run.tried /\ run'.err = run.err
  BY <1>1, GoesTyped DEF Fail
<1>3. Record(run.stage, "failed") /\ UNCHANGED <<objects, stored>> /\ UnchangedWorld
  BY DEF Fail
<1>4. \A i \in 1 .. Len(Stages) :
        deployment'.stage[i] = IF i < run.stage THEN "completed"
                               ELSE IF i = run.stage THEN "failed" ELSE "none"
  BY <1>1, <1>3, RunKnown, RecordWritten DEF Follows
<1>5. Follows(deployment', run')
  BY <1>1, <1>2, <1>3, <1>4, RunKnown, RecordWritten DEF Follows, Shown, StatusOf
<1> QED
  BY <1>1, <1>2, <1>3, <1>5, RecordWritten, WritesRecord

LEMMA MarkKeeps ==
  ASSUME Inv, Mark
  PROVE  Inv'
<1>1. Live /\ run.part = "mark"
  BY DEF Mark, Live
<1>2. /\ run' \in RunType /\ run'.stage = run.stage /\ run'.part = "degrade"
      /\ run'.tried = run.tried /\ run'.err = run.err
  BY <1>1, GoesTyped DEF Mark
<1>3. /\ deployment' = [deployment EXCEPT !.status = "failed"]
      /\ UNCHANGED <<objects, stored>> /\ UnchangedWorld
  BY DEF Mark
<1>4. /\ deployment' \in Deployment /\ deployment'.status = "failed"
      /\ deployment'.stage = deployment.stage
  BY <1>1, <1>3, StatusWritten DEF Ended
<1>5. Follows(deployment', run')
  BY <1>1, <1>2, <1>4, RunKnown DEF Follows, Shown, StatusOf
<1> QED
  BY <1>1, <1>2, <1>3, <1>4, <1>5, WritesRecord

\* A step that stores a copy of the own object.
LEMMA StoresOwn ==
  ASSUME Inv, Live, NEW heap \in Seq(Department), Len(heap) = Len(objects),
         Replaced(heap, heap[1]), UnchangedWorld,
         \A k \in 1 .. Len(heap) : heap[k].status # "operational" /\ NoMemory(heap[k]),
         run' \in RunType, deployment' \in Deployment, Live',
         Follows(deployment', run'),
         objects'[1] = heap[1] /\ objects'[stored'] = heap[1] => WorkFollows'
  PROVE  Inv'
<1>1. Len(heap) \in Nat /\ 1 \in 1 .. Len(heap) /\ heap[1] \in Department
  BY HeapKnown DEF Inv
<1>2. /\ objects' \in Seq(Department) /\ Len(objects') = Len(heap) + 1
      /\ stored' = Len(heap) + 1 /\ objects'[stored'] = heap[1]
      /\ \A k \in 1 .. Len(heap) : objects'[k] = heap[k]
  BY <1>1, ReplacedHeap
<1>3. Shapes'
  BY <1>1, <1>2, ShapesKept DEF UnchangedWorld, Inv, Shapes, TypeOK
<1>4. WorkFollows'
  BY <1>1, <1>2
<1>5. ASSUME NEW i \in 1 .. Len(objects')
      PROVE  objects'[i].status # "operational" /\ NoMemory(objects'[i])
  <2>1. i \in 1 .. Len(heap) \/ i = stored'
    BY <1>1, <1>2
  <2> QED BY <1>1, <1>2, <2>1 DEF NoMemory
<1> QED
  BY <1>3, <1>4, <1>5, LiveStep DEF UnchangedWorld

LEMMA ConfigureKeeps ==
  ASSUME Inv, Configure
  PROVE  Inv'
<1>1. Live /\ run.part = "work" /\ run.stage = 1
  BY AtKnown DEF Configure
<1>2. UNCHANGED <<objects, stored>> /\ UnchangedWorld
  BY DEF Configure
<1>3. /\ Follows(deployment', run') /\ Live' /\ run' \in RunType /\ deployment' \in Deployment
      /\ run'.stage = run.stage /\ run'.part \in {"complete", "fail"}
      /\ run'.tried = run.tried /\ run'.err = run.err
  BY <1>1, GoesFollows DEF Configure
<1>4. WorkFollows'
  BY <1>1, <1>2, <1>3, RunKnown DEF WorkFollows, Past, Provisioned, NotSynced, Own, UnchangedWorld
<1> QED
  BY <1>1, <1>2, <1>3, <1>4, SameHeap

LEMMA ConnectDataKeeps ==
  ASSUME Inv, ConnectData
  PROVE  Inv'
<1>1. Live /\ run.part = "work" /\ run.stage = 2
  BY AtKnown DEF ConnectData
<1>2. UnchangedWorld
  BY DEF ConnectData
<1>3. /\ Follows(deployment', run') /\ Live' /\ run' \in RunType /\ deployment' \in Deployment
      /\ run'.stage = run.stage /\ run'.part = "complete"
      /\ run'.tried = run.tried /\ run'.err = run.err
  BY <1>1, GoesFollows DEF ConnectData
<1>4. ASSUME objects'[1] = objects[1]
      PROVE  WorkFollows'
  BY <1>1, <1>2, <1>3, <1>4, RunKnown DEF WorkFollows, Past, Provisioned, NotSynced, Own, UnchangedWorld
<1>5. CASE UNCHANGED <<objects, stored>>
  BY <1>1, <1>2, <1>3, <1>4, <1>5, SameHeap
<1>6. CASE Replaced(objects, Own)
  <2>1. objects \in Seq(Department) /\ Replaced(objects, objects[1])
    BY <1>6, HeapKnown DEF Inv, Own
  <2> QED BY <1>1, <1>2, <1>3, <1>4, <2>1, RunKnown, StoresOwn
<1> QED
  BY <1>5, <1>6 DEF ConnectData

LEMMA ProvisionMemoryKeeps ==
  ASSUME Inv, ProvisionMemory
  PROVE  Inv'
<1>1. Live /\ run.part = "work" /\ run.stage = 3
  BY AtKnown DEF ProvisionMemory
<1>2. UnchangedWorld
  BY DEF ProvisionMemory
<1>3. /\ Follows(deployment', run') /\ Live' /\ run' \in RunType /\ deployment' \in Deployment
      /\ run'.stage = run.stage /\ run'.part \in {"complete", "fail"}
      /\ run'.tried = run.tried /\ run'.err = run.err
  BY <1>1, GoesFollows DEF ProvisionMemory
<1>4. CASE UNCHANGED <<objects, stored>> /\ (Goes("fail") \/ ~HasMemory)
  <2>1. run'.part = "complete" => ~HasMemory
    BY <1>1, <1>4, GoesTyped
  <2>2. ~HasMemory => ~Own.memory /\ ~objects[stored].memory
    BY <1>1, RunKnown, HeapKnown DEF NoMemory, Inv, Own
  <2>3. Own.memory \in BOOLEAN /\ objects[stored].memory \in BOOLEAN /\ HasMemory \in BOOLEAN
    BY HeapKnown, DeployAssumption DEF Inv, Department
  <2>4. ~HasMemory => Own.memory = HasMemory /\ objects[stored].memory = HasMemory
    BY <2>2, <2>3
  <2>5. Own' = Own /\ objects'[stored'] = objects[stored] /\ (NotSynced' <=> NotSynced)
    BY <1>4 DEF Own, NotSynced
  <2>6. Past(3)' => ~HasMemory
    BY <1>1, <1>3, <2>1 DEF Past
  <2>7. ~Past(4)' /\ ~Past(5)' /\ ~Past(4)
    BY <1>1, <1>3 DEF Past
  <2>8. Provisioned(Own)' /\ Provisioned(objects[stored])'
    BY <2>4, <2>5, <2>6, <2>7 DEF Provisioned
  <2>9. WorkFollows'
    BY <1>1, <1>2, <1>3, <2>5, <2>7, <2>8, RunKnown DEF WorkFollows, UnchangedWorld
  <2> QED BY <1>1, <1>2, <1>3, <1>4, <2>9, SameHeap
<1> DEFINE own == [Own EXCEPT !.memory = TRUE]
           heap == [objects EXCEPT ![1] = own]
<1>5. CASE HasMemory /\ Replaced(heap, own) /\ Goes("complete")
  <2>1. own \in Department /\ own.agents = Own.agents /\ own.workflows = Own.workflows
        /\ own.status = Own.status
    BY HeapKnown, DepartmentTyped DEF Inv, Department
  <2>2. own.memory = TRUE
    BY HeapKnown, Zenon DEF Inv, Department
  <2> HIDE DEF own
  <2>3. /\ heap \in Seq(Department) /\ Len(heap) = Len(objects) /\ heap[1] = own
        /\ \A k \in 1 .. Len(objects) : k # 1 => heap[k] = objects[k]
    BY <2>1, HeapKnown, SeqExcept DEF Inv
  <2> HIDE DEF heap
  <2>4. ASSUME NEW k \in 1 .. Len(heap)
        PROVE  heap[k].status # "operational" /\ NoMemory(heap[k])
    BY <1>1, <1>5, <2>1, <2>3, HeapKnown, RunKnown DEF NoMemory, Own, Inv
  <2>5. ASSUME objects'[1] = heap[1], objects'[stored'] = heap[1]
        PROVE  WorkFollows'
    <3>1. Own' = own /\ objects'[stored'] = own
      BY <2>3, <2>5 DEF Own
    <3>2. run'.part = "complete"
      BY <1>1, <1>5, GoesTyped
    <3>3. ~Past(4)' /\ ~Past(5)' /\ ~Past(4)
      BY <1>1, <1>3 DEF Past
    <3>4. HasMemory = TRUE
      BY <1>5, DeployAssumption
    <3>5. Provisioned(Own)' /\ Provisioned(objects[stored])'
      BY <2>2, <3>1, <3>3, <3>4 DEF Provisioned
    <3> QED BY <1>1, <1>2, <1>3, <2>1, <3>1, <3>2, <3>3, <3>5, RunKnown DEF WorkFollows, UnchangedWorld
  <2> QED
    BY <1>1, <1>2, <1>3, <1>5, <2>3, <2>4, <2>5, StoresOwn
<1> QED
  BY <1>4, <1>5 DEF ProvisionMemory

\* A step that changes the own object in its place.
LEMMA ChangesOwn ==
  ASSUME Inv, Live, NEW own \in Department, own.status = Own.status, NoMemory(own),
         objects' = [objects EXCEPT ![1] = own], UNCHANGED stored, UnchangedOutside,
         registered' \subseteq Seats, registered \subseteq registered',
         compiled' \in 0 .. SOPs, compiled = SOPs => compiled' = SOPs,
         run' \in RunType, deployment' \in Deployment, Live',
         Follows(deployment', run'),
         objects'[1] = own /\ objects'[stored'] \in {own, objects[stored]} => WorkFollows'
  PROVE  Inv'
<1>1. /\ objects' \in Seq(Department) /\ Len(objects') = Len(objects) /\ objects'[1] = own
      /\ \A k \in 1 .. Len(objects) : k # 1 => objects'[k] = objects[k]
  BY HeapKnown, SeqExcept DEF Inv
<1>2. Shapes'
  BY <1>1, HeapKnown, ShapesKept DEF UnchangedOutside, Inv
<1>3. objects'[stored'] \in {own, objects[stored]}
  BY <1>1, HeapKnown DEF Inv
<1>4. WorkFollows'
  BY <1>1, <1>3
<1>5. ASSUME NEW i \in 1 .. Len(objects')
      PROVE  objects'[i].status # "operational" /\ NoMemory(objects'[i])
  BY <1>1, RunKnown, HeapKnown DEF Own, Inv
<1> QED
  BY <1>2, <1>4, <1>5, LiveStep

LEMMA RegisterAgentKeeps ==
  ASSUME Inv, NEW s \in Seats, RegisterAgent(s)
  PROVE  Inv'
<1>1. Live /\ run.part = "work" /\ run.stage = 4
  BY AtKnown DEF RegisterAgent
<1>2. UnchangedOutside /\ UNCHANGED <<stored, deployment, compiled>>
  BY DEF RegisterAgent
<1>3. ~Past(4) /\ ~Past(5) /\ registered \subseteq Seats /\ compiled \in 0 .. SOPs
  BY <1>1 DEF Past, Inv, Shapes, TypeOK
<1>4. CASE /\ registered' = registered \cup {s}
           /\ objects' = [objects EXCEPT ![1].agents = @ \cup {s}, ![1].seats[s].agent = TRUE]
           /\ run' = [run EXCEPT !.tried = @ \cup {s}]
  <2> DEFINE own == [Own EXCEPT !.agents = @ \cup {s}, !.seats[s].agent = TRUE]
  <2>1. /\ own \in Department /\ own.agents = Own.agents \cup {s}
        /\ own.status = Own.status /\ own.workflows = Own.workflows
        /\ own.memory = Own.memory
    BY HeapKnown, AgentTyped DEF Inv
  <2>2. objects' = [objects EXCEPT ![1] = own]
    BY <1>4, HeapKnown DEF Inv, Own, Department
  <2> HIDE DEF own
  <2>3. /\ run' \in RunType /\ run'.stage = 4 /\ run'.part = "work" /\ run'.err = run.err
        /\ run'.tried = run.tried \cup {s}
    BY <1>1, <1>4, RunKnown DEF RunType
  <2>4. Live' /\ Follows(deployment', run')
    BY <1>1, <1>2, <2>3, RunKnown DEF Live, Follows, Shown, StatusOf
  <2>5. ASSUME objects'[1] = own, objects'[stored'] \in {own, objects[stored]}
        PROVE  WorkFollows'
    <3>1. ~Past(4)' /\ ~Past(5)' /\ Past(3)' /\ Past(3)
      BY <1>1, <2>3 DEF Past
    <3>2. Own' = own
      BY <2>5 DEF Own
    <3>3. Provisioned(Own)'
      BY <1>1, <2>1, <3>1, <3>2, RunKnown DEF Provisioned
    <3>4. ASSUME NotSynced' PROVE Provisioned(objects[stored])'
      <4>1. CASE objects'[stored'] = own
        BY <3>2, <3>3, <4>1
      <4>2. CASE objects'[stored'] = objects[stored]
        BY <1>1, <3>1, <3>4, <4>2, RunKnown DEF Provisioned, NotSynced, WorkFollows
      <4> QED BY <2>5, <4>1, <4>2
    <3>5. ~run'.err => run'.tried \subseteq registered' \cap Own'.agents
      BY <1>1, <1>4, <2>1, <2>3, <3>2, RunKnown DEF WorkFollows
    <3>6. compiled' = Own'.workflows
      BY <1>1, <1>2, <2>1, <3>2, RunKnown DEF WorkFollows
    <3> QED
      BY <2>3, <3>1, <3>3, <3>4, <3>5, <3>6 DEF WorkFollows
  <2>6. NoMemory(own)
    BY <1>1, <2>1, RunKnown, HeapKnown DEF NoMemory, Own, Inv
  <2> QED
    BY <1>1, <1>2, <1>3, <1>4, <2>1, <2>2, <2>3, <2>4, <2>5, <2>6, RunKnown, ChangesOwn
<1>5. CASE /\ registered' \in {registered, registered \cup {s}}
           /\ run' = [run EXCEPT !.tried = @ \cup {s}, !.err = TRUE]
           /\ UNCHANGED objects
  <2>1. /\ run' \in RunType /\ run'.stage = 4 /\ run'.part = "work" /\ run'.err = TRUE
    BY <1>1, <1>5, RunKnown DEF RunType
  <2>2. Live' /\ Follows(deployment', run')
    BY <1>1, <1>2, <2>1, RunKnown DEF Live, Follows, Shown, StatusOf
  <2>3. Shapes'
    BY <1>2, <1>3, <1>5, <2>1, RunKnown, <1>1, HeapKnown, ShapesKept DEF Inv
  <2>4. WorkFollows'
    <3>1. ~Past(4)' /\ ~Past(5)' /\ Past(3)' /\ Past(3)
      BY <1>1, <2>1 DEF Past
    <3>2. Own' = Own /\ objects'[stored'] = objects[stored]
      BY <1>2, <1>5 DEF Own
    <3> QED
      BY <1>1, <1>2, <2>1, <3>1, <3>2, RunKnown DEF WorkFollows, Provisioned, NotSynced
  <2> QED
    BY <1>1, <1>2, <1>3, <1>5, <2>2, <2>3, <2>4, RunKnown, LiveStep
<1> QED
  BY <1>4, <1>5 DEF RegisterAgent

LEMMA SwarmDoneKeeps ==
  ASSUME Inv, SwarmDone
  PROVE  Inv'
<1>1. Live /\ run.part = "work" /\ run.stage = 4
  BY AtKnown DEF SwarmDone
<1>2. UnchangedWorld /\ Replaced(objects, objects[1]) /\ objects \in Seq(Department)
  BY HeapKnown DEF SwarmDone, Own, Inv
<1>3. /\ Follows(deployment', run') /\ Live' /\ run' \in RunType /\ deployment' \in Deployment
      /\ run'.stage = run.stage /\ run'.part = (IF run.err THEN "fail" ELSE "complete")
      /\ run'.tried = run.tried /\ run'.err = run.err
  BY <1>1, GoesFollows DEF SwarmDone, SwarmFailed
<1>4. ASSUME objects'[1] = objects[1], objects'[stored'] = objects[1]
      PROVE  WorkFollows'
  <2>1. Own' = Own /\ objects'[stored'] = Own
    BY <1>4 DEF Own
  <2>2. Past(3)' /\ Past(3) /\ ~Past(5)' /\ (Past(4)' <=> ~run.err)
    BY <1>1, <1>3 DEF Past
  <2>3. Past(4)' => registered = Seats /\ Own.agents = Seats
    BY <1>1, <2>2, RunKnown, HeapKnown, ZenonT(30) DEF WorkFollows, SwarmDone, Department, Inv, Shapes, TypeOK
  <2>4. Provisioned(Own)' /\ Provisioned(objects[stored])'
    BY <1>1, <2>1, <2>2, <2>3, RunKnown DEF Provisioned
  <2> QED
    BY <1>1, <1>2, <1>3, <2>1, <2>2, <2>3, <2>4, RunKnown DEF WorkFollows, UnchangedWorld
<1> QED
  BY <1>1, <1>2, <1>3, <1>4, RunKnown, StoresOwn

LEMMA CompileWorkflowKeeps ==
  ASSUME Inv, CompileWorkflow
  PROVE  Inv'
<1>1. Live /\ run.part = "work" /\ run.stage = 5
  BY AtKnown DEF CompileWorkflow
<1>2. UnchangedOutside /\ UNCHANGED <<stored, registered>>
  BY DEF CompileWorkflow
<1>d. deployment' = deployment
  BY DEF CompileWorkflow
<1>3. /\ Own.workflows \in 0 .. SOPs /\ SOPs \in Nat /\ Own.workflows < SOPs
      /\ compiled = Own.workflows /\ registered \subseteq Seats /\ registered = Seats
  BY <1>1, RunKnown, HeapKnown, DeployAssumption
  DEF Inv, Department, WorkFollows, Past, CompileWorkflow, MoreSOPs, Shapes, TypeOK
<1>4. compiled + 1 \in 0 .. SOPs /\ compiled \in 0 .. SOPs /\ compiled # SOPs
  BY <1>3
<1>5. CASE /\ compiled' = compiled + 1
           /\ objects' = [objects EXCEPT ![1].workflows = @ + 1]
           /\ UNCHANGED run
  <2> DEFINE own == [Own EXCEPT !.workflows = @ + 1]
  <2>1. /\ own \in Department /\ own.agents = Own.agents
        /\ own.status = Own.status /\ own.workflows = Own.workflows + 1
        /\ own.memory = Own.memory
    <3>1. own \in Department
      BY <1>3, HeapKnown, DepartmentTyped DEF Inv
    <3>2. Own \in [status : DepartmentStatus,
                   seats : [Seats -> Seat], agents : SUBSET Seats, workflows : 0 .. SOPs,
                   memory : BOOLEAN, services : {"old", "template"}]
      BY HeapKnown DEF Inv, Department
    <3> QED
      BY <3>1, <3>2
  <2>2. objects' = [objects EXCEPT ![1] = own]
    BY <1>5, HeapKnown DEF Inv, Own, Department
  <2> HIDE DEF own
  <2>3. run' \in RunType /\ deployment' \in Deployment /\ Live' /\ Follows(deployment', run')
    BY <1>1, <1>5, <1>d, RunKnown DEF Live
  <2>4. ASSUME objects'[1] = own, objects'[stored'] \in {own, objects[stored]}
        PROVE  WorkFollows'
    <3>1. Past(4)' /\ Past(4) /\ ~Past(5)' /\ Past(3)' /\ Past(3) /\ ~run.err
      BY <1>1, <1>5, RunKnown DEF Past, WorkFollows
    <3>2. Own' = own
      BY <2>4 DEF Own
    <3>3. Provisioned(Own)'
      BY <1>1, <2>1, <3>1, <3>2, RunKnown DEF Provisioned
    <3>4. ASSUME NotSynced' PROVE Provisioned(objects[stored])'
      <4>1. CASE objects'[stored'] = own
        BY <3>2, <3>3, <4>1
      <4>2. CASE objects'[stored'] = objects[stored]
        BY <1>1, <3>1, <3>4, <4>2, RunKnown DEF Provisioned, NotSynced, WorkFollows
      <4> QED BY <2>4, <4>1, <4>2
    <3>5. run.tried \subseteq registered' \cap Own'.agents
      BY <1>1, <1>2, <2>1, <3>1, <3>2, RunKnown DEF WorkFollows
    <3>6. compiled' = Own'.workflows
      BY <1>3, <1>5, <2>1, <3>2
    <3> QED
      BY <1>2, <1>3, <1>5, <3>1, <3>3, <3>4, <3>5, <3>6 DEF WorkFollows
  <2>5. NoMemory(own)
    BY <1>1, <2>1, RunKnown, HeapKnown DEF NoMemory, Own, Inv
  <2> QED
    BY <1>1, <1>2, <1>3, <1>4, <1>5, <2>1, <2>2, <2>3, <2>4, <2>5, ChangesOwn
<1>6. CASE compiled' \in {compiled, compiled + 1} /\ Goes("fail") /\ UNCHANGED objects
  <2>1. /\ Follows(deployment', run') /\ Live' /\ run' \in RunType /\ deployment' \in Deployment
        /\ run'.stage = run.stage /\ run'.part = "fail"
        /\ run'.tried = run.tried /\ run'.err = run.err
    BY <1>1, <1>6, <1>d, GoesFollows
  <2>2. compiled' \in 0 .. SOPs
    BY <1>4, <1>6
  <2>3. Shapes'
    BY <1>2, <1>3, <1>6, <2>1, <2>2, HeapKnown, ShapesKept DEF Inv
  <2>4. WorkFollows'
    <3>1. Past(4)' /\ Past(4) /\ ~Past(5)' /\ Past(3)' /\ Past(3) /\ ~run.err
      BY <1>1, <2>1, RunKnown DEF Past, WorkFollows
    <3>2. Own' = Own /\ objects'[stored'] = objects[stored]
      BY <1>2, <1>6 DEF Own
    <3> QED
      BY <1>1, <1>2, <1>3, <2>1, <3>1, <3>2, RunKnown DEF WorkFollows, Provisioned, NotSynced
  <2> QED
    BY <1>1, <1>2, <1>4, <1>6, <2>1, <2>3, <2>4, RunKnown, LiveStep
<1> QED
  BY <1>5, <1>6 DEF CompileWorkflow

LEMMA WorkflowsDoneKeeps ==
  ASSUME Inv, WorkflowsDone
  PROVE  Inv'
<1>1. Live /\ run.part = "work" /\ run.stage = 5
  BY AtKnown DEF WorkflowsDone
<1>2. UnchangedWorld /\ Replaced(objects, objects[1]) /\ objects \in Seq(Department)
  BY HeapKnown DEF WorkflowsDone, Own, Inv
<1>3. /\ Follows(deployment', run') /\ Live' /\ run' \in RunType /\ deployment' \in Deployment
      /\ run'.stage = run.stage /\ run'.part = "complete"
      /\ run'.tried = run.tried /\ run'.err = run.err
  BY <1>1, GoesFollows DEF WorkflowsDone
<1>4. Own.workflows = SOPs
  BY HeapKnown, DeployAssumption DEF Inv, Department, WorkflowsDone, MoreSOPs
<1>5. ASSUME objects'[1] = objects[1], objects'[stored'] = objects[1]
      PROVE  WorkFollows'
  <2>1. Own' = Own /\ objects'[stored'] = Own
    BY <1>5 DEF Own
  <2>2. Past(3) /\ Past(4) /\ Past(4)' /\ Past(5)' /\ ~run.err
    BY <1>1, <1>3, RunKnown DEF Past, WorkFollows
  <2>3. Provisioned(Own)' /\ Provisioned(objects[stored])'
    BY <1>1, <1>4, <2>1, <2>2, RunKnown DEF Provisioned
  <2> QED
    BY <1>1, <1>2, <1>3, <1>4, <2>1, <2>2, <2>3, RunKnown DEF WorkFollows, UnchangedWorld
<1> QED
  BY <1>1, <1>2, <1>3, <1>5, RunKnown, StoresOwn

LEMMA OperationalDeploymentKeeps ==
  ASSUME Inv, OperationalDeployment
  PROVE  Inv'
<1>1. Live /\ run.part = "begin" /\ run.stage = Len(Stages) + 1
  BY DEF OperationalDeployment, Live
<1>2. /\ run' \in RunType /\ run'.stage = run.stage /\ run'.part = "open"
      /\ run'.tried = run.tried /\ run'.err = run.err
  BY <1>1, GoesTyped DEF OperationalDeployment
<1>3. /\ deployment' = [deployment EXCEPT !.status = "operational"]
      /\ UNCHANGED <<objects, stored>> /\ UnchangedWorld
  BY DEF OperationalDeployment
<1>4. /\ deployment' \in Deployment /\ deployment'.status = "operational"
      /\ deployment'.stage = deployment.stage
  BY <1>1, <1>3, StatusWritten DEF Ended
<1>5. Follows(deployment', run')
  BY <1>1, <1>2, <1>4, RunKnown DEF Follows, Shown, StatusOf
<1> QED
  BY <1>1, <1>2, <1>3, <1>4, <1>5, WritesRecord

\* The last step of the run.
LEMMA EndStep ==
  ASSUME Inv, Live, NEW s \in {"operational", "degraded"}, UpdateStatus(s),
         Goes("over"), UNCHANGED deployment, UnchangedWorld,
         deployment.status = IF s = "operational" THEN "operational" ELSE "failed",
         s = "operational" => run.part = "open"
  PROVE  Inv'
<1>1. /\ objects' \in Seq(Department) /\ Len(objects') = Len(objects) /\ stored' = stored
      /\ objects'[stored] = [objects[stored] EXCEPT !.status = s]
      /\ \A k \in 1 .. Len(objects) : k # stored => objects'[k] = objects[k]
  BY UpdatedHeap DEF Inv, DepartmentStatus
<1>2. run' \in RunType /\ run'.part = "over" /\ ~Live'
  BY GoesTyped DEF Live
<1>3. Shapes'
  <2>1. Shapes /\ registered' \subseteq Seats /\ compiled' \in 0 .. SOPs /\ UnchangedOutside
    BY DEF Inv, UnchangedWorld, Shapes, TypeOK
  <2>2. deployment' \in Deployment
    BY RunKnown
  <2>3. Len(objects') >= Len(objects) /\ stored' \in 1 .. Len(objects')
    BY <1>1, <2>1, HeapKnown
  <2> QED
    BY <1>1, <1>2, <2>1, <2>2, <2>3, ShapesKept
<1>4. /\ objects'[stored].status = s /\ objects'[stored].services = objects[stored].services
      /\ objects'[stored].memory = objects[stored].memory
      /\ objects'[stored].agents = objects[stored].agents
      /\ objects'[stored].workflows = objects[stored].workflows
  BY <1>1, HeapKnown DEF Inv, Department
<1>5. Whole(objects'[stored'])
  <2>1. ASSUME s = "operational", NotSynced
        PROVE  /\ objects[stored].agents = Seats /\ objects[stored].workflows = SOPs
               /\ objects[stored].memory = HasMemory
    <3>1. run.stage = Len(Stages) + 1
      BY <2>1, RunKnown DEF Follows
    <3>2. Past(3) /\ Past(4) /\ (SOPs > 0 => Past(5))
      BY <3>1, StagesAre DEF Past
    <3>3. SOPs = 0 => objects[stored].workflows = SOPs
      BY HeapKnown DEF Inv, Department
    <3>4. SOPs > 0 \/ SOPs = 0
      BY DeployAssumption
    <3> QED
      BY <2>1, <3>2, <3>3, <3>4, RunKnown DEF WorkFollows, Provisioned
  <2> QED
    BY <1>1, <1>4, <2>1 DEF Whole, NotSynced
<1>6. NotYet'
  BY <1>1, <1>2, <1>4, HeapKnown DEF Inv, NotYet, NoMemory, UnchangedWorld, UnchangedOutside
<1>7. OutcomeShown'
  BY <1>1, <1>4 DEF OutcomeShown
<1>8. /\ Tells(deployment', registered', compiled')
      /\ Tells(saved'.deployment, registered', compiled')
      /\ Whole(saved'.department)
  BY DEF Inv, UnchangedWorld, UnchangedOutside
<1> QED
  BY <1>2, <1>3, <1>5, <1>6, <1>7, <1>8 DEF Inv, RecordFollows, WorkFollows

LEMMA EndsKeep ==
  ASSUME Inv, Degrade \/ OperationalDepartment
  PROVE  Inv'
<1>1. CASE Degrade
  <2>1. Live /\ run.part = "degrade"
    BY <1>1 DEF Degrade, Live
  <2>2. deployment.status = "failed"
    BY <2>1, RunKnown DEF Follows, StatusOf
  <2> QED
    BY <1>1, <2>1, <2>2, EndStep DEF Degrade
<1>2. CASE OperationalDepartment
  <2>1. Live /\ run.part = "open"
    BY <1>2 DEF OperationalDepartment, Live
  <2>2. deployment.status = "operational"
    BY <2>1, RunKnown DEF Follows, StatusOf
  <2> QED
    BY <1>2, <2>1, <2>2, EndStep DEF OperationalDepartment
<1> QED
  BY <1>1, <1>2

-----------------------------------------------------------------------------
(* Administrators. *)

EditRecords == [kind : Edits \cup {"seated", "synced"}, of : Nat, read : Department]

\* Nothing that was made is unmade.
SameWork(new, old) ==
  new.agents = old.agents /\ new.workflows = old.workflows /\ new.memory = old.memory

\* The departments that an edit can start from.
Known == {objects[i] : i \in 1 .. Len(objects)}
           \cup {edit[a].read : a \in {b \in Admins : edit[b] # NoEdit}}

\* A department that an edit has made of one of them.
Comes(department) ==
  \E old \in Known :
    /\ department.memory = old.memory
    /\ department.status \in {old.status, "archived", "patched"}

EditsKept ==
  /\ edit' \in [Admins -> {NoEdit} \cup EditRecords]
  /\ \A a \in Admins : edit'[a] # NoEdit =>
       edit'[a].of \in 1 .. Len(objects) /\ edit'[a].read \in Known

\* What every step of an administrator does.
EditDoes ==
  /\ UnchangedRun /\ edits' \in 0 .. MaxEdits /\ EditsKept
  /\ objects' \in Seq(Department) /\ Len(objects') >= Len(objects)
  /\ stored' \in 1 .. Len(objects')
  /\ \A i \in 1 .. Len(objects') : Comes(objects'[i])
  /\ SameWork(objects'[1], objects[1])
  /\ NotSynced' =>
       /\ NotSynced /\ SameWork(objects'[stored'], objects[stored])
       /\ objects'[stored'].status \in {objects[stored].status, "archived", "patched"}

\* What is known of the objects when an administrator acts.
LEMMA EditKnown ==
  ASSUME Inv
  PROVE  /\ \A d \in Known : NoMemory(d) /\ (Live => d.status # "operational")
         /\ \A i \in 1 .. Len(objects) : objects[i] \in Known /\ Comes(objects[i])
         /\ \A a \in Admins : edit[a] # NoEdit =>
              /\ edit[a].of \in 1 .. Len(objects) /\ edit[a].read \in Department
              /\ edit[a].read \in Known
         /\ edits \in 0 .. MaxEdits
         /\ edit \in [Admins -> {NoEdit} \cup EditRecords]
<1>1. \A i \in 1 .. Len(objects) : objects[i] \in Known
  BY DEF Known
<1>2. \A a \in Admins : edit[a] # NoEdit => edit[a].read \in Known
  BY DEF Known
<1>3. ASSUME NEW d \in Known
      PROVE  NoMemory(d) /\ (Live => d.status # "operational")
  BY DEF Inv, NotYet, Known
<1>4. /\ edits \in 0 .. MaxEdits
      /\ edit \in [Admins -> {NoEdit} \cup EditRecords]
      /\ \A a \in Admins : edit[a] # NoEdit => edit[a].of \in 1 .. Len(objects)
  BY DEF Inv, Shapes, TypeOK, EditRecords
<1>5. \A a \in Admins : edit[a] # NoEdit => edit[a].read \in Department
  BY <1>4 DEF EditRecords
<1> QED
  BY <1>1, <1>2, <1>3, <1>4, <1>5 DEF Comes

LEMMA EditKeeps ==
  ASSUME Inv, EditDoes
  PROVE  Inv'
<1>1. \A a \in Admins : edit'[a] # NoEdit =>
            /\ edit'[a].of \in 1 .. Len(objects') /\ NoMemory(edit'[a].read)
            /\ Live => edit'[a].read.status # "operational"
  <2>1. Len(objects) \in Nat /\ Len(objects') \in Nat /\ Len(objects') >= Len(objects)
    BY HeapKnown DEF EditDoes, Inv
  <2>2. \A i \in 1 .. Len(objects) : i \in 1 .. Len(objects')
    BY <2>1
  <2> QED BY <2>2, EditKnown DEF EditDoes, EditsKept
<1>2. \A i \in 1 .. Len(objects') :
            NoMemory(objects'[i]) /\ (Live => objects'[i].status # "operational")
  BY EditKnown DEF EditDoes, Comes, NoMemory
<1>3. Shapes'
  <2>1. edit' \in [Admins -> {NoEdit} \cup EditRecords]
    BY DEF EditDoes, EditsKept
  <2>2. \A a \in Admins : edit'[a] = NoEdit \/
          edit'[a] \in [kind : Edits \cup {"seated", "synced"}, of : 1 .. Len(objects'), read : Department]
    BY <1>1, <2>1 DEF EditRecords
  <2>3. objects' \in Seq(Department) /\ \A i \in 1 .. Len(objects') : objects'[i] \in Department
    BY DEF EditDoes
  <2>4. TypeOK'
    BY <2>2, <2>3 DEF TypeOK, EditDoes, UnchangedRun, Inv, Shapes
  <2> QED
    BY <1>1, <2>1, <2>3, <2>4 DEF Shapes, EditRecords
<1>4. (Live' <=> Live) /\ UnchangedRun
  BY DEF Live, EditDoes, UnchangedRun
<1>5. NotYet'
  BY <1>1, <1>2, <1>4 DEF NotYet, Inv, UnchangedRun, NoMemory
<1>6. WorkFollows'
  <2>1. ASSUME Live PROVE WorkFollows
    BY <2>1 DEF Inv
  <2>2. /\ Past(3)' <=> Past(3)
        /\ Past(4)' <=> Past(4)
        /\ Past(5)' <=> Past(5)
    BY <1>4 DEF Past, UnchangedRun
  <2>3. SameWork(Own', Own)
    BY DEF Own, EditDoes
  <2>4. ASSUME Live PROVE Provisioned(Own)'
    BY <2>2, <2>3, <2>4, RunKnown DEF Provisioned, SameWork
  <2>5. ASSUME Live, NotSynced' PROVE Provisioned(objects[stored])'
    BY <2>1, <2>2, <2>5 DEF Provisioned, SameWork, WorkFollows, EditDoes
  <2> QED
    BY <1>4, <2>1, <2>2, <2>3, <2>4, <2>5 DEF WorkFollows, SameWork, UnchangedRun
<1>7. Whole(objects'[stored'])
  BY DEF Inv, Whole, NotSynced, SameWork, EditDoes
<1>8. OutcomeShown'
  BY DEF Inv, OutcomeShown, UnchangedRun, EditDoes
<1>9. /\ Tells(deployment', registered', compiled')
      /\ Tells(saved'.deployment, registered', compiled')
      /\ Whole(saved'.department) /\ RecordFollows'
  BY <1>4 DEF Inv, UnchangedRun, RecordFollows
<1> QED
  BY <1>3, <1>5, <1>6, <1>7, <1>8, <1>9 DEF Inv

\* An edit that goes on, or is over.
LEMMA EditGoes ==
  ASSUME Inv, NEW a \in Admins, edit[a] # NoEdit,
         Done(a) \/ \E kind \in {"seated", "synced"} : Wrote(a, kind)
  PROVE  EditsKept
<1>1. CASE Done(a)
  <2>1. \A b \in Admins : edit'[b] = IF b = a THEN NoEdit ELSE edit[b]
    BY <1>1, EditKnown DEF Done
  <2>2. edit' \in [Admins -> {NoEdit} \cup EditRecords]
    BY <1>1, EditKnown DEF Done
  <2> QED BY <2>1, <2>2, EditKnown DEF EditsKept
<1>2. ASSUME NEW kind \in {"seated", "synced"}, Wrote(a, kind)
      PROVE  EditsKept
  <2> DEFINE new == [edit[a] EXCEPT !.kind = kind]
  <2>1. edit[a] \in EditRecords
    BY EditKnown
  <2>2. new \in EditRecords /\ new.of = edit[a].of /\ new.read = edit[a].read
    BY <2>1 DEF EditRecords
  <2>3. edit' = [edit EXCEPT ![a] = new]
    BY <1>2 DEF Wrote
  <2> HIDE DEF new
  <2>4. \A b \in Admins : edit'[b] = IF b = a THEN new ELSE edit[b]
    BY <2>3, EditKnown
  <2>5. edit' \in [Admins -> {NoEdit} \cup EditRecords]
    BY <2>2, <2>3, EditKnown
  <2> QED BY <2>2, <2>4, <2>5, EditKnown DEF EditsKept
<1> QED
  BY <1>1, <1>2

\* A department that an administrator changes in its place.
LEMMA ChangedInPlace ==
  ASSUME Inv, NEW of \in 1 .. Len(objects), NEW d \in Department,
         objects' = [objects EXCEPT ![of] = d],
         SameWork(d, objects[of]), d.services = "old" => objects[of].services = "old",
         d.status \in {objects[of].status, "archived", "patched"},
         UNCHANGED <<stored, edits>>, UnchangedRun, EditsKept
  PROVE  EditDoes
<1>1. /\ objects' \in Seq(Department) /\ Len(objects') = Len(objects) /\ objects'[of] = d
      /\ \A k \in 1 .. Len(objects) : k # of => objects'[k] = objects[k]
  BY HeapKnown, SeqExcept DEF Inv
<1>2. Comes(d)
  BY EditKnown DEF Comes, SameWork
<1>3. \A i \in 1 .. Len(objects') : Comes(objects'[i])
  BY <1>1, <1>2, EditKnown
<1>4. \A i \in 1 .. Len(objects) :
        /\ SameWork(objects'[i], objects[i])
        /\ objects'[i].status \in {objects[i].status, "archived", "patched"}
        /\ objects'[i].services = "old" => objects[i].services = "old"
  BY <1>1 DEF SameWork
<1>5. /\ Len(objects') >= Len(objects) /\ stored' \in 1 .. Len(objects') /\ stored' = stored
      /\ 1 \in 1 .. Len(objects) /\ stored \in 1 .. Len(objects) /\ edits' \in 0 .. MaxEdits
  BY <1>1, HeapKnown, EditKnown DEF Inv
<1> QED
  BY <1>1, <1>3, <1>4, <1>5 DEF EditDoes, NotSynced

LEMMA ReadDoes ==
  ASSUME Inv, NEW a \in Admins, NEW kind, Read(a, kind)
  PROVE  EditDoes
<1> DEFINE new == [kind |-> kind, of |-> stored, read |-> objects[stored]]
<1>1. new \in EditRecords /\ new.of = stored /\ new.read = objects[stored]
  BY HeapKnown DEF Read, Inv, EditRecords
<1>2. UnchangedRun /\ UNCHANGED <<objects, stored>> /\ edit' = [edit EXCEPT ![a] = new]
  BY DEF Read
<1> HIDE DEF new
<1>3. /\ edit' \in [Admins -> {NoEdit} \cup EditRecords]
      /\ \A b \in Admins : edit'[b] = IF b = a THEN new ELSE edit[b]
  BY <1>1, <1>2, EditKnown
<1>4. EditsKept
  BY <1>1, <1>3, EditKnown, HeapKnown DEF Inv, EditsKept
<1>5. edits' \in 0 .. MaxEdits
  BY EditKnown, DeployAssumption DEF Read
<1> QED
  BY <1>2, <1>4, <1>5, EditKnown, HeapKnown DEF EditDoes, SameWork, NotSynced, Inv

\* A patch, or an archiving, of the stored department.
LEMMA StatusDoes ==
  ASSUME Inv, NEW a \in Admins, Patch(a) \/ Archive(a)
  PROVE  EditDoes
<1>1. PICK s \in {"patched", "archived"} :
        UpdateStatus(s) /\ Done(a) /\ edits' = edits /\ UnchangedRun /\ edit[a] # NoEdit
  BY DEF Patch, Archive, NoEdit
<1> DEFINE d == [objects[stored] EXCEPT !.status = s]
<1>2. d \in Department
  BY HeapKnown, DepartmentTyped DEF Inv, DepartmentStatus
<1>3. d.status = s /\ d.services = objects[stored].services /\ SameWork(d, objects[stored])
  BY HeapKnown DEF Inv, Department, SameWork
<1>4. objects' = [objects EXCEPT ![stored] = d] /\ stored' = stored
  BY <1>1 DEF UpdateStatus
<1> HIDE DEF d
<1> QED
  BY <1>1, <1>2, <1>3, <1>4, HeapKnown, EditGoes, ChangedInPlace DEF Inv

\* A seat, or the whole org chart, that changes in its place.
LEMMA SeatsDo ==
  ASSUME Inv, NEW a \in Admins, NEW of \in 1 .. Len(objects), NEW seats \in [Seats -> Seat],
         objects' = [objects EXCEPT ![of] = [objects[of] EXCEPT !.seats = seats]],
         UNCHANGED <<stored, edits>>, UnchangedRun, EditsKept
  PROVE  EditDoes
<1> DEFINE d == [objects[of] EXCEPT !.seats = seats]
<1>1. d \in Department
  BY HeapKnown, DepartmentTyped DEF Inv
<1>2. d.status = objects[of].status /\ d.services = objects[of].services /\ SameWork(d, objects[of])
  BY HeapKnown DEF Inv, Department, SameWork
<1>3. objects' = [objects EXCEPT ![of] = d]
  OBVIOUS
<1> HIDE DEF d
<1> QED
  BY <1>1, <1>2, <1>3, ChangedInPlace

LEMMA HolderDoes ==
  ASSUME Inv, NEW a \in Admins, NEW s \in Seats,
         SetPositionHolder(a, s, [holder |-> "human", agent |-> FALSE])
  PROVE  EditDoes
<1> DEFINE of == edit[a].of
           seats == [objects[of].seats EXCEPT ![s] = [holder |-> "human", agent |-> FALSE]]
<1>1. edit[a] # NoEdit
  BY DEF SetPositionHolder, NoEdit
<1>2. of \in 1 .. Len(objects)
  BY <1>1, EditKnown
<1>3. seats \in [Seats -> Seat]
  BY <1>2, HeapKnown DEF Inv, Department, Seat
<1>4. objects' = [objects EXCEPT ![of] = [objects[of] EXCEPT !.seats = seats]]
  BY <1>2, HeapKnown DEF SetPositionHolder, Inv, Department
<1>5. UNCHANGED <<stored, edits>> /\ UnchangedRun /\ Wrote(a, "seated")
  BY DEF SetPositionHolder
<1> HIDE DEF seats, of
<1> QED
  BY <1>1, <1>2, <1>3, <1>4, <1>5, EditGoes, SeatsDo

LEMMA OrgChartDoes ==
  ASSUME Inv, NEW a \in Admins, UpdateOrgChart(a)
  PROVE  EditDoes
<1> DEFINE seats == [s \in Seats |-> Decoded(objects[stored].seats[s], objects[edit[a].of].seats[s])]
<1>1. edit[a] # NoEdit
  BY DEF UpdateOrgChart, NoEdit
<1>2. edit[a].of \in 1 .. Len(objects) /\ stored \in 1 .. Len(objects)
  BY <1>1, EditKnown, HeapKnown DEF Inv
<1>3. seats \in [Seats -> Seat]
  <2>1. ASSUME NEW s \in Seats
        PROVE  Decoded(objects[stored].seats[s], objects[edit[a].of].seats[s]) \in Seat
    <3>1. objects[stored].seats[s] \in Seat /\ objects[edit[a].of].seats[s] \in Seat
      BY <1>2, HeapKnown DEF Inv, Department
    <3>2. \A b \in BOOLEAN, c \in BOOLEAN : (b \/ c) \in BOOLEAN
      OBVIOUS
    <3>3. (objects[stored].seats[s].agent \/ objects[edit[a].of].seats[s].agent) \in BOOLEAN
      BY <3>1, <3>2, Zenon DEF Seat
    <3>4. objects[edit[a].of].seats[s].holder \in {"ai_agent", "human", "vacant"}
      BY <3>1 DEF Seat
    <3> QED BY <3>3, <3>4, Zenon DEF Decoded, Seat
  <2> QED BY <2>1
<1>4. objects' = [objects EXCEPT ![stored] = [objects[stored] EXCEPT !.seats = seats]]
  BY <1>2, HeapKnown DEF UpdateOrgChart, Inv, Department
<1>5. UNCHANGED <<stored, edits>> /\ UnchangedRun /\ Done(a)
  BY DEF UpdateOrgChart
<1> HIDE DEF seats
<1> QED
  BY <1>1, <1>2, <1>3, <1>4, <1>5, EditGoes, SeatsDo

LEMMA SyncDoes ==
  ASSUME Inv, NEW a \in Admins, SyncServiceWorkflows(a)
  PROVE  EditDoes
<1> DEFINE of == edit[a].of
           d == [objects[of] EXCEPT !.services = "template"]
<1>1. edit[a] # NoEdit
  BY DEF SyncServiceWorkflows, NoEdit
<1>2. of \in 1 .. Len(objects)
  BY <1>1, EditKnown
<1>3. d \in Department
  BY <1>2, HeapKnown, DepartmentTyped DEF Inv
<1>4. d.status = objects[of].status /\ d.services = "template" /\ SameWork(d, objects[of])
  BY <1>2, HeapKnown DEF Inv, Department, SameWork
<1>5. /\ objects' = [objects EXCEPT ![of] = d]
      /\ UNCHANGED <<stored, edits>> /\ UnchangedRun /\ (Wrote(a, "synced") \/ Done(a))
  BY DEF SyncServiceWorkflows
<1> HIDE DEF d, of
<1> QED
  BY <1>1, <1>2, <1>3, <1>4, <1>5, EditGoes, ChangedInPlace

LEMMA ReplaceSyncedDoes ==
  ASSUME Inv, NEW a \in Admins, ReplaceSynced(a)
  PROVE  EditDoes
<1> DEFINE new == [Copy(a) EXCEPT !.services = "template"]
<1>1. /\ edit[a] # NoEdit /\ UnchangedRun /\ Done(a) /\ edits' = edits /\ Replaced(objects, new)
  BY DEF ReplaceSynced, NoEdit
<1>2. edit[a].of \in 1 .. Len(objects) /\ edit[a].read \in Department /\ edit[a].read \in Known
  BY <1>1, EditKnown
<1>3. /\ new \in Department /\ SameWork(new, edit[a].read)
      /\ new.status = edit[a].read.status /\ new.services = "template"
  <2>1. objects[edit[a].of].seats \in [Seats -> Seat]
    BY <1>2, HeapKnown DEF Inv, Department
  <2>2. Copy(a) \in Department
    BY <1>2, <2>1, DepartmentTyped DEF Copy
  <2>3. SameWork(Copy(a), edit[a].read) /\ Copy(a).status = edit[a].read.status
    BY <1>2 DEF Copy, SameWork, Department
  <2>4. new \in Department
    BY <2>2, DepartmentTyped
  <2>5. SameWork(new, Copy(a)) /\ new.status = Copy(a).status /\ new.services = "template"
    BY <2>2 DEF SameWork, Department
  <2> QED BY <2>3, <2>4, <2>5 DEF SameWork
<1> HIDE DEF new
<1>4. /\ objects' \in Seq(Department) /\ Len(objects') = Len(objects) + 1
      /\ stored' = Len(objects) + 1 /\ objects'[stored'] = new
      /\ \A k \in 1 .. Len(objects) : objects'[k] = objects[k]
  BY <1>1, <1>3, HeapKnown, ReplacedHeap DEF Inv
<1>5. Comes(new)
  BY <1>2, <1>3 DEF Comes, SameWork
<1>6. Len(objects) \in Nat /\ 1 \in 1 .. Len(objects)
  BY HeapKnown DEF Inv
<1>7. \A i \in 1 .. Len(objects') : Comes(objects'[i])
  <2>1. \A i \in 1 .. Len(objects') : i \in 1 .. Len(objects) \/ i = stored'
    BY <1>4, <1>6
  <2> QED BY <1>4, <1>5, <2>1, EditKnown
<1>8. ~NotSynced'
  BY <1>3, <1>4 DEF NotSynced
<1>9. SameWork(objects'[1], objects[1])
  BY <1>4, <1>6 DEF SameWork
<1>10. stored' \in 1 .. Len(objects') /\ Len(objects') >= Len(objects) /\ edits' \in 0 .. MaxEdits
  BY <1>1, <1>4, <1>6, EditKnown
<1> QED
  BY <1>1, <1>4, <1>7, <1>8, <1>9, <1>10, EditGoes DEF EditDoes

LEMMA AdministerDoes ==
  ASSUME Inv, NEW a \in Admins, Administer(a)
  PROVE  EditDoes
BY ReadDoes, StatusDoes, HolderDoes, OrgChartDoes, SyncDoes, ReplaceSyncedDoes DEF Administer

-----------------------------------------------------------------------------
(* Snapshots and restarts. *)

LEMMA SaveFileKeeps ==
  ASSUME Inv, NEW file \in {"deployment", "department"}, SaveFile(file)
  PROVE  Inv'
<1>1. UNCHANGED <<objects, stored, deployment, run, registered, compiled, edit, edits, restarts>>
  BY DEF SaveFile
<1>2. /\ saved' \in [deployment : Deployment, department : Department]
      /\ saved'.deployment \in {saved.deployment, deployment}
      /\ saved'.department \in {saved.department, objects[stored]}
  <2>1. /\ saved \in [deployment : Deployment, department : Department]
        /\ deployment \in Deployment /\ objects[stored] \in Department
    BY HeapKnown DEF Inv, Shapes, TypeOK
  <2>2. CASE file = "deployment"
    <3>1. saved' = [saved EXCEPT !.deployment = deployment]
      BY <2>2 DEF SaveFile
    <3> QED BY <2>1, <3>1
  <2>3. CASE file = "department"
    <3>1. saved' = [saved EXCEPT !.department = objects[stored]]
      BY <2>3 DEF SaveFile
    <3> QED BY <2>1, <3>1
  <2> QED BY <2>2, <2>3
<1>3. Shapes'
  BY <1>1, <1>2 DEF Inv, Shapes, TypeOK
<1>4. Tells(saved'.deployment, registered', compiled') /\ Tells(deployment', registered', compiled')
  BY <1>1, <1>2 DEF Inv
<1>5. Whole(saved'.department) /\ Whole(objects'[stored'])
  BY <1>1, <1>2 DEF Inv
<1>6. NotYet'
  BY <1>1, <1>2, HeapKnown DEF Inv, NotYet, NoMemory, Live
<1>7. RecordFollows' /\ OutcomeShown'
  BY <1>1 DEF Inv, RecordFollows, Live, OutcomeShown, NotSynced
<1>8. WorkFollows'
  BY <1>1 DEF Inv, WorkFollows, Live, Past, Provisioned, NotSynced, Own
<1> QED
  BY <1>3, <1>4, <1>5, <1>6, <1>7, <1>8 DEF Inv

LEMMA RestartKeeps ==
  ASSUME Inv, Restart
  PROVE  Inv'
<1>1. /\ saved.department \in Department /\ saved.deployment \in Deployment /\ run \in RunType
      /\ restarts \in Nat
  BY DEF Inv, Shapes, TypeOK, RunType
<1>2. /\ objects' \in Seq(Department) /\ Len(objects') = 1 /\ stored' = 1
      /\ objects'[1] = saved.department
  BY <1>1 DEF Restart
<1>3. run' \in RunType /\ ~Live'
  <2>1. run' \in RunType /\ run'.part = "over"
    BY <1>1 DEF RunType, Restart
  <2> QED BY <2>1 DEF Live
<1>4. /\ deployment' = saved.deployment /\ saved' = saved /\ registered' = registered
      /\ compiled' = compiled /\ edits' = edits
      /\ edit' = [a \in Admins |-> NoEdit]
      /\ restarts' = restarts + 1 /\ restarts' \in 0 .. MaxRestarts /\ restarts' # 0
  BY <1>1, DeployAssumption DEF Restart
<1>5. Shapes'
  <2>1. ASSUME NEW i \in 1 .. Len(objects')
        PROVE  objects'[i] \in Department
    <3>1. i = 1 BY <1>2
    <3> QED BY <3>1, <1>1, <1>2
  <2>2. TypeOK'
    BY <1>1, <1>2, <1>3, <1>4, <2>1 DEF TypeOK, RunType, Inv, Shapes
  <2>3. /\ edit' \in [Admins -> {NoEdit} \cup [kind : Edits \cup {"seated", "synced"}, of : Nat, read : Department]]
        /\ \A a \in Admins : edit'[a] # NoEdit => edit'[a].of \in 1 .. Len(objects')
    BY <1>4
  <2> QED
    BY <1>2, <2>2, <2>3 DEF Shapes
<1>6. /\ Tells(saved'.deployment, registered', compiled')
      /\ Tells(deployment', registered', compiled')
      /\ Whole(saved'.department) /\ Whole(objects'[stored'])
  BY <1>2, <1>4 DEF Inv
<1>7. NotYet'
  BY <1>2, <1>3, <1>4 DEF Inv, NotYet, NoMemory
<1>8. OutcomeShown'
  BY <1>4 DEF OutcomeShown
<1> QED
  BY <1>3, <1>5, <1>6, <1>7, <1>8 DEF Inv, RecordFollows, WorkFollows

-----------------------------------------------------------------------------
(* The invariant. *)

LEMMA InitGives ==
  ASSUME Init
  PROVE  Inv
<1> DEFINE made == objects[1]
<1>1. /\ objects \in Seq(Department) /\ Len(objects) = 1 /\ stored = 1
      /\ made.status = "provisioning" /\ made.workflows = 0 /\ made.memory = FALSE
      /\ made.agents = {} /\ made \in Department
      /\ saved.department = made
  BY DeployAssumption DEF Init, Department, DepartmentStatus, Seat
<1> HIDE DEF made
<1>2. /\ deployment \in Deployment /\ deployment.status = "select"
      /\ \A i \in 1 .. Len(Stages) : deployment.stage[i] = "none"
      /\ saved.deployment = deployment
  BY DEF Init, Deployment
<1>3. /\ run \in RunType /\ run.stage = 1 /\ run.part = "begin" /\ run.tried = {}
      /\ run.err = FALSE
  BY StagesAre DEF Init, RunType
<1>4. /\ saved \in [deployment : Deployment, department : Department]
      /\ registered = {} /\ compiled = 0 /\ edits = 0 /\ restarts = 0
      /\ edit = [a \in Admins |-> NoEdit]
  <2>1. DOMAIN saved = {"deployment", "department"}
        /\ saved = [deployment |-> saved.deployment, department |-> saved.department]
    BY DEF Init
  <2>2. saved \in [deployment : Deployment, department : Department]
    BY <1>1, <1>2, <2>1
  <2> QED BY <2>2 DEF Init
<1>5. Shapes
  <2>1. ASSUME NEW i \in 1 .. Len(objects)
        PROVE  objects[i] \in Department
    <3>1. i = 1 BY <1>1
    <3>2. objects[1] \in Department BY <1>1 DEF made
    <3> QED BY <3>1, <3>2
  <2>2. TypeOK
    BY <1>1, <1>2, <1>3, <1>4, <2>1, DeployAssumption DEF TypeOK, RunType
  <2> QED
    BY <1>1, <1>4, <2>2 DEF Shapes
<1>6. Tells(deployment, registered, compiled) /\ Tells(saved.deployment, registered, compiled)
  BY <1>2, StagesDiffer DEF Tells
<1>7. RecordFollows
  BY <1>2, <1>3, StagesAre DEF RecordFollows, Follows, Shown, StatusOf
<1>8. NotYet /\ Whole(objects[stored]) /\ Whole(saved.department)
  BY <1>1, <1>4 DEF NotYet, NoMemory, Whole, made
<1>9. WorkFollows
  BY <1>1, <1>3, <1>4 DEF WorkFollows, Past, Provisioned, NotSynced, Own, made
<1>10. OutcomeShown
  BY <1>3 DEF OutcomeShown
<1> QED
  BY <1>5, <1>6, <1>7, <1>8, <1>9, <1>10 DEF Inv

LEMMA StepKeeps ==
  ASSUME Inv, [Next]_vars
  PROVE  Inv'
<1>1. CASE Run
  BY <1>1, BeginKeeps, EnterKeeps, CompleteStageKeeps, FailKeeps, MarkKeeps, EndsKeep,
     ConfigureKeeps, ConnectDataKeeps,
     ProvisionMemoryKeeps, RegisterAgentKeeps, SwarmDoneKeeps, CompileWorkflowKeeps,
     WorkflowsDoneKeeps, OperationalDeploymentKeeps
  DEF Run
<1>2. ASSUME NEW a \in Admins, Administer(a)
      PROVE  Inv'
  BY <1>2, AdministerDoes, EditKeeps
<1>3. ASSUME NEW file \in {"deployment", "department"}, SaveFile(file)
      PROVE  Inv'
  BY <1>3, SaveFileKeeps
<1>4. CASE Restart
  BY <1>4, RestartKeeps
<1>5. CASE UNCHANGED vars
  <2>1. /\ objects' = objects /\ stored' = stored /\ deployment' = deployment /\ run' = run
        /\ registered' = registered /\ compiled' = compiled /\ edit' = edit
        /\ edits' = edits /\ saved' = saved /\ restarts' = restarts
    BY <1>5 DEF vars
  <2>2. Shapes'
    BY <2>1 DEF Inv, Shapes, TypeOK
  <2>3. Tells(deployment', registered', compiled') /\ Tells(saved'.deployment, registered', compiled')
    BY <2>1 DEF Inv
  <2>4. RecordFollows'
    BY <2>1 DEF Inv, RecordFollows, Live
  <2>5. WorkFollows'
    BY <2>1 DEF Inv, WorkFollows, Past, Provisioned, NotSynced, Own, Live
  <2>6. NotYet' /\ OutcomeShown'
    BY <2>1 DEF Inv, NotYet, NoMemory, Live, OutcomeShown, NotSynced
  <2>7. Whole(objects'[stored']) /\ Whole(saved'.department)
    BY <2>1 DEF Inv
  <2> QED
    BY <2>2, <2>3, <2>4, <2>5, <2>6, <2>7 DEF Inv
<1> QED
  BY <1>1, <1>2, <1>3, <1>4, <1>5 DEF Next

\* The inductive invariant of a deployment holds for every org chart, number of
\* workflows, set of administrators and number of edits and restarts.
THEOREM DeployInvariant == Spec => []Inv
<1> QED
  BY InitGives, StepKeeps, PTL DEF Spec

\* Every variable of a deployment keeps its type: also the record restored from
\* one file and the department from another.
THEOREM DeployTypeCorrect == Spec => []TypeOK
<1>1. Inv => TypeOK
  BY DEF Inv, Shapes
<1> QED
  BY <1>1, DeployInvariant, PTL

\* What the deployment record says of its stages and of its status is always
\* true, between any two writes of the run and after any restart.
THEOREM StagesAlwaysTell == Spec => []StagesTell
<1>1. Inv => StagesTell
  BY DEF Inv, Tells, StagesTell
<1> QED
  BY <1>1, DeployInvariant, PTL

\* An unsynced department in operation always has its agents, workflows and
\* memory.
THEOREM OperationalAlwaysWhole == Spec => []OperationalIsWhole
<1>1. Inv => OperationalIsWhole
  BY DEF Inv, Whole, OperationalIsWhole, NotSynced
<1> QED
  BY <1>1, DeployInvariant, PTL

\* A department always shows the outcome of its deployment, or what an
\* administrator made of it.
THEOREM OutcomeAlwaysShown == Spec => []OutcomeShown
<1>1. Inv => OutcomeShown
  BY DEF Inv
<1> QED
  BY <1>1, DeployInvariant, PTL

-----------------------------------------------------------------------------
(* Every deployment ends. *)

\* What a run has not finished is a number, and a stage is worth four.
LEMMA UnfinishedTyped ==
  ASSUME NEW r \in RunType, NEW created \in 0 .. SOPs
  PROVE  /\ Unfinished(r, created) \in Nat
         /\ r.stage <= Len(Stages) => Unfinished(r, created) >= 4
<1>1. /\ r.stage \in 1 .. Len(Stages) + 1 /\ Len(Stages) \in Nat /\ SOPs \in Nat
  BY StagesAre, DeployAssumption DEF RunType
<1>2. PICK rest \in Nat : Cardinality(Seats \ r.tried) = rest
  <2>1. IsFiniteSet(Seats \ r.tried)
    BY DeployAssumption, FS_Subset
  <2> QED
    BY <2>1, FS_CardinalityType
<1>3. Unfinished(r, created) = 4 * (Len(Stages) + 1 - r.stage) + rest + (SOPs - created)
  BY <1>2 DEF Unfinished
<1> QED
  BY <1>1, <1>3

\* The number of steps left at each part of a stage.
LEMMA StepsTyped ==
  ASSUME NEW r \in RunType, NEW created \in 0 .. SOPs
  PROVE  /\ r.part = "begin" => StepsLeft(r, created) = Unfinished(r, created) + 3
         /\ r.part = "enter" => StepsLeft(r, created) = Unfinished(r, created) + 2
         /\ r.part = "work" => StepsLeft(r, created) = Unfinished(r, created) + 1
         /\ r.part = "complete" => StepsLeft(r, created) = Unfinished(r, created)
         /\ r.part = "fail" => StepsLeft(r, created) = 3
         /\ r.part = "mark" => StepsLeft(r, created) = 2
         /\ r.part \in {"degrade", "open"} => StepsLeft(r, created) = 1
         /\ r.part = "over" => StepsLeft(r, created) = 0
         /\ StepsLeft(r, created) \in Nat
<1>1. r.part \in {"begin", "enter", "work", "complete", "fail", "mark", "degrade", "open", "over"}
  BY DEF RunType
<1>2. Unfinished(r, created) \in Nat
  BY UnfinishedTyped
<1> QED
  BY <1>1, <1>2 DEF StepsLeft

\* A run that leaves a stage, or goes on within it, with the same agents tried
\* and the same workflows created.
LEMMA PartDescends ==
  ASSUME NEW r \in RunType, NEW q \in RunType, NEW created \in 0 .. SOPs, q.tried = r.tried,
         \/ r.part = "begin" /\ q.part = "enter" /\ q.stage = r.stage
         \/ r.part = "enter" /\ q.part = "work" /\ q.stage = r.stage
         \/ r.part = "work" /\ q.part = "complete" /\ q.stage = r.stage
         \/ r.part = "complete" /\ q.part = "begin" /\ q.stage = r.stage + 1
         \/ r.part = "begin" /\ q.part = "open"
         \/ r.part = "fail" /\ q.part = "mark"
         \/ r.part = "mark" /\ q.part = "degrade"
         \/ r.part \in {"degrade", "open"} /\ q.part = "over"
  PROVE  StepsLeft(q, created) < StepsLeft(r, created)
<1>1. Unfinished(r, created) \in Nat /\ Unfinished(q, created) \in Nat
  BY UnfinishedTyped
<1>2. q.stage = r.stage => Unfinished(q, created) = Unfinished(r, created)
  BY DEF Unfinished
<1>3. ASSUME q.stage = r.stage + 1 PROVE Unfinished(q, created) = Unfinished(r, created) - 4
  <2>1. r.stage \in Nat /\ Len(Stages) \in Nat /\ created \in Nat /\ SOPs \in Nat
    BY StagesAre, DeployAssumption DEF RunType
  <2>2. PICK rest \in Nat : Cardinality(Seats \ r.tried) = rest
    <3>1. IsFiniteSet(Seats \ r.tried)
      BY DeployAssumption, FS_Subset
    <3> QED
      BY <3>1, FS_CardinalityType
  <2>3. /\ Unfinished(r, created) = 4 * (Len(Stages) + 1 - r.stage) + rest + (SOPs - created)
        /\ Unfinished(q, created) = 4 * (Len(Stages) + 1 - (r.stage + 1)) + rest + (SOPs - created)
    BY <1>3, <2>2 DEF Unfinished
  <2> QED
    BY <2>1, <2>3
<1> QED
  BY <1>1, <1>2, <1>3, StepsTyped

\* A run that fails has only to show it.
LEMMA FailDescends ==
  ASSUME NEW r \in RunType, NEW q \in RunType, NEW created \in 0 .. SOPs, NEW next \in 0 .. SOPs,
         r.part = "work", q.part = "fail", r.stage <= Len(Stages)
  PROVE  StepsLeft(q, next) < StepsLeft(r, created)
<1>1. StepsLeft(q, next) = 3
  BY StepsTyped
<1>2. StepsLeft(r, created) = Unfinished(r, created) + 1
  BY StepsTyped
<1>3. Unfinished(r, created) \in Nat /\ Unfinished(r, created) >= 4
  BY UnfinishedTyped
<1> QED
  BY <1>1, <1>2, <1>3

\* An agent that was tried, and a workflow that was created.
LEMMA WorkDescends ==
  ASSUME NEW r \in RunType, NEW q \in RunType, NEW created \in 0 .. SOPs, NEW next \in 0 .. SOPs,
         r.part = "work", q.part = "work", q.stage = r.stage,
         \/ next = created /\ \E s \in Seats \ r.tried : q.tried = r.tried \cup {s}
         \/ next = created + 1 /\ q.tried = r.tried
  PROVE  StepsLeft(q, next) < StepsLeft(r, created)
<1>1. r.stage \in Nat /\ Len(Stages) \in Nat /\ created \in Nat /\ next \in Nat /\ SOPs \in Nat
  BY StagesAre, DeployAssumption DEF RunType
<1>2. IsFiniteSet(Seats \ r.tried)
  BY DeployAssumption, FS_Subset
<1>3. PICK rest \in Nat : Cardinality(Seats \ r.tried) = rest
  BY <1>2, FS_CardinalityType
<1>4. PICK stages \in Int : stages = 4 * (Len(Stages) + 1 - r.stage)
  BY <1>1
<1>5. Unfinished(r, created) = stages + rest + (SOPs - created)
  BY <1>3, <1>4 DEF Unfinished
<1>6. ASSUME next = created + 1, q.tried = r.tried
      PROVE  Unfinished(q, next) = Unfinished(r, created) - 1
  <2>1. Unfinished(q, next) = stages + rest + (SOPs - (created + 1))
    BY <1>3, <1>4, <1>6 DEF Unfinished
  <2> QED
    BY <1>1, <1>5, <2>1
<1>7. ASSUME next = created, NEW s \in Seats \ r.tried, q.tried = r.tried \cup {s}
      PROVE  Unfinished(q, next) = Unfinished(r, created) - 1
  <2> DEFINE left == Seats \ r.tried
  <2>1. Seats \ q.tried = left \ {s} /\ s \in left /\ IsFiniteSet(left)
    BY <1>2, <1>7
  <2> HIDE DEF left
  <2>2. Cardinality(left \ {s}) = Cardinality(left) - 1
    BY <2>1, FS_RemoveElement
  <2>3. PICK less \in Int : less = rest - 1
    OBVIOUS
  <2>4. Cardinality(Seats \ q.tried) = less
    BY <1>3, <2>1, <2>2, <2>3 DEF left
  <2>5. Unfinished(q, next) = stages + less + (SOPs - created)
    BY <1>4, <1>7, <2>4 DEF Unfinished
  <2> QED
    BY <1>1, <1>5, <2>3, <2>5
<1>8. Unfinished(r, created) \in Nat
  BY UnfinishedTyped
<1> QED
  BY <1>6, <1>7, <1>8, StepsTyped

\* Each step of the run takes one of the steps left.
LEMMA RunStepDescends ==
  ASSUME Inv, Run
  PROVE  StepsLeft(run', compiled') < StepsLeft(run, compiled)
<1> DEFINE Goal == StepsLeft(run', compiled') < StepsLeft(run, compiled)
<1>r. /\ run \in RunType /\ compiled \in 0 .. SOPs /\ Len(Stages) \in Nat
      /\ run.stage \in 1 .. Len(Stages) + 1
  BY StagesAre DEF Inv, Shapes, TypeOK, RunType
<1>1. ASSUME NEW part, Goes(part),
             part \in {"enter", "work", "complete", "fail", "mark", "degrade", "open", "over"}
      PROVE  /\ run' \in RunType /\ run'.part = part /\ run'.stage = run.stage
             /\ run'.tried = run.tried
  BY <1>r, <1>1 DEF RunType, Goes
<1>2. ASSUME run.part = "work", Goes("complete"), UNCHANGED compiled PROVE Goal
  BY <1>r, <1>1, <1>2, PartDescends
<1>3. ASSUME run.part = "work", run.stage <= Len(Stages), Goes("fail") PROVE Goal
  <2>1. run' \in RunType /\ run'.part = "fail"
    BY <1>1, <1>3
  <2>2. compiled' \in 0 .. SOPs
    BY StepKeeps DEF Inv, Shapes, TypeOK, Next
  <2> QED
    BY <1>r, <1>3, <2>1, <2>2, FailDescends
<1>4. ASSUME Begin \/ Enter PROVE Goal
  BY <1>r, <1>1, <1>4, PartDescends DEF Begin, Enter, UnchangedWorld
<1>5. ASSUME CompleteStage PROVE Goal
  <2>1. /\ run.part = "complete" /\ run.stage <= Len(Stages)
        /\ run' = [run EXCEPT !.stage = @ + 1, !.part = "begin"] /\ UNCHANGED compiled
    BY <1>5, RunKnown DEF CompleteStage, Live, Follows, UnchangedWorld
  <2>2. run.stage + 1 \in 1 .. Len(Stages) + 1
    BY <1>r, <2>1
  <2>3. /\ run' \in RunType /\ run'.part = "begin" /\ run'.stage = run.stage + 1
        /\ run'.tried = run.tried
    BY <1>r, <2>1, <2>2 DEF RunType
  <2> QED
    BY <1>r, <2>1, <2>3, PartDescends
<1>6. ASSUME Fail \/ Mark \/ Degrade \/ OperationalDepartment PROVE Goal
  BY <1>r, <1>1, <1>6, PartDescends DEF Fail, Mark, Degrade, OperationalDepartment, UnchangedWorld
<1>7. ASSUME OperationalDeployment PROVE Goal
  BY <1>r, <1>1, <1>7, PartDescends DEF OperationalDeployment, UnchangedWorld
<1>8. ASSUME Configure \/ ConnectData \/ ProvisionMemory \/ SwarmDone \/ WorkflowsDone
      PROVE  Goal
  <2>1. run.part = "work" /\ run.stage <= Len(Stages) /\ UNCHANGED compiled
    BY <1>8 DEF Configure, ConnectData, ProvisionMemory, SwarmDone, WorkflowsDone, At,
                UnchangedWorld
  <2>2. Goes("complete") \/ Goes("fail")
    BY <1>8 DEF Configure, ConnectData, ProvisionMemory, SwarmDone, WorkflowsDone
  <2> QED
    BY <1>2, <1>3, <2>1, <2>2
<1>9. ASSUME NEW s \in Seats, RegisterAgent(s) PROVE Goal
  <2>1. run.part = "work" /\ s \notin run.tried /\ UNCHANGED compiled
    BY <1>9 DEF RegisterAgent, At
  <2>2. /\ run' \in RunType /\ run'.part = "work" /\ run'.stage = run.stage
        /\ run'.tried = run.tried \cup {s}
    <3>1. \/ run' = [run EXCEPT !.tried = @ \cup {s}]
          \/ run' = [run EXCEPT !.tried = @ \cup {s}, !.err = TRUE]
      BY <1>9 DEF RegisterAgent
    <3> QED
      BY <1>r, <2>1, <3>1, ZenonT(30) DEF RunType
  <2> QED
    BY <1>r, <2>1, <2>2, WorkDescends
<1>10. ASSUME CompileWorkflow PROVE Goal
  <2>1. run.part = "work" /\ run.stage <= Len(Stages) /\ Live
    BY <1>10 DEF CompileWorkflow, At, Live
  <2>2. CASE UNCHANGED run /\ compiled' = compiled + 1
    <3>1. compiled < SOPs /\ SOPs \in Nat
      BY <1>10, <2>1, DeployAssumption DEF CompileWorkflow, MoreSOPs, Inv, WorkFollows
    <3>2. compiled' \in 0 .. SOPs
      BY <1>r, <2>2, <3>1
    <3> QED
      BY <1>r, <2>1, <2>2, <3>1, <3>2, WorkDescends
  <2>3. CASE Goes("fail")
    BY <1>3, <2>1, <2>3
  <2> QED
    BY <1>10, <2>2, <2>3 DEF CompileWorkflow
<1> HIDE DEF Goal
<1>11. Goal
  BY <1>4, <1>5, <1>6, <1>7, <1>8, <1>9, <1>10 DEF Run
<1> QED
  BY <1>11 DEF Goal

\* A deployment ends after a number of its own steps that is fixed when it
\* starts, whatever the administrators do meanwhile; a restart ends it at once.
THEOREM DeploymentsAlwaysDescend == Spec => RunDescends
<1>1. ASSUME Inv, [Next]_vars
      PROVE  /\ Run => StepsLeft(run', compiled') < StepsLeft(run, compiled)
             /\ StepsLeft(run', compiled') <= StepsLeft(run, compiled)
  <2>1. /\ run \in RunType /\ compiled \in 0 .. SOPs
        /\ run' \in RunType /\ compiled' \in 0 .. SOPs
    BY <1>1, StepKeeps DEF Inv, Shapes, TypeOK, RunType
  <2>2. StepsLeft(run, compiled) \in Nat /\ StepsLeft(run', compiled') \in Nat
    BY <2>1, StepsTyped
  <2>3. CASE Run
    BY <1>1, <2>2, <2>3, RunStepDescends
  <2>4. CASE ~Run /\ UNCHANGED <<run, compiled>>
    BY <2>2, <2>4
  <2>5. CASE ~Run /\ Restart
    <3>1. run'.part = "over"
      BY <2>1, <2>5 DEF Restart, RunType
    <3>2. StepsLeft(run', compiled') = 0
      BY <2>1, <3>1, StepsTyped
    <3> QED
      BY <2>2, <2>5, <3>2
  <2>6. Run \/ UNCHANGED <<run, compiled>> \/ Restart
    <3>1. ASSUME NEW a \in Admins, Administer(a) PROVE UNCHANGED <<run, compiled>>
      BY <1>1, <3>1, AdministerDoes DEF EditDoes, UnchangedRun
    <3> QED BY <1>1, <3>1 DEF Next, vars, SaveFile
  <2> QED
    BY <2>3, <2>4, <2>5, <2>6
<1>2. Inv /\ [Next]_vars =>
        [/\ Run => StepsLeft(run', compiled') < StepsLeft(run, compiled)
         /\ StepsLeft(run', compiled') <= StepsLeft(run, compiled)]_vars
  BY <1>1
<1> QED
  BY <1>2, DeployInvariant, PTL DEF Spec, RunDescends

-----------------------------------------------------------------------------
(* A deployment implements DeployContract. *)

\* The run goes on until it shows its outcome, and does not touch what was saved
\* or is edited.
LEMMA RunIs ==
  ASSUME Inv, Run
  PROVE  /\ Live /\ saved' = saved /\ edit' = edit
         /\ ~Degrade /\ ~OperationalDepartment => Live'
<1>1. run \in RunType /\ run.part # "over"
  BY DEF Inv, Shapes, TypeOK, RunType, Run, Begin, Enter, CompleteStage, Fail, Mark, Degrade,
     Configure, ConnectData, ProvisionMemory, At, RegisterAgent, SwarmDone, CompileWorkflow,
     WorkflowsDone, OperationalDeployment, OperationalDepartment
<1>2. saved' = saved /\ edit' = edit
  BY DEF Run, UnchangedWorld, UnchangedOutside, Begin, Enter, CompleteStage, Fail, Mark, Degrade,
     Configure, ConnectData, ProvisionMemory, RegisterAgent, SwarmDone, CompileWorkflow,
     WorkflowsDone, OperationalDeployment, OperationalDepartment
<1>3. ASSUME ~Degrade, ~OperationalDepartment
      PROVE  run'.part # "over"
  <2>1. CASE Begin \/ Enter \/ CompleteStage \/ Fail \/ Mark \/ OperationalDeployment
    BY <1>1, <2>1 DEF RunType, Begin, Enter, CompleteStage, Fail, Mark, OperationalDeployment, Goes
  <2>2. CASE Configure \/ ConnectData \/ ProvisionMemory \/ SwarmDone \/ WorkflowsDone
    BY <1>1, <2>2
    DEF RunType, Configure, ConnectData, ProvisionMemory, SwarmDone, WorkflowsDone, Goes
  <2>3. CASE CompileWorkflow \/ \E s \in Seats : RegisterAgent(s)
    BY <1>1, <2>3 DEF RunType, CompileWorkflow, RegisterAgent, Goes
  <2> QED
    BY <1>3, <2>1, <2>2, <2>3 DEF Run
<1> QED
  BY <1>1, <1>2, <1>3 DEF Live

\* Nothing that is stored, read or saved is in operation.
Shut ==
  /\ \A i \in 1 .. Len(objects) : objects[i].status # "operational"
  /\ \A a \in Admins : edit[a] # NoEdit => edit[a].read.status # "operational"
  /\ saved.department.status # "operational"

HasFailed == Contract!Failed(deployment) \/ Contract!Failed(saved.deployment)

LEMMA NeverOpensIs ==
  NeverOpens <=> (HasFailed => Shut /\ (Live => run.part \in {"mark", "degrade"}))
BY DEF NeverOpens, HasFailed, Shut

LEMMA NeverOpensInit ==
  ASSUME Init
  PROVE  NeverOpens
<1>1. ~HasFailed
  BY DEF Init, HasFailed, Contract!Failed
<1> QED
  BY <1>1, NeverOpensIs

\* Once the run is over only the stored, the read and the saved departments can
\* be shown again, and none of them was in operation.
LEMMA NeverOpensStep ==
  ASSUME Inv, NeverOpens, [Next]_vars, Inv'
  PROVE  NeverOpens'
<1> DEFINE Goal == Shut' /\ (Live' => run'.part \in {"mark", "degrade"})
<1> SUFFICES ASSUME HasFailed' PROVE Goal
  BY NeverOpensIs DEF NeverOpens, HasFailed, Shut
<1>0. HasFailed => Shut /\ (Live => run.part \in {"mark", "degrade"})
  BY NeverOpensIs
<1>1. (Live => Shut) /\ (Live' => Shut')
  BY DEF Inv, NotYet, Shut, Live
<1>2. ASSUME Run PROVE Goal
  <2>1. Live /\ Shut /\ saved' = saved /\ edit' = edit /\ run \in RunType
    BY <1>1, <1>2, RunIs, RunKnown
  <2>2. ASSUME Live', Contract!Failed(deployment') PROVE run'.part \in {"mark", "degrade"}
    <3>1. PICK i \in 1 .. Len(Stages) : deployment'.stage[i] = "failed"
      BY <2>2 DEF Contract!Failed
    <3>2. Follows(deployment', run')
      BY <2>2 DEF Inv, RecordFollows
    <3> QED BY <3>1, <3>2 DEF Follows, Shown
  <2>3. ASSUME HasFailed PROVE Goal
    <3>1. run.part \in {"mark", "degrade"}
      BY <1>0, <2>1, <2>3
    <3>2. Mark \/ Degrade
      BY <1>2, <3>1
      DEF Run, Begin, Enter, CompleteStage, Fail, Configure, ConnectData, ProvisionMemory, At,
          RegisterAgent, SwarmDone, CompileWorkflow, WorkflowsDone, OperationalDeployment,
          OperationalDepartment
    <3>3. CASE Mark
      BY <2>1, <3>3 DEF Mark, Goes, RunType, Shut
    <3>4. CASE Degrade
      <4>1. /\ Len(objects') = Len(objects)
            /\ objects'[stored] = [objects[stored] EXCEPT !.status = "degraded"]
            /\ \A k \in 1 .. Len(objects) : k # stored => objects'[k] = objects[k]
        BY <3>4, UpdatedHeap DEF Degrade, Inv, DepartmentStatus
      <4>2. objects'[stored].status = "degraded"
        BY <4>1, HeapKnown DEF Inv, Department
      <4>3. ~Live'
        BY <2>1, <3>4 DEF Degrade, Goes, RunType, Live
      <4> QED
        BY <2>1, <4>1, <4>2, <4>3 DEF Shut
    <3> QED BY <3>2, <3>3, <3>4
  <2>4. ASSUME ~HasFailed PROVE Goal
    <3>1. Contract!Failed(deployment') /\ ~Contract!Failed(deployment)
      BY <2>1, <2>4 DEF HasFailed
    <3>2. ~Degrade /\ ~OperationalDepartment
      BY <3>1 DEF Degrade, OperationalDepartment
    <3>3. Live'
      BY <1>2, <3>2, RunIs
    <3> QED BY <1>1, <2>2, <3>1, <3>3
  <2> QED BY <2>3, <2>4
<1>3. ASSUME NEW a \in Admins, Administer(a) PROVE Goal
  <2>1. EditDoes
    BY <1>3, AdministerDoes
  <2>2. UNCHANGED <<deployment, run, saved>>
    BY <2>1 DEF EditDoes, UnchangedRun
  <2>3. Shut /\ (Live => run.part \in {"mark", "degrade"})
    BY <1>0, <2>2 DEF HasFailed
  <2>4. \A d \in Known : d.status # "operational"
    BY <2>3 DEF Known, Shut
  <2>5. \A i \in 1 .. Len(objects') : objects'[i].status # "operational"
    BY <2>1, <2>4 DEF EditDoes, Comes
  <2>6. \A b \in Admins : edit'[b] # NoEdit => edit'[b].read.status # "operational"
    BY <2>1, <2>4 DEF EditDoes, EditsKept
  <2> QED
    BY <2>2, <2>3, <2>5, <2>6 DEF Shut, Live
<1>4. ASSUME NEW file \in {"deployment", "department"}, SaveFile(file) PROVE Goal
  <2>1. UNCHANGED <<objects, stored, deployment, run, edit>>
    BY <1>4 DEF SaveFile
  <2>2. /\ saved'.deployment \in {saved.deployment, deployment}
        /\ saved'.department \in {saved.department, objects[stored]}
    BY <1>4 DEF SaveFile, Inv, Shapes, TypeOK
  <2>3. Shut /\ (Live => run.part \in {"mark", "degrade"})
    BY <1>0, <2>1, <2>2 DEF HasFailed
  <2> QED
    BY <2>1, <2>2, <2>3, HeapKnown DEF Inv, Shut, Live
<1>5. ASSUME Restart PROVE Goal
  <2>1. run'.part = "over"
    BY <1>5 DEF Restart, Inv, Shapes, TypeOK
  <2>2. /\ deployment' = saved.deployment /\ objects' = <<saved.department>> /\ saved' = saved
        /\ edit' = [a \in Admins |-> NoEdit]
    BY <1>5 DEF Restart
  <2>3. Shut
    BY <1>0, <2>2 DEF HasFailed
  <2>4. /\ Len(objects') = 1 /\ objects'[1] = saved.department
        /\ \A a \in Admins : edit'[a] = NoEdit
    BY <2>2
  <2> QED
    BY <2>1, <2>2, <2>3, <2>4 DEF Shut, Live
<1>6. ASSUME UNCHANGED vars PROVE Goal
  <2>1. HasFailed
    BY <1>6 DEF vars, HasFailed
  <2> QED
    BY <1>0, <1>6, <2>1 DEF vars, Shut, Live
<1> HIDE DEF Goal
<1> QED
  BY <1>2, <1>3, <1>4, <1>5, <1>6 DEF Next

\* While the run goes on, or once it failed, no step but its last shows the
\* department in operation.
LEMMA ShowsNothing ==
  ASSUME Inv, [Next]_vars, Inv', NeverOpens', ~OperationalDepartment
  PROVE  Contract!Shows
<1>1. stored' \in 1 .. Len(objects')
  BY DEF Inv, Shapes, TypeOK
<1>2. CASE Contract!Failed(deployment')
  BY <1>1, <1>2 DEF NeverOpens, Contract!Shows
<1>3. CASE Live /\ Live'
  BY <1>1, <1>3 DEF Inv, NotYet, Live, Contract!Shows
<1>4. CASE Live /\ ~Live'
  <2>1. Run \/ Restart
    <3>1. ASSUME NEW a \in Admins, Administer(a) PROVE FALSE
      BY <1>4, <3>1, AdministerDoes DEF EditDoes, UnchangedRun, Live
    <3> QED
      BY <1>4, <3>1 DEF Next, SaveFile, Live, vars
  <2>2. CASE Degrade
    <3>1. objects'[stored] = [objects[stored] EXCEPT !.status = "degraded"] /\ stored' = stored
      BY <2>2, UpdatedHeap DEF Degrade, Inv, DepartmentStatus
    <3>2. objects'[stored'].status = "degraded"
      BY <3>1, HeapKnown DEF Inv, Department
    <3> QED BY <3>2 DEF Contract!Shows
  <2>3. CASE Restart
    BY <1>4, <2>3 DEF Restart, Inv, NotYet, Contract!Shows
  <2> QED BY <1>4, <2>1, <2>2, <2>3, RunIs
<1> QED
  BY <1>2, <1>3, <1>4 DEF Live, Contract!Shows

\* Agents and workflows are only added, and by the run.
LEMMA WorldGrows ==
  ASSUME Inv, Run
  PROVE  Contract!Makes
<1>1. compiled \in Nat /\ compiled <= compiled /\ compiled <= compiled + 1
  BY DeployAssumption DEF Inv, Shapes, TypeOK
<1>2. CASE \E s \in Seats : RegisterAgent(s)
  BY <1>1, <1>2 DEF RegisterAgent, Contract!Makes
<1>3. CASE CompileWorkflow
  BY <1>1, <1>3 DEF CompileWorkflow, Contract!Makes
<1>4. CASE UnchangedWorld
  BY <1>1, <1>4 DEF UnchangedWorld, Contract!Makes
<1> QED
  BY <1>2, <1>3, <1>4
  DEF Run, Begin, Enter, CompleteStage, Fail, Mark, Degrade, Configure, ConnectData,
      ProvisionMemory, SwarmDone, WorkflowsDone, OperationalDeployment, OperationalDepartment

\* A step on which the record does not change.
LEMMA WorkRefines ==
  ASSUME Inv, Inv', [Next]_vars, Contract!Shows,
         deployment' = deployment, saved'.deployment = saved.deployment,
         run'.part # "over" <=> run.part # "over",
         (Run /\ Live) \/ UNCHANGED <<registered, compiled>>
  PROVE  Contract!Next
<1>1. Contract!Makes
  <2>1. compiled <= compiled
    BY DeployAssumption DEF Inv, Shapes, TypeOK
  <2> QED BY <2>1, WorldGrows DEF Contract!Makes
<1>2. Contract!Work
  BY <1>1 DEF Contract!Work, Live
<1> QED
  BY <1>2 DEF Contract!Next

\* A stage of the record that the run rewrites.
LEMMA TurnRefines ==
  ASSUME Inv, Live, Live', run.stage \in 1 .. Len(Stages), NEW before,
         deployment.stage[run.stage] = before, NEW s \in {"running", "completed", "failed"},
         Record(run.stage, s), UNCHANGED <<objects, stored>>, UnchangedWorld
  PROVE  Contract!Turn(run.stage, before, s)
BY DEF Record, UnchangedWorld, UnchangedOutside, Live, Contract!Turn

\* A status that it writes.
LEMMA StateRefines ==
  ASSUME Live, Live', NEW s, deployment' = [deployment EXCEPT !.status = s],
         UNCHANGED <<objects, stored>>, UnchangedWorld
  PROVE  Contract!State(s)
BY DEF UnchangedWorld, UnchangedOutside, Live, Contract!State

LEMMA BeginRefines ==
  ASSUME Inv, Run, Begin
  PROVE  Contract!Next
<1>1. /\ run.stage \in 1 .. Len(Stages) /\ run.stage \in Nat /\ Live /\ Live'
      /\ Follows(deployment, run) /\ run.part = "begin"
  BY RunIs, RunKnown, StagesAre DEF Begin, Degrade, OperationalDepartment, RunType
<1>2. /\ deployment.stage[run.stage] = "none"
      /\ \A k \in 1 .. run.stage - 1 : deployment.stage[k] = "completed"
  BY <1>1, StagesAre DEF Follows, Shown
<1>3. Contract!Begin(run.stage)
  BY <1>1, <1>2, TurnRefines DEF Begin, Contract!Begin
<1> QED
  BY <1>1, <1>3 DEF Contract!Next

LEMMA EnterRefines ==
  ASSUME Inv, Run, Enter
  PROVE  Contract!Next
<1>1. /\ run.stage \in 1 .. Len(Stages) /\ Live /\ Live' /\ Follows(deployment, run)
      /\ run.part = "enter"
  BY RunIs, RunKnown, StagesAre DEF Enter, Degrade, OperationalDepartment, RunType, Follows
<1>2. deployment.stage[run.stage] = "running"
  BY <1>1, RunKnown DEF Follows, Shown
<1>3. Contract!Enter(run.stage)
  BY <1>1, <1>2, StateRefines DEF Enter, Contract!Enter
<1> QED
  BY <1>1, <1>3 DEF Contract!Next

\* A stage that is completed or fails is the one that the status names.
LEMMA StageUnderWay ==
  ASSUME Inv, Live, run.part \in {"complete", "fail"}
  PROVE  /\ run.stage \in 1 .. Len(Stages) /\ run.stage \in Nat
         /\ deployment.stage[run.stage] = "running"
         /\ deployment.status = Stages[run.stage]
<1>1. run.stage \in 1 .. Len(Stages) /\ run.stage \in Nat /\ Follows(deployment, run)
  BY RunKnown, StagesAre DEF RunType, Follows
<1> QED
  BY <1>1 DEF Follows, Shown, StatusOf

LEMMA CompleteRefines ==
  ASSUME Inv, Run, CompleteStage
  PROVE  Contract!Next
<1>1. Live /\ Live' /\ run.part = "complete"
  BY RunIs DEF CompleteStage, Degrade, OperationalDepartment
<1>2. Contract!Made(Stages[run.stage])
  BY <1>1, RunKnown, StageUnderWay, StageNumbers DEF WorkFollows, Past, Contract!Made
<1>3. Contract!Turn(run.stage, "running", "completed")
  BY <1>1, StageUnderWay, TurnRefines DEF CompleteStage
<1>4. Contract!Complete(run.stage)
  BY <1>1, <1>2, <1>3, StageUnderWay DEF Contract!Complete
<1> QED
  BY <1>1, <1>4, StageUnderWay DEF Contract!Next

LEMMA FailRefines ==
  ASSUME Inv, Run, Fail
  PROVE  Contract!Next
<1>1. Live /\ Live' /\ run.part = "fail"
  BY RunIs DEF Fail, Degrade, OperationalDepartment
<1>2. Contract!Turn(run.stage, "running", "failed")
  BY <1>1, StageUnderWay, TurnRefines DEF Fail
<1>3. Contract!Fail(run.stage)
  BY <1>1, <1>2, StageUnderWay DEF Contract!Fail
<1> QED
  BY <1>1, <1>3, StageUnderWay DEF Contract!Next

LEMMA MarkRefines ==
  ASSUME Inv, Run, Mark
  PROVE  Contract!Next
<1>1. /\ run.stage \in 1 .. Len(Stages) /\ Live /\ Live' /\ Follows(deployment, run)
      /\ run.part = "mark"
  BY RunIs, RunKnown, StagesAre DEF Mark, Degrade, OperationalDepartment, RunType, Follows
<1>2. Contract!Failed(deployment)
  BY <1>1, RunKnown DEF Follows, Shown, Contract!Failed
<1>3. Contract!Settle
  BY <1>1, <1>2, StateRefines DEF Mark, Contract!Settle
<1> QED
  BY <1>3 DEF Contract!Next

LEMMA OpenRefines ==
  ASSUME Inv, Run, OperationalDeployment
  PROVE  Contract!Next
<1>1. run.stage = Len(Stages) + 1 /\ Live /\ Live' /\ Follows(deployment, run)
  BY RunIs, RunKnown DEF OperationalDeployment, Degrade, OperationalDepartment
<1>2. \A i \in 1 .. Len(Stages) : deployment.stage[i] = "completed"
  BY <1>1, StagesAre DEF Follows
<1>3. Contract!Open
  BY <1>1, <1>2, StateRefines DEF OperationalDeployment, Contract!Open
<1> QED
  BY <1>3 DEF Contract!Next

LEMMA EndRefines ==
  ASSUME Inv, Degrade \/ OperationalDepartment
  PROVE  Contract!Next
<1>1. Live /\ run \in RunType /\ Follows(deployment, run)
  <2>1. Live
    BY DEF Degrade, OperationalDepartment, Live
  <2> QED BY <2>1, RunKnown
<1>2. run'.part = "over"
  BY <1>1 DEF Degrade, OperationalDepartment, RunType, Goes
<1>3. ASSUME NEW s \in {"operational", "degraded"}, UpdateStatus(s)
      PROVE  objects'[stored'].status = s
  <2>1. objects'[stored] = [objects[stored] EXCEPT !.status = s] /\ stored' = stored
    BY <1>3, UpdatedHeap DEF Inv, DepartmentStatus
  <2> QED BY <2>1, HeapKnown DEF Inv, Department
<1>4. \/ deployment.status = "operational" /\ objects'[stored'].status = "operational"
      \/ deployment.status = "failed" /\ objects'[stored'].status = "degraded"
  <2>1. CASE Degrade
    <3>1. run.part = "degrade" /\ UpdateStatus("degraded")
      BY <2>1 DEF Degrade
    <3> QED BY <1>1, <1>3, <3>1 DEF Follows, StatusOf
  <2>2. CASE OperationalDepartment
    <3>1. run.part = "open" /\ UpdateStatus("operational")
      BY <2>2 DEF OperationalDepartment
    <3> QED BY <1>1, <1>3, <3>1 DEF Follows, StatusOf
  <2> QED BY <2>1, <2>2
<1>5. Contract!End
  BY <1>1, <1>2, <1>4
  DEF Degrade, OperationalDepartment, UnchangedWorld, UnchangedOutside, Live, Contract!End
<1> QED
  BY <1>5 DEF Contract!Next

\* Every step of the run, an administrator, a snapshot or a restart is a step of
\* the contract, or changes nothing that it speaks of.
LEMMA StepRefines ==
  ASSUME Inv, Inv', NeverOpens', [Next]_vars
  PROVE  [Contract!Next]_(Contract!view)
<1>1. ASSUME Run
      PROVE  Contract!Next
  <2> DEFINE Writes == \/ Begin \/ Enter \/ CompleteStage \/ Fail \/ Mark \/ Degrade
                       \/ OperationalDeployment \/ OperationalDepartment
  <2>1. ASSUME Writes PROVE Contract!Next
    BY <1>1, <2>1, BeginRefines, EnterRefines, CompleteRefines, FailRefines, MarkRefines,
       OpenRefines, EndRefines
  <2>2. ASSUME ~Writes PROVE Contract!Next
    <3>1. deployment' = deployment
      BY <1>1, <2>2
      DEF Run, Configure, ConnectData, ProvisionMemory, RegisterAgent, SwarmDone,
          CompileWorkflow, WorkflowsDone
    <3>2. Contract!Shows
      BY <2>2, ShowsNothing
    <3>3. Live /\ Live' /\ saved' = saved
      BY <1>1, <2>2, RunIs
    <3> QED
      BY <1>1, <3>1, <3>2, <3>3, WorkRefines DEF Live
  <2> HIDE DEF Writes
  <2> QED BY <2>1, <2>2
<1>2. ASSUME NEW a \in Admins, Administer(a)
      PROVE  Contract!Next
  <2>1. UnchangedRun
    BY <1>2, AdministerDoes DEF EditDoes
  <2>2. CASE OperationalDepartment
    BY <2>2, EndRefines
  <2>3. CASE ~OperationalDepartment
    BY <2>1, <2>3, ShowsNothing, WorkRefines DEF UnchangedRun
  <2> QED BY <2>2, <2>3
<1>3. ASSUME NEW file \in {"deployment", "department"}, SaveFile(file)
      PROVE  [Contract!Next]_(Contract!view)
  <2>1. UNCHANGED <<objects, stored, deployment, run, registered, compiled>>
    BY <1>3 DEF SaveFile
  <2>2. saved'.deployment \in {saved.deployment, deployment}
    BY <1>3 DEF SaveFile, Inv, Shapes, TypeOK
  <2> QED
    BY <2>1, <2>2 DEF Contract!Keep, Contract!Next, Contract!view
<1>4. ASSUME Restart
      PROVE  Contract!Next
  <2>1. run'.part = "over"
    BY <1>4 DEF Restart, Inv, Shapes, TypeOK
  <2>2. ~OperationalDepartment
    <3>1. restarts' # restarts
      BY <1>4, DeployAssumption DEF Restart, Inv, Shapes, TypeOK
    <3> QED
      BY <3>1 DEF OperationalDepartment, UnchangedWorld, UnchangedOutside
  <2>3. Contract!Recover
    BY <1>4, <2>1, <2>2, ShowsNothing DEF Restart, Contract!Recover
  <2> QED BY <2>3 DEF Contract!Next
<1>5. CASE UNCHANGED vars
  BY <1>5 DEF vars, Contract!view
<1> QED
  BY <1>1, <1>2, <1>3, <1>4, <1>5 DEF Next

\* Every deployment implements DeployContract, for every org chart, number of
\* workflows, set of administrators and number of edits and restarts: stages are
\* completed in their order and only once what they make exists, and after a
\* failed stage, also one restored from a file, nothing the run or an edit does
\* shows the department in operation; what an administrator patches the status
\* to is his own word.
THEOREM DeploymentsImplementContract == Spec => ImplementsDeployContract
<1>1. Init => Contract!Init
  BY DEF Init, Contract!Init
<1>2. Init => NeverOpens
  BY NeverOpensInit
<1>3. Inv /\ NeverOpens /\ [Next]_vars => NeverOpens'
  BY StepKeeps, NeverOpensStep
<1>4. Inv /\ NeverOpens /\ [Next]_vars => [Contract!Next]_(Contract!view)
  BY StepKeeps, NeverOpensStep, StepRefines
<1> QED
  BY <1>1, <1>2, <1>3, <1>4, DeployInvariant, PTL DEF Spec, ImplementsDeployContract, Contract!Spec
=============================================================================
