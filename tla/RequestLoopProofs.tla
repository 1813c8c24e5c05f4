-------------------------- MODULE RequestLoopProofs --------------------------
(***************************************************************************)
(* The request loop keeps its promises for every set of requests, limit of *)
(* misses and number of restarts.                                          *)
(***************************************************************************)
EXTENDS RequestLoopInv, TLAPS

-----------------------------------------------------------------------------
(* Types. *)

Polls ==
  [phase : {"read", "mirrored"}, of : Requests, answer : Runs \cup {"error"},
   output : BOOLEAN]

LEMMA RunsAre ==
  /\ Runs = {"none", "created", "drafting", "gate", "acting", "completed", "failed",
             "refused", "expired", "cancelled"}
  /\ \A s \in Runs : RunMoves[s] \subseteq Runs
  /\ RunEnds \subseteq Runs
BY DEF Runs, RunMoves, RunEnds, Failures

\* A request and its fields.
LEMMA FieldsTyped ==
  ASSUME NEW q \in ServiceRequest
  PROVE  /\ q.status \in {"absent"} \cup Active \cup TerminalRequestStatus
         /\ q.ref \in BOOLEAN /\ q.outputs \in Nat /\ q.breaches \in Nat
BY DEF ServiceRequest

\* Changing one field keeps the others.
LEMMA StatusChanged ==
  ASSUME NEW q \in ServiceRequest,
         NEW s \in {"absent"} \cup Active \cup TerminalRequestStatus
  PROVE  LET new == [q EXCEPT !.status = s] IN
         /\ new \in ServiceRequest
         /\ new.status = s /\ new.ref = q.ref
         /\ new.outputs = q.outputs /\ new.breaches = q.breaches
BY DEF ServiceRequest

LEMMA RunReferenced ==
  ASSUME NEW q \in ServiceRequest
  PROVE  LET new == [q EXCEPT !.status = "in_progress", !.ref = TRUE] IN
         /\ new \in ServiceRequest
         /\ new.status = "in_progress" /\ new.ref
         /\ new.outputs = q.outputs /\ new.breaches = q.breaches
<1>1. "in_progress" \in Active
  BY DEF Active
<1> QED
  BY <1>1, Zenon DEF ServiceRequest

LEMMA OutputNoted ==
  ASSUME NEW q \in ServiceRequest, NEW more \in {0, 1}
  PROVE  LET new == [q EXCEPT !.outputs = @ + more] IN
         /\ new \in ServiceRequest
         /\ new.status = q.status /\ new.ref = q.ref
         /\ new.outputs = q.outputs + more /\ new.breaches = q.breaches
BY DEF ServiceRequest

LEMMA BreachNoted ==
  ASSUME NEW q \in ServiceRequest, NEW more \in {0, 1}
  PROVE  LET new == [q EXCEPT !.breaches = @ + more] IN
         /\ new \in ServiceRequest
         /\ new.status = q.status /\ new.ref = q.ref
         /\ new.outputs = q.outputs /\ new.breaches = q.breaches + more
BY DEF ServiceRequest

LEMMA AbsentTyped ==
  /\ Absent \in ServiceRequest
  /\ Absent.status = "absent" /\ ~Absent.ref /\ Absent.outputs = 0 /\ Absent.breaches = 0
BY DEF Absent, ServiceRequest

\* The poller's two phases.
LEMMA PolledTyped ==
  ASSUME TypeOK, NEW r \in Requests, Polled(r, "read") \/ Polled(r, "mirrored")
  PROVE  /\ poller \in Polls /\ poller # Idle /\ poller.of = r
         /\ \A p \in Requests : p # r => ~Polled(p, "read") /\ ~Polled(p, "mirrored")
BY DEF TypeOK, Polled, Polls, Idle

\* One request changes, to a request.
LEMMA Mutated ==
  ASSUME TypeOK, NEW r \in Requests, NEW q \in ServiceRequest, Mutate(r, q)
  PROVE  /\ req' \in [Requests -> ServiceRequest]
         /\ req'[r] = q /\ \A p \in Requests : p # r => req'[p] = req[p]
BY DEF TypeOK, Mutate

LEMMA Announced ==
  ASSUME TypeOK, NEW r \in Requests, NEW v \in Verdicts, Announce(r, v)
  PROVE  /\ announced' \in [Requests -> Seq(Verdicts)]
         /\ announced'[r] = Append(announced[r], v)
         /\ \A p \in Requests : p # r => announced'[p] = announced[p]
BY DEF TypeOK, Announce

\* A poller that has handled a copy drops it.
LEMMA HandledTyped ==
  ASSUME TypeOK, NEW r \in Requests, Handled(r)
  PROVE  /\ snap' \in [Requests -> ServiceRequest] /\ poller' = Idle
         /\ snap'[r] = Absent /\ \A p \in Requests : p # r => snap'[p] = snap[p]
BY AbsentTyped DEF TypeOK, Handled

\* The end of a request.
LEMMA FinishTyped ==
  ASSUME TypeOK, NEW r \in Requests, NEW q \in ServiceRequest, NEW v \in Verdicts,
         Finish(r, q, v)
  PROVE  /\ req' \in [Requests -> ServiceRequest]
         /\ \A p \in Requests : p # r => req'[p] = req[p]
         /\ req'[r].ref = q.ref /\ req'[r].outputs = q.outputs /\ req'[r].breaches = q.breaches
         /\ req'[r].status = IF req[r].status \in TerminalRequestStatus THEN q.status ELSE v
         /\ announced' \in [Requests -> Seq(Verdicts)]
         /\ announced'[r] = Append(announced[r], v)
         /\ \A p \in Requests : p # r => announced'[p] = announced[p]
         /\ auth' \subseteq Requests
         /\ misses' \in [Requests -> 0 .. MissLimit - 1]
<1>1. v \in {"absent"} \cup Active \cup TerminalRequestStatus
  BY DEF TerminalRequestStatus
<1> DEFINE new == IF req[r].status \in TerminalRequestStatus THEN q ELSE [q EXCEPT !.status = v]
<1>2. /\ new \in ServiceRequest
      /\ new.ref = q.ref /\ new.outputs = q.outputs /\ new.breaches = q.breaches
      /\ new.status = IF req[r].status \in TerminalRequestStatus THEN q.status ELSE v
  BY <1>1, StatusChanged
<1>3. Mutate(r, new) /\ Announce(r, v)
  BY DEF Finish
<1> HIDE DEF new
<1>4. auth' \subseteq Requests /\ misses' \in [Requests -> 0 .. MissLimit - 1]
  BY LoopAssumption DEF Finish, TypeOK
<1> QED
  BY <1>2, <1>3, <1>4, Mutated, Announced

\* An open end has not been announced.
LEMMA NotAnnounced ==
  ASSUME Inv, NEW r \in Requests, req[r].status \notin TerminalRequestStatus
  PROVE  announced[r] = <<>>
<1>1. announced[r] \in Seq(Verdicts)
  BY DEF Inv, TypeOK
<1>2. announced[r] # <<>> => announced[r][1] \in Verdicts
  BY <1>1
<1> QED
  BY <1>2 DEF Inv, AnnouncedOnce, TerminalRequestStatus

\* The first end that is announced is the only one.
LEMMA FirstAnnounced ==
  ASSUME NEW v
  PROVE  Append(<<>>, v) # <<>> /\ Len(Append(<<>>, v)) = 1 /\ Append(<<>>, v)[1] = v
OBVIOUS

LEMMA InitKeeps == Init => Inv
<1> SUFFICES ASSUME Init PROVE Inv
  OBVIOUS
<1>1. \A r \in Requests : <<>> \in Seq(Verdicts)
  OBVIOUS
<1>2. "none" \in Runs /\ "none" \notin RunEnds
  BY RunsAre DEF RunEnds, Failures
<1>3. TypeOK
  BY <1>1, <1>2, AbsentTyped, LoopAssumption DEF Init, TypeOK
<1>4. Dispatching /\ Polling /\ CopyCounts /\ AnswerHolds /\ EndsRecorded
  BY <1>2, AbsentTyped
  DEF Init, Dispatching, Polling, CopyCounts, AnswerHolds, EndsRecorded, Polled, Idle
<1>5. AllSound /\ AnnouncedOnce
  BY AbsentTyped DEF Init, AllSound, Sound, AnnouncedOnce
<1> QED
  BY <1>3, <1>4, <1>5 DEF Inv

-----------------------------------------------------------------------------
(* Steps of a dispatch. *)

\* What a step may do to verdicts.
Stays ==
  \A r \in Requests :
    (req[r].status \in Verdicts /\ req'[r].status # req[r].status)
      => (r \in cancelling /\ req'[r].status = "cancelled") \/ restarts' # restarts

LEMMA CreateKeeps ==
  ASSUME Inv, NEW r \in Requests, Create(r)
  PROVE  Inv' /\ Stays
<1>t. TypeOK
  BY DEF Inv
<1>q. req[r] \in ServiceRequest
  BY <1>t DEF TypeOK
<1> DEFINE new == [req[r] EXCEPT !.status = "open"]
<1>1. /\ new \in ServiceRequest /\ new.status = "open" /\ new.ref = req[r].ref
      /\ new.outputs = req[r].outputs /\ new.breaches = req[r].breaches
  BY <1>q, StatusChanged DEF Active
<1>2. Mutate(r, new)
  BY DEF Create
<1> HIDE DEF new
<1>3. /\ req' \in [Requests -> ServiceRequest]
      /\ req'[r] = new /\ \A p \in Requests : p # r => req'[p] = req[p]
  BY <1>t, <1>1, <1>2, Mutated
<1>4. req[r].status = "absent" /\ ~req[r].ref
  BY DEF Create, Inv, AllSound, Sound
<1>5. announced[r] = <<>> /\ ~snap[r].ref
  BY <1>4, NotAnnounced DEF Inv, Polling, Active, TerminalRequestStatus, Verdicts
<1>6. TypeOK'
  BY <1>t, <1>3 DEF Create, TypeOK, external
<1>7. Dispatching'
  BY <1>t, <1>1, <1>3, <1>4, <1>5 DEF Inv, Dispatching, Create, TypeOK
<1>8. Polling' /\ CopyCounts'
  BY <1>1, <1>3, <1>5 DEF Inv, Polling, CopyCounts, Create, Polled
<1>9. AnswerHolds' /\ EndsRecorded'
  BY <1>1, <1>3 DEF Inv, AnswerHolds, EndsRecorded, Create, Polled, external
<1>10. AllSound'
  BY <1>1, <1>3 DEF Inv, AllSound, Sound, Create, external
<1>11. AnnouncedOnce'
  BY <1>3, <1>5 DEF Inv, AnnouncedOnce, Create
<1>12. Stays
  BY <1>3, <1>4 DEF Stays, Verdicts
<1> QED
  BY <1>6, <1>7, <1>8, <1>9, <1>10, <1>11, <1>12 DEF Inv

\* Calls to module 03, and what happens there, leave the requests alone.
LEMMA WorldKeeps ==
  ASSUME Inv, UNCHANGED <<req, cancelling, snap, poller, auth, misses, announced, saved, restarts>>,
         dispatch' \in [Requests -> {"idle", "create", "execute", "record"}],
         \A r \in Requests : dispatch'[r] # "idle" => dispatch[r] # "idle",
         run' \in [Requests -> Runs], ran' \in [Requests -> SUBSET RunEnds],
         \A r \in Requests : ran[r] \subseteq ran'[r],
         \A r \in Requests : run'[r] \in RunEnds => run'[r] \in ran'[r]
  PROVE  Inv' /\ Stays
<1>1. TypeOK'
  BY DEF Inv, TypeOK
<1>2. Dispatching' /\ Polling' /\ CopyCounts' /\ EndsRecorded' /\ AnnouncedOnce'
  BY DEF Inv, Dispatching, Polling, CopyCounts, EndsRecorded, AnnouncedOnce, Polled
<1>3. AnswerHolds' /\ AllSound'
  BY DEF Inv, AnswerHolds, AllSound, Sound, Polled
<1> QED
  BY <1>1, <1>2, <1>3 DEF Inv, Stays

LEMMA CallKeeps ==
  ASSUME Inv, NEW r \in Requests, CreateWorkflow(r) \/ ExecuteWorkflow(r)
  PROVE  Inv' /\ Stays
<1>t. TypeOK
  BY DEF Inv
<1>1. "created" \in Runs \ RunEnds /\ "drafting" \in Runs \ RunEnds
  BY RunsAre DEF RunEnds, Failures
<1>2. /\ run' \in [Requests -> Runs] /\ ran' = ran
      /\ \A p \in Requests : run'[p] \in RunEnds => run'[p] \in ran'[p]
  <2>1. ran' = ran /\ run' \in [Requests -> Runs]
    BY <1>1, <1>t DEF CreateWorkflow, ExecuteWorkflow, TypeOK
  <2>2. \A p \in Requests : run'[p] \in {run[p], "created", "drafting"}
    BY <1>t DEF CreateWorkflow, ExecuteWorkflow, TypeOK
  <2> QED
    BY <1>1, <2>1, <2>2 DEF Inv, EndsRecorded
<1>3. /\ dispatch' \in [Requests -> {"idle", "create", "execute", "record"}]
      /\ \A p \in Requests : dispatch'[p] # "idle" => dispatch[p] # "idle"
  BY <1>t DEF CreateWorkflow, ExecuteWorkflow, TypeOK
<1> QED
  BY <1>t, <1>2, <1>3, WorldKeeps DEF CreateWorkflow, ExecuteWorkflow, TypeOK

LEMMA RunKeeps ==
  ASSUME Inv, NEW r \in Requests, RunStep(r)
  PROVE  Inv' /\ Stays
<1>t. TypeOK
  BY DEF Inv
<1>1. PICK s \in RunMoves[run[r]] :
        /\ run' = [run EXCEPT ![r] = s]
        /\ ran' = [ran EXCEPT ![r] = @ \cup ({s} \cap RunEnds)]
  BY DEF RunStep
<1>2. s \in Runs
  BY <1>t, <1>1, RunsAre DEF TypeOK
<1>3. /\ run' \in [Requests -> Runs] /\ ran' \in [Requests -> SUBSET RunEnds]
      /\ \A p \in Requests : ran[p] \subseteq ran'[p]
      /\ \A p \in Requests : run'[p] \in RunEnds => run'[p] \in ran'[p]
  BY <1>t, <1>1, <1>2 DEF TypeOK, Inv, EndsRecorded
<1> QED
  BY <1>t, <1>3, WorldKeeps DEF RunStep, memory, TypeOK

LEMMA DispatchFailsKeeps ==
  ASSUME Inv, NEW r \in Requests, DispatchFails(r)
  PROVE  Inv' /\ Stays
<1>t. TypeOK
  BY DEF Inv
<1>q. req[r] \in ServiceRequest
  BY <1>t DEF TypeOK
<1> DEFINE new == [req[r] EXCEPT !.status = "failed"]
<1>1. /\ new \in ServiceRequest /\ new.status = "failed" /\ new.ref = req[r].ref
      /\ new.outputs = req[r].outputs /\ new.breaches = req[r].breaches
  BY <1>q, StatusChanged DEF TerminalRequestStatus, Verdicts
<1>2. Mutate(r, new) /\ Announce(r, "failed") /\ dispatch' = [dispatch EXCEPT ![r] = "idle"]
  BY DEF DispatchFails, FailRequest
<1> HIDE DEF new
<1>3. /\ req' \in [Requests -> ServiceRequest]
      /\ req'[r] = new /\ \A p \in Requests : p # r => req'[p] = req[p]
  BY <1>t, <1>1, <1>2, Mutated
<1>4. ~req[r].ref /\ req[r].status \in {"open", "cancelled"} /\ announced[r] = <<>>
  BY DEF DispatchFails, Inv, Dispatching
<1>5. /\ announced' \in [Requests -> Seq(Verdicts)]
      /\ announced'[r] = Append(<<>>, "failed")
      /\ \A p \in Requests : p # r => announced'[p] = announced[p]
  BY <1>t, <1>2, <1>4, Announced DEF Verdicts
<1>6. ~snap[r].ref
  BY <1>4 DEF Inv, Polling
<1>7. "created" \in Runs \ RunEnds /\ "drafting" \in Runs \ RunEnds
  BY RunsAre DEF RunEnds, Failures
<1>8. /\ run' \in [Requests -> Runs] /\ ran' = ran
      /\ \A p \in Requests : run'[p] \in RunEnds => run'[p] \in ran'[p]
  <2>0. ran' = ran /\ run' \in {run, [run EXCEPT ![r] = "created"], [run EXCEPT ![r] = "drafting"]}
    BY DEF DispatchFails
  <2>1. ran' = ran /\ run' \in [Requests -> Runs]
    <3>1. run \in [Requests -> Runs] /\ "created" \in Runs /\ "drafting" \in Runs
      BY <1>7, <1>t DEF TypeOK
    <3>2. [run EXCEPT ![r] = "created"] \in [Requests -> Runs]
      BY <3>1
    <3>3. [run EXCEPT ![r] = "drafting"] \in [Requests -> Runs]
      BY <3>1
    <3> QED
      BY <2>0, <3>1, <3>2, <3>3
  <2>2. \A p \in Requests : run'[p] \in {run[p], "created", "drafting"}
    BY <1>t, <2>0 DEF TypeOK
  <2> QED
    BY <1>7, <2>1, <2>2 DEF Inv, EndsRecorded
<1>9. TypeOK'
  BY <1>t, <1>2, <1>3, <1>5, <1>8 DEF DispatchFails, TypeOK
<1>10. Dispatching' /\ Polling' /\ CopyCounts'
  <2>1. dispatch'[r] = "idle" /\ \A p \in Requests : p # r => dispatch'[p] = dispatch[p]
    BY <1>t, <1>2 DEF TypeOK
  <2>2. snap' = snap /\ poller' = poller
    BY DEF DispatchFails
  <2>3. Dispatching'
    BY <1>3, <1>5, <2>1 DEF Inv, Dispatching
  <2>4. Polling'
    BY <1>3, <1>5, <1>6, <2>2 DEF Inv, Polling
  <2>5. CopyCounts'
    BY <1>1, <1>3, <2>2 DEF Inv, CopyCounts, Polled
  <2> QED BY <2>3, <2>4, <2>5
<1>11. AnswerHolds' /\ EndsRecorded'
  BY <1>1, <1>3, <1>8 DEF Inv, AnswerHolds, EndsRecorded, DispatchFails, Polled
<1>12. AllSound'
  BY <1>1, <1>3, <1>8 DEF Inv, AllSound, Sound, DispatchFails
<1>13. AnnouncedOnce'
  <2>1. Len(announced'[r]) = 1 /\ announced'[r][1] = "failed" /\ req'[r].status = "failed"
    BY <1>1, <1>3, <1>5, FirstAnnounced
  <2> QED
    BY <1>3, <1>5, <2>1 DEF Inv, AnnouncedOnce
<1>14. Stays
  BY <1>3, <1>4 DEF Stays, Verdicts
<1> QED
  BY <1>9, <1>10, <1>11, <1>12, <1>13, <1>14 DEF Inv

LEMMA RecordRunKeeps ==
  ASSUME Inv, NEW r \in Requests, RecordRun(r)
  PROVE  Inv' /\ Stays
<1>t. TypeOK
  BY DEF Inv
<1>q. req[r] \in ServiceRequest
  BY <1>t DEF TypeOK
<1> DEFINE new == [req[r] EXCEPT !.status = "in_progress", !.ref = TRUE]
<1>1. /\ new \in ServiceRequest /\ new.status = "in_progress" /\ new.ref
      /\ new.outputs = req[r].outputs /\ new.breaches = req[r].breaches
  BY <1>q, RunReferenced
<1>2. Mutate(r, new)
  BY DEF RecordRun
<1> HIDE DEF new
<1>3. /\ req' \in [Requests -> ServiceRequest]
      /\ req'[r] = new /\ \A p \in Requests : p # r => req'[p] = req[p]
  BY <1>t, <1>1, <1>2, Mutated
<1>4. ~req[r].ref /\ req[r].status \in {"open", "cancelled"} /\ announced[r] = <<>>
  BY DEF RecordRun, Inv, Dispatching
<1>5. ~snap[r].ref
  BY <1>4 DEF Inv, Polling
<1>6. TypeOK'
  BY <1>t, <1>3 DEF RecordRun, TypeOK, external
<1>7. Dispatching' /\ Polling' /\ CopyCounts'
  <2>1. dispatch'[r] = "idle" /\ \A p \in Requests : p # r => dispatch'[p] = dispatch[p]
    BY <1>t DEF RecordRun, TypeOK
  <2>2. snap' = snap /\ poller' = poller /\ announced' = announced
    BY DEF RecordRun
  <2>3. Dispatching'
    BY <1>3, <2>1, <2>2 DEF Inv, Dispatching
  <2>4. Polling'
    BY <1>3, <1>5, <2>2 DEF Inv, Polling
  <2>5. CopyCounts'
    BY <1>1, <1>3, <2>2 DEF Inv, CopyCounts, Polled
  <2> QED BY <2>3, <2>4, <2>5
<1>8. AnswerHolds' /\ EndsRecorded'
  BY <1>1, <1>3 DEF Inv, AnswerHolds, EndsRecorded, RecordRun, Polled, external
<1>9. AllSound'
  BY <1>1, <1>3 DEF Inv, AllSound, Sound, RecordRun, external
<1>10. AnnouncedOnce'
  BY <1>3, <1>4 DEF Inv, AnnouncedOnce, RecordRun
<1>11. Stays
  BY <1>3, <1>4 DEF Stays, Verdicts
<1> QED
  BY <1>6, <1>7, <1>8, <1>9, <1>10, <1>11 DEF Inv

-----------------------------------------------------------------------------
(* Cancellations. *)

LEMMA CancelWriteKeeps ==
  ASSUME Inv, NEW r \in Requests, CancelWrite(r)
  PROVE  Inv' /\ Stays
<1>t. TypeOK
  BY DEF Inv
<1>q. req[r] \in ServiceRequest
  BY <1>t DEF TypeOK
<1> DEFINE new == [req[r] EXCEPT !.status = "cancelled"]
<1>1. /\ new \in ServiceRequest /\ new.status = "cancelled" /\ new.ref = req[r].ref
      /\ new.outputs = req[r].outputs /\ new.breaches = req[r].breaches
  BY <1>q, StatusChanged DEF TerminalRequestStatus
<1>2. Mutate(r, new)
  BY DEF CancelWrite
<1> HIDE DEF new
<1>3. /\ req' \in [Requests -> ServiceRequest]
      /\ req'[r] = new /\ \A p \in Requests : p # r => req'[p] = req[p]
  BY <1>t, <1>1, <1>2, Mutated
<1>4. TypeOK'
  BY <1>t, <1>3 DEF CancelWrite, TypeOK, external
<1>5. Dispatching' /\ Polling' /\ CopyCounts'
  BY <1>1, <1>3 DEF Inv, Dispatching, Polling, CopyCounts, CancelWrite, Polled
<1>6. AnswerHolds' /\ EndsRecorded'
  BY <1>1, <1>3 DEF Inv, AnswerHolds, EndsRecorded, CancelWrite, Polled, external
<1>7. AllSound'
  BY <1>1, <1>3 DEF Inv, AllSound, Sound, CancelWrite, external
<1>8. AnnouncedOnce'
  BY <1>1, <1>3 DEF Inv, AnnouncedOnce, CancelWrite
<1>9. Stays
  BY <1>1, <1>3 DEF Stays, CancelWrite
<1> QED
  BY <1>4, <1>5, <1>6, <1>7, <1>8, <1>9 DEF Inv

\* Steps that change neither requests, announcements nor module 03.
LEMMA BookkeepingKeeps ==
  ASSUME Inv, TypeOK', UNCHANGED <<req, dispatch, announced, saved, restarts, external>>,
         Polling', CopyCounts', AnswerHolds'
  PROVE  Inv' /\ Stays
<1>1. Dispatching' /\ EndsRecorded' /\ AllSound' /\ AnnouncedOnce'
  BY DEF Inv, Dispatching, EndsRecorded, AllSound, Sound, AnnouncedOnce, external
<1> QED
  BY <1>1 DEF Inv, Stays

LEMMA CancelCheckKeeps ==
  ASSUME Inv, NEW r \in Requests, CancelCheck(r)
  PROVE  Inv' /\ Stays
<1>1. TypeOK'
  BY DEF Inv, TypeOK, CancelCheck, external
<1>2. Polling' /\ CopyCounts' /\ AnswerHolds'
  BY DEF Inv, Polling, CopyCounts, AnswerHolds, CancelCheck, Polled, external
<1> QED
  BY <1>1, <1>2, BookkeepingKeeps DEF CancelCheck

-----------------------------------------------------------------------------
(* The poller. *)

LEMMA ListKeeps ==
  ASSUME Inv, ListNonTerminal
  PROVE  Inv' /\ Stays
<1>t. TypeOK
  BY DEF Inv
<1>1. \A r \in Requests :
        snap'[r] = IF req[r].status \in TerminalRequestStatus THEN Absent ELSE req[r]
  BY DEF ListNonTerminal, Listed
<1>2. /\ poller' = Idle /\ poller = Idle /\ snap' \in [Requests -> ServiceRequest]
      /\ UNCHANGED <<req, dispatch, cancelling, auth, misses, announced, saved, restarts, external>>
  BY <1>t, AbsentTyped DEF ListNonTerminal, Listed, TypeOK
<1>3. TypeOK'
  BY <1>t, <1>2 DEF TypeOK, external
<1>4. \A r \in Requests : ~Polled(r, "read")' /\ ~Polled(r, "mirrored")'
  BY <1>2 DEF Polled, Idle
<1>5. Polling'
  <2> SUFFICES ASSUME NEW r \in Requests, snap'[r].ref
               PROVE  /\ req[r].ref /\ req[r].status \in Active \cup {"cancelled"}
                      /\ announced[r] = <<>>
    BY <1>2 DEF Polling
  <2>1. req[r].status \notin TerminalRequestStatus /\ req[r].ref
    BY <1>1, AbsentTyped
  <2>2. req[r].status \in Active
    BY <1>t, <2>1, FieldsTyped DEF TypeOK, Inv, AllSound, Sound
  <2> QED
    BY <2>1, <2>2, NotAnnounced
<1>6. CopyCounts'
  BY <1>1, <1>2 DEF CopyCounts
<1>7. AnswerHolds'
  BY <1>4 DEF AnswerHolds
<1> QED
  BY <1>2, <1>3, <1>5, <1>6, <1>7, BookkeepingKeeps

LEMMA SkipKeeps ==
  ASSUME Inv, NEW r \in Requests, Skip(r)
  PROVE  Inv' /\ Stays
<1>t. TypeOK
  BY DEF Inv
<1>1. /\ snap' \in [Requests -> ServiceRequest] /\ poller' = Idle /\ poller = Idle
      /\ snap'[r] = Absent /\ \A p \in Requests : p # r => snap'[p] = snap[p]
      /\ UNCHANGED <<req, dispatch, cancelling, auth, misses, announced, saved, restarts, external>>
  BY <1>t, HandledTyped DEF Skip
<1>2. TypeOK'
  BY <1>t, <1>1 DEF TypeOK, external
<1>3. \A p \in Requests : ~Polled(p, "read")' /\ ~Polled(p, "mirrored")'
                         /\ ~Polled(p, "read") /\ ~Polled(p, "mirrored")
  BY <1>1 DEF Polled, Idle
<1>4. Polling' /\ CopyCounts' /\ AnswerHolds'
  BY <1>1, <1>3, AbsentTyped DEF Inv, Polling, CopyCounts, AnswerHolds
<1> QED
  BY <1>1, <1>2, <1>4, BookkeepingKeeps

LEMMA ReadKeeps ==
  ASSUME Inv, NEW r \in Requests, GetWorkflowState(r)
  PROVE  Inv' /\ Stays
<1>t. TypeOK
  BY DEF Inv
<1>1. PICK answer \in {"error"} \cup (IF r \in auth THEN {run[r]} ELSE {}) :
        \E output \in Shows(r, answer) :
          poller' = [phase |-> "read", of |-> r, answer |-> answer, output |-> output]
  BY DEF GetWorkflowState
<1>o. PICK output \in Shows(r, answer) :
        poller' = [phase |-> "read", of |-> r, answer |-> answer, output |-> output]
  BY <1>1
<1>b. output \in BOOLEAN
  BY <1>o DEF Shows
<1>e. "error" \notin RunEnds
  BY DEF RunEnds, Failures
<1>2. /\ answer \in Runs \cup {"error"} /\ (answer \in RunEnds => answer \in ran[r])
      /\ output \in BOOLEAN
  BY <1>t, <1>1, <1>b, <1>e DEF TypeOK, Inv, EndsRecorded
<1>8. r \in Drafts /\ answer \in HasOutput => output
  BY <1>o DEF Shows, HasOutput
<1>3. TypeOK'
  BY <1>t, <1>o, <1>2 DEF TypeOK, GetWorkflowState, external
<1>4. /\ Polled(r, "read")' /\ \A p \in Requests : ~Polled(p, "mirrored")'
      /\ \A p \in Requests : p # r => ~Polled(p, "read")'
      /\ \A p \in Requests : ~Polled(p, "mirrored")
      /\ poller'.answer = answer /\ poller'.output = output
  BY <1>o DEF Polled, GetWorkflowState, Idle
<1>5. snap[r].ref /\ UNCHANGED <<req, dispatch, cancelling, snap, auth, misses, announced,
                                saved, restarts, external>>
  BY DEF GetWorkflowState
<1>6. Polling' /\ CopyCounts'
  BY <1>4, <1>5 DEF Inv, Polling, CopyCounts
<1>7. AnswerHolds'
  BY <1>2, <1>4, <1>5, <1>8 DEF AnswerHolds, external
<1> QED
  BY <1>3, <1>5, <1>6, <1>7, BookkeepingKeeps

LEMMA MirrorKeeps ==
  ASSUME Inv, NEW r \in Requests, MirrorNodes(r)
  PROVE  Inv' /\ Stays
<1>t. TypeOK
  BY DEF Inv
<1>q. req[r] \in ServiceRequest
  BY <1>t DEF TypeOK
<1> DEFINE more == IF Unseen(r) THEN 1 ELSE 0
           new == [req[r] EXCEPT !.outputs = @ + more]
<1>1. /\ new \in ServiceRequest /\ new.status = req[r].status /\ new.ref = req[r].ref
      /\ new.outputs = req[r].outputs + more /\ new.breaches = req[r].breaches
  <2>1. more \in {0, 1}
    OBVIOUS
  <2> HIDE DEF more
  <2> QED
    BY <1>q, <2>1, OutputNoted
<1>2. Mutate(r, new)
  <2>1. req[r].outputs \in Nat
    BY <1>q, FieldsTyped
  <2>2. [req[r] EXCEPT !.outputs = IF Unseen(r) THEN @ + 1 ELSE @] = new
    BY <2>1, <1>q DEF ServiceRequest
  <2> QED
    BY <2>2 DEF MirrorNodes
<1> HIDE DEF new
<1>3. /\ req' \in [Requests -> ServiceRequest]
      /\ req'[r] = new /\ \A p \in Requests : p # r => req'[p] = req[p]
  BY <1>t, <1>1, <1>2, Mutated
<1>p. Polled(r, "read") /\ ~Polled(r, "mirrored") /\ poller \in Polls /\ poller.answer # "error"
  BY <1>t, PolledTyped DEF MirrorNodes, Polled
<1>4. /\ poller' \in Polls /\ poller'.of = r /\ poller'.phase = "mirrored"
      /\ poller'.answer = poller.answer /\ poller'.output = poller.output
  BY <1>p DEF MirrorNodes, Polls, Polled
<1>5. /\ Polled(r, "mirrored")' /\ \A p \in Requests : ~Polled(p, "read")'
      /\ \A p \in Requests : p # r => ~Polled(p, "mirrored")' /\ ~Polled(p, "mirrored")
  BY <1>4, <1>p DEF Polled
<1>6. /\ snap[r].ref /\ (poller.answer \in RunEnds => poller.answer \in ran[r])
      /\ r \in Drafts /\ poller.answer \in HasOutput => poller.output
  BY <1>p DEF Inv, AnswerHolds
<1>7. snap[r].outputs = req[r].outputs
  BY <1>p, <1>6, AbsentTyped DEF Inv, CopyCounts
<1>8. req[r].outputs \in Nat /\ req[r].outputs <= 1 /\ snap[r].outputs \in Nat
  BY <1>q, <1>7, FieldsTyped DEF Inv, AllSound, Sound
<1>9. new.outputs <= 1 /\ (poller.output => new.outputs = 1)
      /\ (req[r].outputs = 1 => new.outputs = 1)
  BY <1>1, <1>7, <1>8 DEF Unseen
<1>10. /\ misses' = [misses EXCEPT ![r] = 0]
       /\ UNCHANGED <<dispatch, cancelling, snap, auth, announced, saved, restarts, external>>
  BY DEF MirrorNodes
<1>11. TypeOK'
  BY <1>t, <1>3, <1>4, <1>10, LoopAssumption DEF TypeOK, external, Polls
<1>12. Dispatching' /\ Polling' /\ CopyCounts'
  BY <1>1, <1>3, <1>5, <1>10 DEF Inv, Dispatching, Polling, CopyCounts
<1>13. AnswerHolds' /\ EndsRecorded'
  BY <1>3, <1>4, <1>5, <1>6, <1>9, <1>10 DEF Inv, AnswerHolds, EndsRecorded, external
<1>14. AllSound'
  BY <1>1, <1>3, <1>9, <1>10 DEF Inv, AllSound, Sound, Noted, external
<1>15. AnnouncedOnce'
  BY <1>1, <1>3, <1>10 DEF Inv, AnnouncedOnce
<1>16. Stays
  BY <1>1, <1>3 DEF Stays
<1> QED
  BY <1>11, <1>12, <1>13, <1>14, <1>15, <1>16 DEF Inv

\* The end of a copy's handling, with what was made of the request.
LEMMA HandledKeeps ==
  ASSUME Inv, NEW r \in Requests, Polled(r, "read") \/ Polled(r, "mirrored"), Handled(r),
         UNCHANGED <<dispatch, cancelling, saved, restarts, external>>,
         auth' \subseteq Requests, misses' \in [Requests -> 0 .. MissLimit - 1],
         req' \in [Requests -> ServiceRequest],
         announced' \in [Requests -> Seq(Verdicts)],
         \A p \in Requests : p # r => req'[p] = req[p] /\ announced'[p] = announced[p],
         req'[r].ref = req[r].ref, Sound(r, req'[r]),
         \/ announced'[r] = <<>>
         \/ \E v \in Verdicts : announced'[r] = Append(<<>>, v) /\ req'[r].status \in {v, "cancelled"}
  PROVE  Inv' /\ Stays
<1>t. TypeOK
  BY DEF Inv
<1>1. /\ snap' \in [Requests -> ServiceRequest] /\ poller' = Idle
      /\ snap'[r] = Absent /\ \A p \in Requests : p # r => snap'[p] = snap[p]
  BY <1>t, HandledTyped
<1>2. /\ snap[r].ref /\ req[r].ref
      /\ req[r].status \in Active \cup {"cancelled"}
  BY DEF Inv, AnswerHolds, Polling
<1>3. dispatch[r] = "idle"
  BY <1>2 DEF Inv, Dispatching
<1>4. \A p \in Requests : ~Polled(p, "read")' /\ ~Polled(p, "mirrored")'
                         /\ (p # r => ~Polled(p, "mirrored"))
  BY <1>1, <1>t, PolledTyped DEF Polled, Idle
<1>5. TypeOK'
  BY <1>t, <1>1 DEF TypeOK, external
<1>6. Dispatching' /\ Polling' /\ CopyCounts' /\ AnswerHolds' /\ EndsRecorded'
  <2>1. Dispatching'
    BY <1>3 DEF Inv, Dispatching
  <2>2. Polling'
    BY <1>1, AbsentTyped DEF Inv, Polling
  <2>3. CopyCounts'
    BY <1>1, <1>4 DEF Inv, CopyCounts
  <2>4. AnswerHolds' /\ EndsRecorded'
    BY <1>4 DEF Inv, AnswerHolds, EndsRecorded, external
  <2> QED BY <2>1, <2>2, <2>3, <2>4
<1>7. AllSound'
  BY DEF Inv, AllSound, Sound, external
<1>8. AnnouncedOnce'
  <2>1. announced'[r] # <<>> => Len(announced'[r]) = 1 /\ req'[r].status \in {announced'[r][1], "cancelled"}
    BY FirstAnnounced
  <2> QED
    BY <2>1 DEF Inv, AnnouncedOnce
<1>9. Stays
  BY <1>2 DEF Stays, Active, Verdicts
<1> QED
  BY <1>5, <1>6, <1>7, <1>8, <1>9 DEF Inv

\* Finish announces the first end, and that end holds unless there was a
\* cancellation.
LEMMA FinishKeeps ==
  ASSUME Inv, NEW r \in Requests, Polled(r, "read") \/ Polled(r, "mirrored"), Handled(r),
         UNCHANGED <<dispatch, cancelling, saved, restarts, external>>,
         NEW q \in ServiceRequest, NEW v \in Verdicts, Finish(r, q, v),
         q.status = req[r].status, q.ref = req[r].ref, q.outputs = req[r].outputs,
         q.breaches <= 1,
         v = "completed" => "completed" \in ran[r] /\ Noted(r, q),
         v = "rejected" => ran[r] \cap {"refused", "expired"} # {} /\ Noted(r, q)
  PROVE  Inv' /\ Stays
<1>t. TypeOK
  BY DEF Inv
<1>1. /\ snap[r].ref /\ req[r].status \in Active \cup {"cancelled"} /\ announced[r] = <<>>
  BY DEF Inv, AnswerHolds, Polling
<1>2. /\ req' \in [Requests -> ServiceRequest]
      /\ \A p \in Requests : p # r => req'[p] = req[p] /\ announced'[p] = announced[p]
      /\ req'[r].ref = q.ref /\ req'[r].outputs = q.outputs /\ req'[r].breaches = q.breaches
      /\ req'[r].status = IF req[r].status \in TerminalRequestStatus THEN q.status ELSE v
      /\ announced' \in [Requests -> Seq(Verdicts)]
      /\ announced'[r] = Append(<<>>, v)
      /\ auth' \subseteq Requests
      /\ misses' \in [Requests -> 0 .. MissLimit - 1]
  BY <1>t, <1>1, FinishTyped
<1>3. req'[r].status \in {v, "cancelled"}
  BY <1>1, <1>2 DEF TerminalRequestStatus, Verdicts, Active
<1>4. req[r].outputs <= 1
  BY DEF Inv, AllSound, Sound
<1>5. Sound(r, req'[r])
  BY <1>2, <1>3, <1>4 DEF Sound, Noted, Verdicts
<1> QED
  BY <1>2, <1>3, <1>5, HandledKeeps

LEMMA MissKeeps ==
  ASSUME Inv, NEW r \in Requests, Miss(r)
  PROVE  Inv' /\ Stays
<1>t. TypeOK
  BY DEF Inv
<1>q. req[r] \in ServiceRequest /\ Sound(r, req[r])
  BY <1>t DEF TypeOK, Inv, AllSound
<1>p. /\ Polled(r, "read") /\ Handled(r)
      /\ UNCHANGED <<dispatch, cancelling, saved, restarts, external>>
  BY DEF Miss
<1>1. CASE Finish(r, req[r], "failed")
  <2>1. req[r].breaches <= 1
    BY <1>q DEF Sound
  <2> QED
    BY <1>1, <1>p, <1>q, <2>1, FinishKeeps DEF Verdicts
<1>2. CASE /\ misses[r] + 1 < MissLimit
           /\ misses' = [misses EXCEPT ![r] = @ + 1] /\ UNCHANGED <<req, auth, announced>>
  <2>1. misses[r] \in Nat /\ misses[r] + 1 \in 0 .. MissLimit - 1
    BY <1>t, <1>2, LoopAssumption DEF TypeOK
  <2>2. misses' \in [Requests -> 0 .. MissLimit - 1]
    BY <1>t, <1>2, <2>1 DEF TypeOK
  <2>3. announced[r] = <<>>
    BY <1>p DEF Inv, AnswerHolds, Polling
  <2> QED
    BY <1>t, <1>2, <1>p, <1>q, <2>2, <2>3, HandledKeeps DEF TypeOK
<1> QED
  <2>1. misses[r] \in Nat /\ MissLimit \in Nat
    BY <1>t, LoopAssumption DEF TypeOK
  <2> QED
    BY <1>1, <1>2, <2>1 DEF Miss, Missed

LEMMA DecideKeeps ==
  ASSUME Inv, NEW r \in Requests, Decide(r)
  PROVE  Inv' /\ Stays
<1>t. TypeOK
  BY DEF Inv
<1>q. req[r] \in ServiceRequest /\ Sound(r, req[r])
  BY <1>t DEF TypeOK, Inv, AllSound
<1>p. /\ Polled(r, "mirrored") /\ Handled(r)
      /\ UNCHANGED <<dispatch, cancelling, saved, restarts, external>>
  BY DEF Decide
<1>a. /\ poller.answer \in RunEnds => poller.answer \in ran[r]
      /\ r \in Drafts /\ poller.answer \in HasOutput => req[r].outputs = 1
      /\ snap[r].ref
  BY <1>p DEF Inv, AnswerHolds
<1>b. announced[r] = <<>> /\ snap[r].breaches = req[r].breaches
  BY <1>a, AbsentTyped DEF Inv, Polling, CopyCounts
<1>1. PICK breach \in {0} \cup (IF MayBreach(r) THEN {1} ELSE {}) :
        LET noted == [req[r] EXCEPT !.breaches = @ + breach] IN
        CASE poller.answer \in RunEnds -> Finish(r, noted, VerdictOf(r, poller.answer))
          [] poller.answer = "gate" /\ snap[r].status # "awaiting_approval" ->
               /\ Mutate(r, [noted EXCEPT !.status = "awaiting_approval"])
               /\ UNCHANGED <<auth, misses, announced>>
          [] OTHER -> Mutate(r, noted) /\ UNCHANGED <<auth, misses, announced>>
  BY DEF Decide
<1> DEFINE noted == [req[r] EXCEPT !.breaches = @ + breach]
<1>2. /\ noted \in ServiceRequest /\ noted.status = req[r].status /\ noted.ref = req[r].ref
      /\ noted.outputs = req[r].outputs /\ noted.breaches = req[r].breaches + breach
  BY <1>q, BreachNoted
<1>3. noted.breaches <= 1
  <2>1. req[r].breaches \in Nat /\ req[r].breaches <= 1
    BY <1>q, FieldsTyped DEF Sound
  <2> QED
    BY <1>b, <1>2, <2>1 DEF MayBreach
<1>4. CASE poller.answer \in RunEnds
  <2>0. poller.answer # "gate"
    BY <1>4 DEF RunEnds, Failures
  <2>1. Finish(r, noted, VerdictOf(r, poller.answer))
    BY <1>1, <1>4, <2>0
  <2>2. /\ VerdictOf(r, poller.answer) \in Verdicts
        /\ VerdictOf(r, poller.answer) = "completed" => poller.answer = "completed"
        /\ VerdictOf(r, poller.answer) = "rejected" => poller.answer \in {"refused", "expired"}
    BY DEF VerdictOf, Verdicts
  <2>3. {"completed", "refused", "expired"} \subseteq HasOutput
    BY DEF HasOutput
  <2>4. /\ VerdictOf(r, poller.answer) = "completed" => "completed" \in ran[r] /\ Noted(r, noted)
        /\ VerdictOf(r, poller.answer) = "rejected" =>
             ran[r] \cap {"refused", "expired"} # {} /\ Noted(r, noted)
    BY <1>a, <1>2, <1>4, <2>2, <2>3 DEF Noted
  <2> HIDE DEF noted
  <2> QED
    BY <1>p, <1>2, <1>3, <2>1, <2>2, <2>4, FinishKeeps
\* What else is written leaves the end open.
<1>5. ASSUME NEW q \in ServiceRequest, Mutate(r, q), UNCHANGED <<auth, misses, announced>>,
             q.status \in {req[r].status, "awaiting_approval"}, q.ref = req[r].ref,
             q.outputs = req[r].outputs, q.breaches <= 1
      PROVE  Inv' /\ Stays
  <2>1. /\ req' \in [Requests -> ServiceRequest]
        /\ req'[r] = q /\ \A p \in Requests : p # r => req'[p] = req[p]
    BY <1>t, <1>5, Mutated
  <2>2. Sound(r, q)
    BY <1>q, <1>5 DEF Sound, Noted
  <2> QED
    BY <1>t, <1>p, <1>b, <1>5, <2>1, <2>2, HandledKeeps DEF TypeOK
<1>6. CASE poller.answer \notin RunEnds /\ poller.answer = "gate" /\ snap[r].status # "awaiting_approval"
  <2> DEFINE q == [noted EXCEPT !.status = "awaiting_approval"]
  <2>1. Mutate(r, q) /\ UNCHANGED <<auth, misses, announced>>
    BY <1>1, <1>6
  <2>2. /\ q \in ServiceRequest /\ q.status = "awaiting_approval" /\ q.ref = noted.ref
        /\ q.outputs = noted.outputs /\ q.breaches = noted.breaches
    BY <1>2, StatusChanged DEF Active
  <2> HIDE DEF q, noted
  <2> QED
    BY <1>2, <1>3, <1>5, <2>1, <2>2
<1>7. CASE poller.answer \notin RunEnds /\ ~(poller.answer = "gate" /\ snap[r].status # "awaiting_approval")
  <2>1. Mutate(r, noted) /\ UNCHANGED <<auth, misses, announced>>
    BY <1>1, <1>7
  <2> HIDE DEF noted
  <2> QED
    BY <1>2, <1>3, <1>5, <2>1
<1> QED
  BY <1>4, <1>6, <1>7

-----------------------------------------------------------------------------
(* The process. *)

LEMMA SaveKeeps ==
  ASSUME Inv, Save
  PROVE  Inv' /\ Stays
<1>1. TypeOK'
  BY DEF Inv, TypeOK, Save, memory, external
<1>2. Dispatching' /\ Polling' /\ CopyCounts' /\ AnswerHolds' /\ EndsRecorded' /\ AnnouncedOnce'
  BY DEF Inv, Dispatching, Polling, CopyCounts, AnswerHolds, EndsRecorded, AnnouncedOnce,
         Save, memory, external, Polled
<1>3. AllSound'
  BY DEF Inv, AllSound, Sound, Save, external
<1> QED
  BY <1>1, <1>2, <1>3 DEF Inv, Stays, Save

LEMMA RestartKeeps ==
  ASSUME Inv, Restart
  PROVE  Inv' /\ Stays
<1>1. TypeOK'
  <2>1. restarts \in Nat /\ MaxRestarts \in Nat /\ restarts' \in 0 .. MaxRestarts
    BY LoopAssumption DEF Inv, TypeOK, Restart
  <2>2. announced' \in [Requests -> Seq(Verdicts)]
    BY DEF Restart
  <2>3. misses' \in [Requests -> 0 .. MissLimit - 1]
    BY LoopAssumption DEF Restart
  <2> QED
    BY <2>1, <2>2, <2>3, AbsentTyped DEF Inv, TypeOK, Restart, external
<1>2. \A r \in Requests : ~Polled(r, "read")' /\ ~Polled(r, "mirrored")'
  BY DEF Restart, Polled, Idle
<1>3. Dispatching' /\ Polling' /\ CopyCounts' /\ AnswerHolds' /\ EndsRecorded' /\ AnnouncedOnce'
  BY <1>2, AbsentTyped
  DEF Inv, Dispatching, Polling, CopyCounts, AnswerHolds, EndsRecorded, AnnouncedOnce,
      Restart, external
<1>4. AllSound'
  BY DEF Inv, AllSound, Sound, Restart, external
<1>5. Stays
  BY LoopAssumption DEF Inv, TypeOK, Stays, Restart
<1> QED
  BY <1>1, <1>3, <1>4, <1>5 DEF Inv

LEMMA StutterKeeps ==
  ASSUME Inv, UNCHANGED vars
  PROVE  Inv' /\ Stays
<1>1. UNCHANGED <<req, cancelling, snap, poller, auth, misses, announced, saved, restarts,
                 dispatch, run, ran>>
  BY DEF vars
<1> QED
  BY <1>1, WorldKeeps DEF Inv, TypeOK, EndsRecorded

LEMMA NextKeeps ==
  ASSUME Inv, [Next]_vars
  PROVE  Inv' /\ Stays
BY CreateKeeps, CallKeeps, RunKeeps, DispatchFailsKeeps, RecordRunKeeps, CancelWriteKeeps,
   CancelCheckKeeps, ListKeeps, SkipKeeps, ReadKeeps, MirrorKeeps, MissKeeps, DecideKeeps,
   SaveKeeps, RestartKeeps, StutterKeeps
DEF Next, Handler, Poller, EmptyTick

-----------------------------------------------------------------------------
(* The theorems. *)

\* The inductive invariant of the loop holds for every set of requests, limit
\* of misses and number of restarts.
THEOREM LoopInvariant == Spec => []Inv
<1>1. Inv /\ [Next]_vars => Inv'
  BY NextKeeps
<1> QED
  BY InitKeeps, <1>1, PTL DEF Spec

\* Every variable of the loop keeps its type.
THEOREM LoopTypeCorrect == Spec => []TypeOK
<1>1. Inv => TypeOK
  BY DEF Inv
<1> QED
  BY LoopInvariant, <1>1, PTL

\* No request is completed or rejected without its run having been, nor without
\* its output.
THEOREM VerdictsAlwaysFounded == Spec => []VerdictFounded
<1>1. Inv => VerdictFounded
  BY DEF Inv, AllSound, Sound, VerdictFounded
<1> QED
  BY LoopInvariant, <1>1, PTL

\* The timeline of a request notes its output and its breach at most once.
THEOREM AlwaysNotedOnce == Spec => []NotedOnce
<1>1. Inv => NotedOnce
  BY DEF Inv, AllSound, Sound, NotedOnce
<1> QED
  BY LoopInvariant, <1>1, PTL

\* A process announces at most one end of a request.
THEOREM AlwaysAnnouncedOnce == Spec => []AnnouncedOnce
<1>1. Inv => AnnouncedOnce
  BY DEF Inv
<1> QED
  BY LoopInvariant, <1>1, PTL

\* Only a late cancellation replaces a verdict while the process lives.
THEOREM VerdictsStay == Spec => VerdictStays
<1>1. Inv /\ [Next]_vars =>
        [\A r \in Requests :
           (req[r].status \in Verdicts /\ req'[r].status # req[r].status)
             => (r \in cancelling /\ req'[r].status = "cancelled") \/ restarts' # restarts]_vars
  BY NextKeeps DEF Stays
<1> QED
  BY LoopInvariant, <1>1, PTL DEF Spec, VerdictStays
-----------------------------------------------------------------------------
(* Refinement: what each step is to one request. *)

\* A cancellation is only ever on its way for a request that was filed.
CancelsFiled == \A r \in cancelling : req[r].status # "absent"

\* What happens to a request while the process lives.
Goes(r) ==
  \/ UNCHANGED RC(r)!view
  \/ RC(r)!File \/ RC(r)!Work \/ RC(r)!Cancel \/ RC(r)!Keep \/ RC(r)!RunEnds
  \/ \E v \in Verdicts : RC(r)!Conclude(v)

\* A step that changes nothing of a request is no step of it.
LEMMA Untouched ==
  ASSUME NEW r \in Requests,
         req'[r] = req[r], announced'[r] = announced[r], saved'[r] = saved[r], ran'[r] = ran[r]
  PROVE  Goes(r)
BY DEF Goes, RC!view, Shown

\* Notes never exceed one, and grow.
LEMMA NotesRefine ==
  ASSUME Inv, Inv', NEW r \in Requests,
         req'[r].outputs \in {req[r].outputs, req[r].outputs + 1},
         req'[r].breaches \in {req[r].breaches, req[r].breaches + 1}
  PROVE  RC(r)!Notes
<1>1. /\ req[r].outputs \in Nat /\ req[r].breaches \in Nat
      /\ req'[r].outputs <= 1 /\ req'[r].breaches <= 1
  BY FieldsTyped DEF Inv, TypeOK, AllSound, Sound
<1>2. /\ req'[r].outputs \in {req[r].outputs, 1}
      /\ req'[r].breaches \in {req[r].breaches, 1}
  BY <1>1
<1> QED
  BY <1>2 DEF RC!Notes, Shown

LEMMA WorkRefines ==
  ASSUME Inv, Inv', NEW r \in Requests,
         announced[r] = <<>>, announced'[r] = announced[r],
         saved'[r] = saved[r], ran'[r] = ran[r],
         req[r].status \in Active \cup {"cancelled"},
         req'[r].status \in {req[r].status} \cup Active,
         req'[r].outputs \in {req[r].outputs, req[r].outputs + 1},
         req'[r].breaches \in {req[r].breaches, req[r].breaches + 1}
  PROVE  Goes(r)
<1>1. RC(r)!Notes
  BY NotesRefine
<1>2. /\ Shown(req[r]).status = req[r].status
      /\ Shown(req[r])'.status = req'[r].status
      /\ Shown(saved[r])' = Shown(saved[r])
  BY DEF Shown
<1> QED
  BY <1>1, <1>2 DEF Goes, RC!Work, RC!Working, Active

\* The verdict a request is given is the one announced, and founded.
LEMMA ConcludeRefines ==
  ASSUME Inv, Inv', NEW r \in Requests, NEW v \in Verdicts,
         announced[r] = <<>>, announced'[r] = Append(announced[r], v),
         saved'[r] = saved[r], ran'[r] = ran[r],
         req[r].status \in Active \cup {"cancelled"},
         req'[r].status \in {v} \cup ({req[r].status} \cap {"cancelled"}),
         req'[r].outputs \in {req[r].outputs, req[r].outputs + 1},
         req'[r].breaches \in {req[r].breaches, req[r].breaches + 1},
         v = "completed" => "completed" \in ran[r] /\ Noted(r, req'[r]),
         v = "rejected" => ran[r] \cap {"refused", "expired"} # {} /\ Noted(r, req'[r])
  PROVE  Goes(r)
<1>1. RC(r)!Notes
  BY NotesRefine
<1>2. /\ Shown(req[r]).status = req[r].status
      /\ Shown(req[r])'.status = req'[r].status
      /\ Shown(req[r])'.outputs = req'[r].outputs
      /\ Shown(saved[r])' = Shown(saved[r])
  BY DEF Shown
<1>3. announced'[r] = <<v>>
  OBVIOUS
<1>4. RC(r)!Founded(v)
  BY <1>2 DEF RC!Founded, Noted, Verdicts
<1>5. RC(r)!Conclude(v)
  BY <1>1, <1>2, <1>3, <1>4 DEF RC!Conclude, RC!Working, Active
<1> QED
  BY <1>5 DEF Goes

LEMMA DispatchRefines ==
  ASSUME Inv, Inv', NEW r \in Requests, NEW q \in Requests,
         \/ Create(q) \/ CreateWorkflow(q) \/ ExecuteWorkflow(q)
         \/ DispatchFails(q) \/ RecordRun(q)
  PROVE  Goes(r)
<1>t. TypeOK /\ req[q] \in ServiceRequest
  BY DEF Inv, TypeOK
<1>1. saved' = saved /\ ran' = ran
  BY DEF Create, CreateWorkflow, ExecuteWorkflow, DispatchFails, RecordRun, external
<1>2. CASE CreateWorkflow(q) \/ ExecuteWorkflow(q)
  BY <1>1, <1>2, Untouched DEF CreateWorkflow, ExecuteWorkflow
<1>3. CASE Create(q)
  <2> DEFINE new == [req[q] EXCEPT !.status = "open"]
  <2>1. /\ new \in ServiceRequest /\ new.status = "open"
        /\ new.outputs = req[q].outputs /\ new.breaches = req[q].breaches
    BY <1>t, StatusChanged DEF Active
  <2>2. req[q].status = "absent" /\ announced' = announced /\ Mutate(q, new)
    BY <1>3 DEF Create
  <2> HIDE DEF new
  <2>3. req'[q] = new /\ \A p \in Requests : p # q => req'[p] = req[p]
    BY <1>t, <2>1, <2>2, Mutated
  <2>4. CASE r = q
    <3>1. /\ Shown(req[r]).status = "absent"
          /\ Shown(req[r])' = [Shown(req[r]) EXCEPT !.status = "open"]
      BY <2>1, <2>2, <2>3, <2>4 DEF Shown
    <3> QED BY <1>1, <2>2, <3>1 DEF Goes, RC!File
  <2>5. CASE r # q
    BY <1>1, <2>2, <2>3, <2>5, Untouched
  <2> QED BY <2>4, <2>5
\* A dispatch touches a request that is open or was cancelled, unannounced.
<1>4. ASSUME dispatch[q] # "idle"
      PROVE  announced[q] = <<>> /\ req[q].status \in Active \cup {"cancelled"}
  BY <1>4 DEF Inv, Dispatching, Active
<1>5. CASE DispatchFails(q)
  <2> DEFINE new == [req[q] EXCEPT !.status = "failed"]
  <2>1. /\ new \in ServiceRequest /\ new.status = "failed"
        /\ new.outputs = req[q].outputs /\ new.breaches = req[q].breaches
    BY <1>t, StatusChanged DEF TerminalRequestStatus, Verdicts
  <2>2. dispatch[q] # "idle" /\ Announce(q, "failed") /\ Mutate(q, new)
    BY <1>5 DEF DispatchFails, FailRequest
  <2> HIDE DEF new
  <2>3. /\ req'[q] = new /\ \A p \in Requests : p # q => req'[p] = req[p]
        /\ announced'[q] = Append(announced[q], "failed")
        /\ \A p \in Requests : p # q => announced'[p] = announced[p]
    BY <1>t, <2>1, <2>2, Mutated, Announced DEF Verdicts
  <2>4. CASE r = q
    BY <1>1, <1>4, <2>1, <2>2, <2>3, <2>4, ConcludeRefines DEF Verdicts
  <2>5. CASE r # q
    BY <1>1, <2>3, <2>5, Untouched
  <2> QED BY <2>4, <2>5
<1>6. CASE RecordRun(q)
  <2> DEFINE new == [req[q] EXCEPT !.status = "in_progress", !.ref = TRUE]
  <2>1. /\ new \in ServiceRequest /\ new.status = "in_progress"
        /\ new.outputs = req[q].outputs /\ new.breaches = req[q].breaches
    BY <1>t, RunReferenced
  <2>2. dispatch[q] # "idle" /\ announced' = announced /\ Mutate(q, new)
    BY <1>6 DEF RecordRun
  <2> HIDE DEF new
  <2>3. req'[q] = new /\ \A p \in Requests : p # q => req'[p] = req[p]
    BY <1>t, <2>1, <2>2, Mutated
  <2>4. CASE r = q
    BY <1>1, <1>4, <2>1, <2>2, <2>3, <2>4, WorkRefines DEF Active
  <2>5. CASE r # q
    BY <1>1, <2>2, <2>3, <2>5, Untouched
  <2> QED BY <2>4, <2>5
<1> QED
  BY <1>2, <1>3, <1>5, <1>6

LEMMA CancelRefines ==
  ASSUME Inv, CancelsFiled, NEW r \in Requests, NEW q \in Requests,
         CancelCheck(q) \/ CancelWrite(q)
  PROVE  Goes(r)
<1>t. TypeOK /\ req[q] \in ServiceRequest
  BY DEF Inv, TypeOK
<1>1. saved' = saved /\ ran' = ran /\ announced' = announced
  BY DEF CancelCheck, CancelWrite, external
<1>2. CASE CancelCheck(q)
  BY <1>1, <1>2, Untouched DEF CancelCheck
<1>3. CASE CancelWrite(q)
  <2> DEFINE new == [req[q] EXCEPT !.status = "cancelled"]
  <2>1. /\ new \in ServiceRequest /\ new.status = "cancelled"
        /\ new.outputs = req[q].outputs /\ new.breaches = req[q].breaches
    BY <1>t, StatusChanged DEF TerminalRequestStatus
  <2>2. req[q].status # "absent" /\ Mutate(q, new)
    BY <1>3 DEF CancelWrite, CancelsFiled
  <2> HIDE DEF new
  <2>3. req'[q] = new /\ \A p \in Requests : p # q => req'[p] = req[p]
    BY <1>t, <2>1, <2>2, Mutated
  <2>4. CASE r = q
    <3>1. /\ Shown(req[r]).status # "absent"
          /\ Shown(req[r])' = [Shown(req[r]) EXCEPT !.status = "cancelled"]
      BY <2>1, <2>2, <2>3, <2>4 DEF Shown
    <3> QED BY <1>1, <3>1 DEF Goes, RC!Cancel
  <2>5. CASE r # q
    BY <1>1, <2>3, <2>5, Untouched
  <2> QED BY <2>4, <2>5
<1> QED BY <1>2, <1>3

\* What the poller writes to the request it has a copy of.
LEMMA PollRefines ==
  ASSUME Inv, Inv', NEW r \in Requests, NEW q \in Requests,
         Miss(q) \/ MirrorNodes(q) \/ Decide(q)
  PROVE  Goes(r)
<1>t. TypeOK /\ req[q] \in ServiceRequest
  BY DEF Inv, TypeOK
<1>1. saved' = saved /\ ran' = ran
  BY DEF Miss, MirrorNodes, Decide, external
<1>2. /\ announced[q] = <<>> /\ req[q].status \in Active \cup {"cancelled"}
      /\ poller.answer \in RunEnds => poller.answer \in ran[q]
  BY DEF Inv, AnswerHolds, Polling, Miss, MirrorNodes, Decide
\* A write that leaves the end open.
<1>3. ASSUME NEW new \in ServiceRequest, Mutate(q, new), announced' = announced,
             new.status \in {req[q].status} \cup Active,
             new.outputs \in {req[q].outputs, req[q].outputs + 1},
             new.breaches \in {req[q].breaches, req[q].breaches + 1}
      PROVE  Goes(r)
  <2>1. req'[q] = new /\ \A p \in Requests : p # q => req'[p] = req[p]
    BY <1>t, <1>3, Mutated
  <2>2. CASE r = q
    BY <1>1, <1>2, <1>3, <2>1, <2>2, WorkRefines
  <2>3. CASE r # q
    BY <1>1, <1>3, <2>1, <2>3, Untouched
  <2> QED BY <2>2, <2>3
\* The end.
<1>4. ASSUME NEW new \in ServiceRequest, NEW v \in Verdicts, Finish(q, new, v),
             new.status = req[q].status, new.outputs = req[q].outputs,
             new.breaches \in {req[q].breaches, req[q].breaches + 1},
             v = "completed" => "completed" \in ran[q] /\ Noted(q, new),
             v = "rejected" => ran[q] \cap {"refused", "expired"} # {} /\ Noted(q, new)
      PROVE  Goes(r)
  <2>1. /\ \A p \in Requests : p # q => req'[p] = req[p] /\ announced'[p] = announced[p]
        /\ req'[q].outputs = new.outputs /\ req'[q].breaches = new.breaches
        /\ req'[q].status = IF req[q].status \in TerminalRequestStatus THEN new.status ELSE v
        /\ announced'[q] = Append(announced[q], v)
    BY <1>t, <1>4, FinishTyped
  <2>2. req'[q].status \in {v} \cup ({req[q].status} \cap {"cancelled"})
    BY <1>2, <1>4, <2>1 DEF TerminalRequestStatus, Verdicts, Active
  <2>3. CASE r = q
    BY <1>1, <1>2, <1>4, <2>1, <2>2, <2>3, ConcludeRefines DEF Noted
  <2>4. CASE r # q
    BY <1>1, <2>1, <2>4, Untouched
  <2> QED BY <2>3, <2>4
<1>5. CASE Miss(q)
  <2>1. CASE Finish(q, req[q], "failed")
    BY <1>4, <1>t, <2>1 DEF Verdicts
  <2>2. CASE UNCHANGED <<req, auth, announced>>
    BY <1>1, <2>2, Untouched
  <2> QED BY <1>5, <2>1, <2>2 DEF Miss, Missed
<1>6. CASE MirrorNodes(q)
  <2> DEFINE more == IF Unseen(q) THEN 1 ELSE 0
             new == [req[q] EXCEPT !.outputs = @ + more]
  <2>1. more \in {0, 1}
    OBVIOUS
  <2>2. Mutate(q, new) /\ announced' = announced
    <3>1. req[q].outputs \in Nat
      BY <1>t, FieldsTyped
    <3>2. [req[q] EXCEPT !.outputs = IF Unseen(q) THEN @ + 1 ELSE @] = new
      BY <3>1, <1>t DEF ServiceRequest
    <3> QED BY <1>6, <3>2 DEF MirrorNodes
  <2> HIDE DEF more
  <2>3. /\ new \in ServiceRequest /\ new.status = req[q].status
        /\ new.outputs = req[q].outputs + more /\ new.breaches = req[q].breaches
    BY <1>t, <2>1, OutputNoted
  <2>4. new.outputs \in {req[q].outputs, req[q].outputs + 1}
    BY <1>t, <2>1, <2>3, FieldsTyped
  <2> HIDE DEF new
  <2> QED BY <1>3, <2>2, <2>3, <2>4
<1>7. CASE Decide(q)
  <2>1. PICK breach \in {0} \cup (IF MayBreach(q) THEN {1} ELSE {}) :
          LET noted == [req[q] EXCEPT !.breaches = @ + breach] IN
          CASE poller.answer \in RunEnds -> Finish(q, noted, VerdictOf(q, poller.answer))
            [] poller.answer = "gate" /\ snap[q].status # "awaiting_approval" ->
                 /\ Mutate(q, [noted EXCEPT !.status = "awaiting_approval"])
                 /\ UNCHANGED <<auth, misses, announced>>
            [] OTHER -> Mutate(q, noted) /\ UNCHANGED <<auth, misses, announced>>
    BY <1>7 DEF Decide
  <2> DEFINE noted == [req[q] EXCEPT !.breaches = @ + breach]
  <2>2. /\ noted \in ServiceRequest /\ noted.status = req[q].status
        /\ noted.outputs = req[q].outputs /\ noted.breaches = req[q].breaches + breach
    BY <1>t, BreachNoted
  <2>3. noted.breaches \in {req[q].breaches, req[q].breaches + 1}
    BY <1>t, <2>2, FieldsTyped
  <2>4. CASE poller.answer \in RunEnds
    <3>1. poller.answer # "gate"
      BY <2>4 DEF RunEnds, Failures
    <3>2. Finish(q, noted, VerdictOf(q, poller.answer))
      BY <2>1, <2>4, <3>1
    <3>3. /\ VerdictOf(q, poller.answer) \in Verdicts
          /\ VerdictOf(q, poller.answer) = "completed" => poller.answer = "completed"
          /\ VerdictOf(q, poller.answer) = "rejected" => poller.answer \in {"refused", "expired"}
      BY DEF VerdictOf, Verdicts
    <3>4. q \in Drafts /\ poller.answer \in HasOutput => noted.outputs = 1
      BY <1>7, <2>2 DEF Inv, AnswerHolds, Decide
    <3>5. /\ VerdictOf(q, poller.answer) = "completed" => "completed" \in ran[q] /\ Noted(q, noted)
          /\ VerdictOf(q, poller.answer) = "rejected" =>
               ran[q] \cap {"refused", "expired"} # {} /\ Noted(q, noted)
      BY <1>2, <2>4, <3>3, <3>4 DEF HasOutput, Noted
    <3> HIDE DEF noted
    <3> QED BY <1>4, <2>2, <2>3, <3>2, <3>3, <3>5
  <2>5. CASE poller.answer \notin RunEnds /\ poller.answer = "gate" /\ snap[q].status # "awaiting_approval"
    <3> DEFINE new == [noted EXCEPT !.status = "awaiting_approval"]
    <3>1. Mutate(q, new) /\ announced' = announced
      BY <2>1, <2>5
    <3>2. /\ new \in ServiceRequest /\ new.status = "awaiting_approval"
          /\ new.outputs = noted.outputs /\ new.breaches = noted.breaches
      BY <2>2, StatusChanged DEF Active
    <3> HIDE DEF new, noted
    <3> QED BY <1>3, <2>2, <2>3, <3>1, <3>2 DEF Active
  <2>6. CASE poller.answer \notin RunEnds /\ ~(poller.answer = "gate" /\ snap[q].status # "awaiting_approval")
    <3>1. Mutate(q, noted) /\ announced' = announced
      BY <2>1, <2>6
    <3> HIDE DEF noted
    <3> QED BY <1>3, <2>2, <2>3, <3>1
  <2> QED BY <2>4, <2>5, <2>6
<1> QED BY <1>5, <1>6, <1>7

\* The run moves, or the request is saved.
LEMMA WorldRefines ==
  ASSUME Inv, NEW r \in Requests, NEW q \in Requests, RunStep(q) \/ Save
  PROVE  Goes(r)
<1>1. CASE RunStep(q)
  <2>1. ran[r] \subseteq ran'[r]
    BY <1>1 DEF RunStep, Inv, TypeOK
  <2>2. UNCHANGED <<Shown(req[r]), announced[r], Shown(saved[r])>>
    BY <1>1 DEF RunStep, memory
  <2> QED BY <2>1, <2>2 DEF Goes, RC!RunEnds
<1>2. CASE Save
  <2>1. /\ Shown(saved[r])' = Shown(req[r])
        /\ UNCHANGED <<Shown(req[r]), announced[r], ran[r]>>
    BY <1>2 DEF Save, memory, external
  <2> QED BY <2>1 DEF Goes, RC!Keep
<1> QED BY <1>1, <1>2

LEMMA LivingStepRefines ==
  ASSUME Inv, Inv', CancelsFiled, [Next]_vars, ~Restart, NEW r \in Requests
  PROVE  Goes(r)
<1>1. ASSUME UNCHANGED <<req, announced, saved, ran>>
      PROVE  Goes(r)
  BY <1>1, Untouched
<1>2. ASSUME NEW q \in Requests, Handler(q) \/ Create(q) \/ CancelCheck(q) \/ RunStep(q)
      PROVE  Goes(r)
  BY <1>2, DispatchRefines, CancelRefines, WorldRefines DEF Handler
<1>3. CASE Poller
  <2>1. CASE ListNonTerminal
    BY <1>1, <2>1 DEF ListNonTerminal, external
  <2>2. ASSUME NEW q \in Requests, Skip(q) \/ GetWorkflowState(q)
        PROVE  Goes(r)
    BY <1>1, <2>2 DEF Skip, GetWorkflowState, external
  <2>3. ASSUME NEW q \in Requests, Miss(q) \/ MirrorNodes(q) \/ Decide(q)
        PROVE  Goes(r)
    BY <2>3, PollRefines
  <2> QED BY <1>3, <2>1, <2>2, <2>3 DEF Poller
<1>4. CASE Save
  BY <1>4, WorldRefines
<1>5. CASE UNCHANGED vars
  BY <1>1, <1>5 DEF vars
<1> QED
  BY <1>2, <1>3, <1>4, <1>5 DEF Next, EmptyTick

\* A living process forgets no request.
LEMMA StaysFiled ==
  ASSUME NEW r \in Requests, Goes(r), req[r].status # "absent"
  PROVE  req'[r].status # "absent"
<1>1. Shown(req[r]).status = req[r].status /\ Shown(req[r])'.status = req'[r].status
  BY DEF Shown
<1>2. CASE UNCHANGED RC(r)!view \/ RC(r)!Keep \/ RC(r)!RunEnds
  BY <1>1, <1>2 DEF RC!view, RC!Keep, RC!RunEnds
<1>3. CASE RC(r)!File \/ RC(r)!Cancel
  BY <1>1, <1>3 DEF RC!File, RC!Cancel, Shown
<1>4. CASE RC(r)!Work \/ \E v \in Verdicts : RC(r)!Conclude(v)
  BY <1>1, <1>4 DEF RC!Work, RC!Conclude, RC!Working, Verdicts
<1> QED
  BY <1>2, <1>3, <1>4 DEF Goes

LEMMA CancelsFiledStep ==
  ASSUME Inv, Inv', CancelsFiled, [Next]_vars
  PROVE  CancelsFiled'
<1>1. CASE Restart
  BY <1>1 DEF Restart, CancelsFiled
<1>2. CASE ~Restart
  <2>1. ASSUME NEW r \in Requests, req[r].status # "absent" PROVE req'[r].status # "absent"
    BY <1>2, <2>1, LivingStepRefines, StaysFiled
  <2>2. \A r \in cancelling' : r \in Requests /\ (r \in cancelling \/ req[r].status # "absent")
    <3> DEFINE Goal == \A r \in cancelling' :
                         r \in Requests /\ (r \in cancelling \/ req[r].status # "absent")
    <3>0. cancelling \subseteq Requests
      BY DEF Inv, TypeOK
    <3>1. ASSUME NEW q \in Requests, CancelCheck(q) PROVE Goal
      BY <3>0, <3>1 DEF CancelCheck, Active
    <3>2. ASSUME cancelling' \subseteq cancelling PROVE Goal
      BY <3>0, <3>2
    <3>3. ASSUME NEW q \in Requests, Create(q) \/ Handler(q) \/ RunStep(q) PROVE Goal
      BY <3>2, <3>3 DEF Create, Handler, CreateWorkflow, ExecuteWorkflow, DispatchFails, RecordRun,
                        CancelWrite, RunStep, memory
    <3>4. ASSUME Poller \/ Save \/ UNCHANGED vars PROVE Goal
      BY <3>2, <3>4 DEF Poller, ListNonTerminal, Skip, GetWorkflowState, Miss, MirrorNodes, Decide,
                        Save, memory, vars
    <3> HIDE DEF Goal
    <3>5. \/ \E q \in Requests : Create(q) \/ CancelCheck(q) \/ Handler(q) \/ RunStep(q)
          \/ Poller \/ Save \/ UNCHANGED vars
      BY <1>2 DEF Next, EmptyTick
    <3>6. Goal
      BY <3>1, <3>3, <3>4, <3>5
    <3> QED BY <3>6 DEF Goal
  <2> QED
    BY <2>1, <2>2 DEF CancelsFiled
<1> QED BY <1>1, <1>2

\* Each request implements RequestContract: one end, announced once, founded
\* on its run, with every note made once, whatever the dispatch, the poller and
\* cancellations do on stale copies (workloop.go, requests.go).
THEOREM RequestsImplementContract == Spec => ImplementsRequestContract
<1>1. Init => /\ CancelsFiled
              /\ \A r \in Requests : RC(r)!Init
  BY DEF Init, CancelsFiled, Absent, Shown, RC!Init
<1>2. ASSUME Inv, CancelsFiled, [Next]_vars
      PROVE  CancelsFiled' /\ \A r \in Requests : [RC(r)!Next]_(RC(r)!view)
  <2>1. Inv'
    BY <1>2, NextKeeps
  <2>2. ASSUME NEW r \in Requests PROVE [RC(r)!Next]_(RC(r)!view)
    <3>1. CASE Restart
      <4>1. /\ Shown(req[r])' = Shown(saved[r]) /\ announced'[r] = <<>>
            /\ UNCHANGED <<Shown(saved[r]), ran[r]>>
        BY <3>1 DEF Restart, external
      <4> QED BY <4>1 DEF RC!Recover, RC!Next
    <3>2. CASE ~Restart
      <4>1. Goes(r)
        BY <1>2, <2>1, <3>2, LivingStepRefines
      <4> QED BY <4>1 DEF Goes, RC!Next, Verdicts
    <3> QED BY <3>1, <3>2
  <2> QED BY <1>2, <2>1, <2>2, CancelsFiledStep
<1>3. ASSUME Inv, CancelsFiled, [Next]_vars
      PROVE  CancelsFiled' /\ [\A r \in Requests : [RC(r)!Next]_(RC(r)!view)]_vars
  BY <1>2, <1>3
<1> QED
  BY <1>1, <1>3, LoopInvariant, PTL DEF Spec, ImplementsRequestContract
=============================================================================
