---------------------------- MODULE RequestLoop ----------------------------
(***************************************************************************)
(* Service requests of a department (module 05): the intake handler that   *)
(* dispatches a request as a workflow run of module 03, the cancel         *)
(* handler, the poller that mirrors the run onto the request, and the      *)
(* snapshots the process restarts from.                                    *)
(*                                                                         *)
(* The poller works on copies it listed before its HTTP calls.  Requests   *)
(* are independent but for the poller, which handles one at a time.        *)
(***************************************************************************)
EXTENDS Naturals, Sequences

CONSTANTS
  Requests,     \* the requests ever filed
  Drafts,       \* those whose procedure drafts something before its sign-off
  NamedGates,   \* those whose sign-off steps have ids that begin with "gate"
  MissLimit,    \* consecutive failed reads before a request is failed
  MaxRestarts   \* bound on restarts of the process

ASSUME LoopAssumption ==
  /\ Drafts \subseteq Requests /\ NamedGates \subseteq Requests
  /\ MissLimit \in Nat \ {0} /\ MaxRestarts \in Nat

VARIABLES
  req,         \* RequestStore.requests
  dispatch,    \* request -> next call of its Dispatch
  cancelling,  \* requests whose cancel handler has passed its check
  snap,        \* request -> copy the poller listed and has not handled yet
  poller,      \* the request being polled, what module 03 answered, progress
  auth,        \* requests with an entry in Loop.auths
  misses,      \* Loop.misses
  announced,   \* request -> final events published by this process
  saved,       \* requests.json
  restarts,
  run,         \* request -> state of its workflow run in module 03
  ran          \* request -> final states its run has been in

vars == <<req, dispatch, cancelling, snap, poller, auth, misses, announced,
          saved, restarts, run, ran>>
memory == <<dispatch, cancelling, snap, poller, auth, misses, announced>>
external == <<run, ran>>

Verdicts == {"completed", "rejected", "failed"}
TerminalRequestStatus == Verdicts \cup {"cancelled"}
Active == {"open", "in_progress", "awaiting_approval"}

\* outputs and breaches count the agent_output and sla_breached events.
ServiceRequest ==
  [status : {"absent"} \cup Active \cup TerminalRequestStatus,
   ref : BOOLEAN, outputs : Nat, breaches : Nat]

Absent == [status |-> "absent", ref |-> FALSE, outputs |-> 0, breaches |-> 0]
Idle == [phase |-> "idle"]

\* A run drafts, waits at its gates, acts on the sign-offs and ends.  It fails
\* at a gate that is refused or expires, or elsewhere; a failed run may be
\* retried.
Failures == {"failed", "refused", "expired"}
RunEnds == {"completed", "cancelled"} \cup Failures
RunMoves ==
  [none |-> {}, created |-> {"cancelled"},
   drafting |-> {"gate", "completed", "failed", "cancelled"},
   gate |-> {"acting", "cancelled"} \cup Failures,
   acting |-> {"gate", "completed", "failed", "cancelled"},
   completed |-> {}, failed |-> {"drafting", "cancelled"},
   refused |-> {"drafting", "cancelled"}, expired |-> {"drafting", "cancelled"},
   cancelled |-> {}]
Runs == DOMAIN RunMoves
HasOutput == {"gate", "acting", "completed", "refused", "expired"}

Init ==
  /\ req = [r \in Requests |-> Absent]
  /\ dispatch = [r \in Requests |-> "idle"]
  /\ cancelling = {}
  /\ snap = [r \in Requests |-> Absent]
  /\ poller = Idle
  /\ auth = {}
  /\ misses = [r \in Requests |-> 0]
  /\ announced = [r \in Requests |-> <<>>]
  /\ saved = [r \in Requests |-> Absent]
  /\ restarts = 0
  /\ run = [r \in Requests |-> "none"]
  /\ ran = [r \in Requests |-> {}]

-----------------------------------------------------------------------------
(* Intake: the handler files the request and dispatches it before it       *)
(* answers, so the request is there to be cancelled between its calls.     *)

Mutate(r, fields) == req' = [req EXCEPT ![r] = fields]
Announce(r, verdict) == announced' = [announced EXCEPT ![r] = Append(@, verdict)]

Create(r) ==
  /\ req[r].status = "absent" /\ dispatch[r] = "idle" /\ run[r] = "none"
  /\ Mutate(r, [req[r] EXCEPT !.status = "open"])
  /\ dispatch' = [dispatch EXCEPT ![r] = "create"]
  /\ UNCHANGED <<cancelling, snap, poller, auth, misses, announced, saved,
                 restarts, external>>

\* A call of Dispatch fails: the request does, whatever it has become.
FailRequest(r) ==
  /\ Mutate(r, [req[r] EXCEPT !.status = "failed"])
  /\ Announce(r, "failed")
  /\ dispatch' = [dispatch EXCEPT ![r] = "idle"]

\* Faulty: the reference is recorded as soon as there is one.
FaultyCreateWorkflow(r) ==
  /\ dispatch[r] = "create"
  /\ Mutate(r, [req[r] EXCEPT !.ref = TRUE])
  /\ run' = [run EXCEPT ![r] = "created"]
  /\ dispatch' = [dispatch EXCEPT ![r] = "execute"]
  /\ UNCHANGED <<cancelling, snap, poller, auth, misses, announced, saved,
                 restarts, ran>>

CreateWorkflow(r) ==
  /\ dispatch[r] = "create"
  /\ run' = [run EXCEPT ![r] = "created"]
  /\ dispatch' = [dispatch EXCEPT ![r] = "execute"]
  /\ UNCHANGED <<req, cancelling, snap, poller, auth, misses, announced,
                 saved, restarts, ran>>

ExecuteWorkflow(r) ==
  /\ dispatch[r] = "execute" /\ run[r] = "created"
  /\ run' = [run EXCEPT ![r] = "drafting"]
  /\ dispatch' = [dispatch EXCEPT ![r] = "record"]
  /\ UNCHANGED <<req, cancelling, snap, poller, auth, misses, announced,
                 saved, restarts, ran>>

\* An error or the 30 s are over; module 03 may have served the call all the same.
DispatchFails(r) ==
  /\ \/ dispatch[r] = "create" /\ run' \in {run, [run EXCEPT ![r] = "created"]}
     \/ /\ dispatch[r] = "execute"
        /\ \/ UNCHANGED run
           \/ run[r] = "created" /\ run' = [run EXCEPT ![r] = "drafting"]
  /\ FailRequest(r)
  /\ UNCHANGED <<cancelling, snap, poller, auth, misses, saved, restarts, ran>>

RecordRun(r) ==
  /\ dispatch[r] = "record"
  /\ Mutate(r, [req[r] EXCEPT !.status = "in_progress", !.ref = TRUE])
  /\ auth' = auth \cup {r}
  /\ dispatch' = [dispatch EXCEPT ![r] = "idle"]
  /\ UNCHANGED <<cancelling, snap, poller, misses, announced, saved, restarts,
                 external>>

-----------------------------------------------------------------------------
(* Cancellation: the check and the write are two steps, and the run is not *)
(* told.                                                                   *)

CancelCheck(r) ==
  /\ req[r].status \in Active
  /\ r \notin cancelling
  /\ cancelling' = cancelling \cup {r}
  /\ UNCHANGED <<req, dispatch, snap, poller, auth, misses, announced, saved,
                 restarts, external>>

CancelWrite(r) ==
  /\ r \in cancelling
  /\ Mutate(r, [req[r] EXCEPT !.status = "cancelled"])
  /\ cancelling' = cancelling \ {r}
  /\ UNCHANGED <<dispatch, snap, poller, auth, misses, announced, saved,
                 restarts, external>>

-----------------------------------------------------------------------------
(* The poller. *)

\* Faulty: failed requests are listed too.
FaultyListed(r) ==
  IF req[r].status \in TerminalRequestStatus \ {"failed"} THEN Absent ELSE req[r]

Listed(r) == IF req[r].status \in TerminalRequestStatus THEN Absent ELSE req[r]

ListNonTerminal ==
  /\ poller = Idle
  /\ \A r \in Requests : snap[r] = Absent
  /\ \E r \in Requests : Listed(r) # Absent
  /\ snap' = [r \in Requests |-> Listed(r)]
  /\ UNCHANGED <<req, dispatch, cancelling, poller, auth, misses, announced,
                 saved, restarts, external>>

Handled(r) == snap' = [snap EXCEPT ![r] = Absent] /\ poller' = Idle

\* A request without a run reference is passed over.
Skip(r) ==
  /\ poller = Idle /\ snap[r] # Absent /\ ~snap[r].ref
  /\ Handled(r)
  /\ UNCHANGED <<req, dispatch, cancelling, auth, misses, announced, saved,
                 restarts, external>>

\* Whether the answer has an output.  A run past its draft has one; what drafts
\* nothing, is still at it, failed or was cancelled may have one or not.
Shows(r, answer) ==
  IF answer = "error" THEN {FALSE}
  ELSE IF r \in Drafts /\ answer \in HasOutput THEN {TRUE} ELSE BOOLEAN

\* Module 03 answers only an authorized caller; any call may fail.
GetWorkflowState(r) ==
  /\ poller = Idle /\ snap[r].ref
  /\ \E answer \in {"error"} \cup (IF r \in auth THEN {run[r]} ELSE {}) :
       \E output \in Shows(r, answer) :
         poller' = [phase |-> "read", of |-> r, answer |-> answer, output |-> output]
  /\ UNCHANGED <<req, dispatch, cancelling, snap, auth, misses, announced,
                 saved, restarts, external>>

\* The status stays when the request is finished meanwhile; the event is
\* published anyway.
Finish(r, fields, verdict) ==
  /\ Mutate(r, IF req[r].status \in TerminalRequestStatus THEN fields
               ELSE [fields EXCEPT !.status = verdict])
  /\ auth' = auth \ {r}
  /\ misses' = [misses EXCEPT ![r] = 0]
  /\ Announce(r, verdict)

Polled(r, phase) == poller.phase = phase /\ poller.of = r

\* Faulty: misses are counted and nothing is concluded.
FaultyMissed(r) ==
  /\ misses' = [misses EXCEPT ![r] = IF @ < MissLimit THEN @ + 1 ELSE @]
  /\ UNCHANGED <<req, auth, announced>>

Missed(r) ==
  IF misses[r] + 1 >= MissLimit THEN Finish(r, req[r], "failed")
  ELSE /\ misses' = [misses EXCEPT ![r] = @ + 1]
       /\ UNCHANGED <<req, auth, announced>>

Miss(r) ==
  /\ Polled(r, "read") /\ poller.answer = "error"
  /\ Missed(r)
  /\ Handled(r)
  /\ UNCHANGED <<dispatch, cancelling, saved, restarts, external>>

\* Faulty: each poll shows the outputs again.
FaultyUnseen(r) == poller.output

\* The answer has an output that is not on the copy's timeline.
Unseen(r) == poller.output /\ snap[r].outputs = 0

MirrorNodes(r) ==
  /\ Polled(r, "read") /\ poller.answer # "error"
  /\ misses' = [misses EXCEPT ![r] = 0]
  /\ Mutate(r, [req[r] EXCEPT !.outputs = IF Unseen(r) THEN @ + 1 ELSE @])
  /\ poller' = [poller EXCEPT !.phase = "mirrored"]
  /\ UNCHANGED <<dispatch, cancelling, snap, auth, announced, saved, restarts,
                 external>>

\* Faulty: a cancelled run reads as done.
FaultyVerdictOf(r, answer) ==
  CASE answer \in {"completed", "cancelled"} -> "completed"
    [] answer \in {"refused", "expired"} /\ r \in NamedGates -> "rejected"
    [] OTHER -> "failed"

\* The answer carries no error of a failed node, so what tells a rejection is
\* that the node that failed is named like a gate.
VerdictOf(r, answer) ==
  CASE answer = "completed" -> "completed"
    [] answer \in {"refused", "expired"} /\ r \in NamedGates -> "rejected"
    [] OTHER -> "failed"

\* Faulty: the breach is looked for in no timeline.
FaultyMayBreach(r) == snap[r].status \in Active

MayBreach(r) == snap[r].status \in Active /\ snap[r].breaches = 0

\* A final answer finishes the request; a waiting gate shows on it; and a
\* resolution time that is over is noted once, on what the copy says.
Decide(r) ==
  /\ Polled(r, "mirrored")
  /\ \E breach \in {0} \cup (IF MayBreach(r) THEN {1} ELSE {}) :
       LET noted == [req[r] EXCEPT !.breaches = @ + breach] IN
       CASE poller.answer \in RunEnds ->
              Finish(r, noted, VerdictOf(r, poller.answer))
         [] poller.answer = "gate" /\ snap[r].status # "awaiting_approval" ->
              /\ Mutate(r, [noted EXCEPT !.status = "awaiting_approval"])
              /\ UNCHANGED <<auth, misses, announced>>
         [] OTHER -> Mutate(r, noted) /\ UNCHANGED <<auth, misses, announced>>
  /\ Handled(r)
  /\ UNCHANGED <<dispatch, cancelling, saved, restarts, external>>

-----------------------------------------------------------------------------
(* Module 03, and the process. *)

RunStep(r) ==
  /\ \E s \in RunMoves[run[r]] :
       /\ run' = [run EXCEPT ![r] = s]
       /\ ran' = [ran EXCEPT ![r] = @ \cup ({s} \cap RunEnds)]
  /\ UNCHANGED <<req, memory, saved, restarts>>

Save ==
  /\ saved # req
  /\ saved' = req
  /\ UNCHANGED <<req, memory, restarts, external>>

\* The process dies and the next one loads the last snapshot.
Restart ==
  /\ restarts < MaxRestarts
  /\ restarts' = restarts + 1
  /\ req' = saved
  /\ dispatch' = [r \in Requests |-> "idle"]
  /\ cancelling' = {}
  /\ snap' = [r \in Requests |-> Absent]
  /\ poller' = Idle
  /\ auth' = {}
  /\ misses' = [r \in Requests |-> 0]
  /\ announced' = [r \in Requests |-> <<>>]
  /\ UNCHANGED <<saved, external>>

Handler(r) ==
  \/ CreateWorkflow(r) \/ ExecuteWorkflow(r) \/ DispatchFails(r)
  \/ RecordRun(r) \/ CancelWrite(r)

Poller ==
  \/ ListNonTerminal
  \/ \E r \in Requests :
       Skip(r) \/ GetWorkflowState(r) \/ Miss(r) \/ MirrorNodes(r) \/ Decide(r)

\* A tick of the poller that finds nothing to list.
EmptyTick ==
  /\ \A r \in Requests : Listed(r) = Absent
  /\ UNCHANGED vars

Next ==
  \/ \E r \in Requests :
       Create(r) \/ CancelCheck(r) \/ Handler(r) \/ RunStep(r)
  \/ Poller \/ Save \/ Restart \/ EmptyTick

Spec == Init /\ [][Next]_vars

\* Handlers return and the poller's ticker goes on.  Nothing makes a run move.
FairSpec ==
  /\ Spec
  /\ WF_vars(Poller)
  /\ \A r \in Requests : WF_vars(Handler(r))
=============================================================================
