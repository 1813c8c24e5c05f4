---------------------------- MODULE DagEngineInv ----------------------------
(***************************************************************************)
(* The inductive invariants behind DagEngineProps.                         *)
(*                                                                         *)
(* The engine's maps completed, failed and skipped only grow, and a node's *)
(* predecessors are inspected in three different rounds: when it is put in *)
(* the ready list, when it is visited, and (by a retry of a predecessor)   *)
(* when it is put there again.  What reconciles the three is that a node   *)
(* which was launched has frozen predecessors: they are completed, never   *)
(* failed and never skipped, and can enter no later batch.                 *)
(***************************************************************************)
EXTENDS DagEngineProps

BeforeLoop == {"idle", "claimed", "releasing", "refused", "spawned"}
AfterLoop  == Leaving \cup {"done"}
Visiting   == {"launching", "waiting"}

\* An execution knows how it ends before it ends.
OutcomeDecided == \A r \in Runs : run[r].pc \in Leaving => run[r].outcome # "none"

Pending(s)  == s.ready \cup s.todo \cup s.inflight
Launched(s) == s.inflight \cup s.completed \cup s.failed
Decided(s)  == s.completed \cup s.failed \cup s.skipped

\* The sets a goroutine uses at each of its steps.
WorkShape(s) ==
  /\ s.pc \in BeforeLoop =>
       /\ Pending(s) = {} /\ Decided(s) = {}
       /\ s.starts = [n \in Nodes |-> 0]
       /\ s.outcome = "none"
  /\ s.pc \in AfterLoop \cup {"loop"} => s.todo = {} /\ s.inflight = {}
  /\ s.pc = "waiting" => s.todo = {}
  /\ s.pc \in Visiting =>
       /\ Pending(s) \subseteq s.batch
       /\ s.ready \cap s.todo = {}
  /\ s.inflight \cap (s.ready \cup s.todo) = {}
  /\ s.inflight \subseteq s.batch
  /\ s.pc \in Scheduling => s.outcome = "none"

\* Whatever is listed, was launched or was skipped has decided predecessors.
ListedNodesReady(s) ==
  \A n \in Pending(s) \cup Launched(s) \cup s.skipped : Preds(n) \subseteq Decided(s)

\* A launched node has frozen predecessors.
PredsFrozen(s) ==
  \A n \in Launched(s) :
    /\ Preds(n) \subseteq s.completed \ (s.failed \cup s.skipped)
    /\ s.pc \in Visiting => Preds(n) \cap s.batch = {}

\* A node of the batch, or one that was skipped, can share the batch only with
\* predecessors that block it.
BlockedInBatch(s) ==
  s.pc \in Visiting =>
    \A n \in s.todo \cup s.skipped :
      Preds(n) \cap s.batch \subseteq s.failed \cup s.skipped

\* Completed nodes are never listed again.
CompletedStay(s) == s.completed \cap Pending(s) = {}

\* A node that is listed once more after it was skipped is still blocked.
SkippedStay(s) ==
  \A n \in s.skipped \cap Pending(s) :
    n \notin s.inflight /\ Preds(n) \cap (s.failed \cup s.skipped) # {}

\* Handler calls, attempts and the retry policy.
StartsCounted(s) ==
  \A n \in Nodes :
    /\ s.retries[n] <= MaxAttempts[n]
    /\ s.starts[n] <= s.retries[n] + 1
    /\ n \in s.ready \cup s.todo => s.starts[n] <= s.retries[n]
    /\ n \notin Launched(s) => s.starts[n] = 0

\* The nodes with an error in this round are failed, and nothing else.
ErrorsFresh(s) ==
  s.pc \in Visiting =>
    /\ s.errs \subseteq s.failed
    /\ s.errs \cap (s.completed \cup s.skipped \cup s.todo \cup s.inflight) = {}

RunSound(s) ==
  /\ WorkShape(s)
  /\ ListedNodesReady(s)
  /\ PredsFrozen(s)
  /\ BlockedInBatch(s)
  /\ CompletedStay(s)
  /\ SkippedStay(s)
  /\ StartsCounted(s)

RoundsInv == \A r \in Runs : RunSound(run[r])

\* Nothing that could be listed is forgotten: an undecided node waits for an
\* undecided predecessor, or is listed, or will be when this round settles.
NothingForgotten(s) ==
  /\ s.pc = "loop" =>
       \A n \in Nodes \ Decided(s) : n \in s.ready \/ ~(Preds(n) \subseteq Decided(s))
  /\ s.pc \in Visiting =>
       \A n \in Nodes \ Decided(s) :
         \/ n \in Pending(s)
         \/ ~(Preds(n) \subseteq Decided(s))
         \/ Preds(n) \cap s.batch \cap Decided(s) # {}
  /\ s.outcome = "completed" =>
       /\ s.pc \in AfterLoop \cup {"killed"}
       /\ \A n \in Nodes \ Decided(s) : ~(Preds(n) \subseteq Decided(s))

ErrorsInv == \A r \in Runs : ErrorsFresh(run[r])

CoverageInv == \A r \in Runs : NothingForgotten(run[r])

\* Until it drops its entry, an execution is the one its process lists.
EntryInv == \A r \in Runs :
  run[r].pc \in {"claimed", "releasing", "dropping"} \cup Scheduling =>
    /\ run[r].home \in Processes
    /\ owner[run[r].home] = r

\* The in-memory store lets nothing but the death of the process follow these.
Closed == {"completed", "cancelled", "lost"}

\* StopWorkflow takes away the entry of an execution that goes on, but only
\* once the record is closed, and then no execution is marked running.
StoppedInv == SingleExecutor /\ (status \in Closed \/ EntryInv)

\* An entry of a running map belongs to an execution of that process that is
\* still going to drop it.
HonestInv ==
  /\ faults <= MaxFaults
  /\ NoCallFailed =>
       \A p \in Processes : owner[p] # NoRun =>
         /\ run[owner[p]].home = p
         /\ run[owner[p]].pc \in {"claimed", "releasing", "dropping"} \cup Scheduling

\* The steps at which an execution vouches for a workflow said to be running.
Executing == Scheduling \cup {"dropping", "finalizing"}

\* A single process serves, nothing survives the process of an in-memory store,
\* and a running workflow has an execution that will still write how it ended.
ExecutorInv ==
  /\ \A p, q \in Processes : proc[p] = "alive" /\ proc[q] = "alive" => p = q
  /\ StoreMode = "memory" /\ ~Serving => status = "lost"
  /\ NoCallFailed /\ Serving /\ status = "running" =>
       \E r \in Runs : run[r].pc \in Executing
-----------------------------------------------------------------------------
(* How much an execution may still do. *)

\* The nodes that rounds can reach: neither on a cycle nor behind one.
Grounded ==
  {n \in Nodes : \A S \in SUBSET Nodes : n \in S => \E m \in S : Preds(m) \cap S = {}}

\* The nodes of X and those behind them.
Downstream(X) ==
  {n \in Nodes : \A S \in SUBSET Nodes :
     X \subseteq S /\ (\A m \in S : Succs(m) \subseteq S) => n \in S}

\* What this round, or the next one, can still lead to.
Area(s) == Downstream(IF s.pc = "loop" THEN s.ready ELSE s.batch) \cap Grounded

\* Each node with each handler call the retry policy leaves it.
AttemptsLeft(s) == UNION {{n} \X (s.starts[n] .. MaxAttempts[n]) : n \in Nodes}

Size == Cardinality(Nodes)

\* Visits and returns of a round; a round that has launched something may be
\* followed by one over the same area.
LaunchedNow(s) == ~(s.batch \ s.todo \subseteq s.skipped)
Turns(s) ==
  IF s.pc = "loop" THEN 2 * Size + 1
  ELSE Cardinality(s.todo) + Cardinality(s.inflight)
       + (IF LaunchedNow(s) THEN 2 * Size + 2 ELSE 0)

Width == 4 * Size + 3

\* Handler calls first, then the area of the rounds, then the turns of a round.
InRounds(s) ==
  (Cardinality(AttemptsLeft(s)) * (Size + 1) + Cardinality(Area(s))) * Width + Turns(s) + 4

BeforeRounds == (Cardinality(AttemptsLeft(NewRun)) + 1) * (Size + 1) * Width + 4

\* A bound on the steps an execution has left.
Remaining(s) ==
  CASE s.pc = "idle" -> BeforeRounds + 2
    [] s.pc = "claimed" -> BeforeRounds + 1
    [] s.pc = "spawned" -> BeforeRounds
    [] s.pc \in {"loop"} \cup Visiting -> InRounds(s)
    [] s.pc = "dropping" -> 3
    [] s.pc = "finalizing" -> 2
    [] s.pc \in {"announcing", "releasing"} -> 1
    [] s.pc \in {"done", "killed", "refused"} -> 0

\* Whatever is listed or decided can be reached by rounds; a round has a batch,
\* lists again only what failed in it, and waits once it has visited the batch.
RoundGrounded(s) ==
  /\ Pending(s) \cup Decided(s) \subseteq Grounded
  /\ s.pc \in Visiting =>
       s.batch # {} /\ s.batch \subseteq Grounded /\ s.ready \subseteq s.failed
  /\ s.pc = "launching" => s.todo # {}

GroundedInv == \A r \in Runs : RoundGrounded(run[r])

\* Every step of an execution and every return of a handler brings it nearer to
\* its end, and no step of anything else takes it further away.
RunsDescend ==
  [][\A r \in Runs :
       /\ Remaining(run'[r]) <= Remaining(run[r])
       /\ EngineStep(r) \/ (\E n \in Nodes : NodeReturns(r, n))
            => Remaining(run'[r]) < Remaining(run[r])]_vars
=============================================================================
