----------------------------- MODULE DagEngine -----------------------------
(***************************************************************************)
(* The DAG execution engine of module 03 (agent orchestration) for one     *)
(* workflow: the HTTP handlers that execute, pause, resume and cancel it,  *)
(* the engine's "running" map, the goroutine of each execution, the        *)
(* goroutines of the nodes it launches, the store, and the processes the   *)
(* engine lives in.                                                        *)
(*                                                                         *)
(* Workflows share nothing but the map itself, which is keyed by workflow, *)
(* so one workflow with several executions (Runs) shows every interaction. *)
(*                                                                         *)
(* A batch is a set: the order in which the loop visits it decides         *)
(* nothing, except which nodes are already in flight when a later one is   *)
(* visited, and every order is explored.                                   *)
(***************************************************************************)
EXTENDS Integers, FiniteSets, WorkflowStore

CONSTANTS
  Nodes,          \* the node identifiers of the graph
  Edges,          \* the edges <<from, to>> of the graph
  Guarded,        \* the edges that carry a condition
  MaxAttempts,    \* node -> retry.max_attempts; 0 for a node without a policy
  ErrorStrategy,  \* graph.error_strategy
  StoreMode,      \* which store the deployment uses
  Runs,           \* executions: one per accepted or refused start (bound)
  Processes,      \* engine processes: each boots at most once (bound)
  MaxAlive,       \* 1: a process boots after the last one died; 2: rolling update
  MaxFaults,      \* how many PostgreSQL calls may fail (bound)
  Interventions,  \* the requests operators make besides execute
  NoRun, NoProc   \* "no entry" and "no process"

ErrorStrategies == {"abort", "continue", "retry_all"}

ASSUME GraphAssumption ==
  /\ IsFiniteSet(Nodes)
  /\ Edges \subseteq Nodes \X Nodes
  /\ Guarded \subseteq Edges
  /\ MaxAttempts \in [Nodes -> Nat]
  /\ ErrorStrategy \in ErrorStrategies

ASSUME DeploymentAssumption ==
  /\ StoreMode \in StoreModes
  /\ NoRun \notin Runs
  /\ NoProc \notin Processes
  /\ Processes # {}
  /\ MaxAlive \in Nat \ {0}
  /\ StoreMode = "memory" => MaxAlive = 1
  /\ MaxFaults \in Nat
  /\ StoreMode = "memory" => MaxFaults = 0
  /\ Interventions \subseteq {"pause", "resume", "cancel", "stop"}

VARIABLES
  status,        \* the workflow record's status
  currentNodes,  \* the workflow record's current_nodes
  published,     \* terminal lifecycle events published so far
  owner,         \* process -> run whose cancel function is in Engine.running
  proc,          \* process -> "new", "alive" or "dead"
  run,           \* run -> the state of its goroutine
  faults         \* PostgreSQL calls that may still fail

vars == <<status, currentNodes, published, owner, proc, run, faults>>

-----------------------------------------------------------------------------
(* The goroutine of an execution. *)

Pcs == {"idle",        \* not started
        "claimed",     \* entry made in running, status not written yet
        "releasing",   \* status write refused, entry not removed yet
        "refused",     \* start failed
        "spawned",     \* go execute: graph not loaded yet
        "loop",        \* top of the rounds loop
        "launching",   \* visiting the batch
        "waiting",     \* in wg.Wait
        "dropping",    \* about to delete the entry of running
        "finalizing",  \* about to write the final status
        "announcing",  \* about to publish the final event
        "done", "killed"}

Scheduling == {"spawned", "loop", "launching", "waiting"}
Leaving    == {"dropping", "finalizing", "announcing"}
Live       == {"claimed", "releasing"} \cup Scheduling \cup Leaving

RunState ==
  [pc        : Pcs,
   home      : Processes \cup {NoProc},
   cancelled : BOOLEAN,               \* its context is done
   ready     : SUBSET Nodes,
   batch     : SUBSET Nodes,          \* currentBatch
   todo      : SUBSET Nodes,          \* the part of the batch not visited yet
   inflight  : SUBSET Nodes,          \* nodes with a goroutine at work
   errs      : SUBSET Nodes,          \* nodes with an entry in batchErrors
   completed : SUBSET Nodes,
   failed    : SUBSET Nodes,
   skipped   : SUBSET Nodes,
   retries   : [Nodes -> Nat],        \* nodeStates[n].RetryCount
   starts    : [Nodes -> Nat],        \* history: handler calls per node
   outcome   : {"none"} \cup Terminal]

NewRun ==
  [pc |-> "idle", home |-> NoProc, cancelled |-> FALSE,
   ready |-> {}, batch |-> {}, todo |-> {}, inflight |-> {}, errs |-> {},
   completed |-> {}, failed |-> {}, skipped |-> {},
   retries |-> [n \in Nodes |-> 0], starts |-> [n \in Nodes |-> 0],
   outcome |-> "none"]

Preds(n) == {m \in Nodes : <<m, n>> \in Edges}
Succs(n) == {m \in Nodes : <<n, m>> \in Edges}
Roots    == {n \in Nodes : Preds(n) = {}}

HasGuard(n) == \E m \in Nodes : <<m, n>> \in Guarded

\* The goroutine of run r moves on to state s; the others do not move.
Becomes(r, s) == run' = [run EXCEPT ![r] = s]

Settled(r) == run[r].completed \cup run[r].failed \cup run[r].skipped

\* Faulty: a skipped predecessor does not block.
FaultyFailedOnly(r, n) == Preds(n) \cap run[r].failed # {}

HasFailedPredecessor(r, n) == Preds(n) \cap (run[r].failed \cup run[r].skipped) # {}

\* Faulty: one predecessor is enough.
FaultyAnyPredecessorDone(r, n) == Preds(n) \cap Settled(r) # {}

AllPredecessorsDone(r, n)  == Preds(n) \subseteq Settled(r)

\* A batch error that the retry policy does not, or no longer, cover.  NodeFails
\* has already counted the attempt that it requeued.
HardFailed(r) == \E n \in run[r].errs : run[r].retries[n] >= MaxAttempts[n]

-----------------------------------------------------------------------------
(* The store. *)

\* A status write that is applied (ok), refused by the transition table, or
\* lost to a database error.
WriteStatus(to, ok) ==
  \/ /\ ok
     /\ Accepts(StoreMode, status, to)
     /\ status' = to
     /\ UNCHANGED faults
  \/ /\ ~ok
     /\ ~Accepts(StoreMode, status, to)
     /\ UNCHANGED <<status, faults>>
  \/ /\ ~ok
     /\ faults > 0
     /\ faults' = faults - 1
     /\ UNCHANGED status

Publish(event) == published' = published \cup {event}

-----------------------------------------------------------------------------
(* Starting an execution: POST /workflows/{id}/execute. *)

\* Faulty: a start does not look into the running map.
FaultyNotRunning(p) == TRUE

NotRunning(p) == owner[p] = NoRun

Execute(p, r) ==
  /\ proc[p] = "alive"
  /\ status # "lost"
  /\ run[r].pc = "idle"
  /\ NotRunning(p)
  /\ owner' = [owner EXCEPT ![p] = r]
  /\ Becomes(r, [run[r] EXCEPT !.pc = "claimed", !.home = p])
  /\ UNCHANGED <<status, currentNodes, published, proc, faults>>

MarkRunning(r) ==
  /\ run[r].pc = "claimed"
  /\ \E ok \in BOOLEAN :
       /\ WriteStatus("running", ok)
       /\ Becomes(r, [run[r] EXCEPT !.pc = IF ok THEN "spawned" ELSE "releasing"])
  /\ UNCHANGED <<currentNodes, published, owner, proc>>

Release(r) ==
  /\ run[r].pc = "releasing"
  /\ owner' = [owner EXCEPT ![run[r].home] = NoRun]
  /\ Becomes(r, [run[r] EXCEPT !.pc = "refused"])
  /\ UNCHANGED <<status, currentNodes, published, proc, faults>>

-----------------------------------------------------------------------------
(* The rounds. *)

LoadGraph(r) ==
  /\ run[r].pc = "spawned"
  /\ Becomes(r, [run[r] EXCEPT !.pc = "loop", !.ready = Roots])
  /\ UNCHANGED <<status, currentNodes, published, owner, proc, faults>>

\* GetByID failed: the workflow is marked failed, and the entry of running stays.
LoadFails(r) ==
  /\ run[r].pc = "spawned"
  /\ faults > 0
  /\ \/ status' = "failed" /\ faults' = faults - 1
     \/ UNCHANGED status /\ faults > 1 /\ faults' = faults - 2
  /\ Publish("failed")
  /\ Becomes(r, [run[r] EXCEPT !.pc = "done"])
  /\ UNCHANGED <<currentNodes, owner, proc>>

\* UpdateCurrentNodes, whose error is ignored.
RecordRound(r) ==
  \/ currentNodes' = run[r].ready /\ UNCHANGED faults
  \/ faults > 0 /\ faults' = faults - 1 /\ UNCHANGED currentNodes

BeginRound(r) ==
  /\ run[r].pc = "loop"
  /\ run[r].ready # {}
  /\ ~run[r].cancelled
  /\ Becomes(r, [run[r] EXCEPT !.pc = "launching",
                               !.batch = run[r].ready,
                               !.todo = run[r].ready,
                               !.ready = {},
                               !.errs = {}])
  /\ RecordRound(r)
  /\ UNCHANGED <<status, published, owner, proc>>

\* Faulty: the status to finalize with is left undecided.
FaultyOutcome(r) == "none"

Outcome(r) == IF run[r].ready = {} THEN "completed" ELSE "cancelled"

\* The loop ends, or the context is found done at its top.
LeaveLoop(r) ==
  /\ run[r].pc = "loop"
  /\ run[r].ready = {} \/ run[r].cancelled
  /\ Becomes(r, [run[r] EXCEPT !.pc = "dropping", !.outcome = Outcome(r)])
  /\ UNCHANGED <<status, currentNodes, published, owner, proc, faults>>

\* Faulty: the loop over the batch never gets to wg.Wait.
FaultyAfterVisit(r, n) == "launching"

\* After the visit of n: the loop over the batch goes on, or wg.Wait begins.
AfterVisit(r, n) == IF run[r].todo = {n} THEN "waiting" ELSE "launching"

SkipBlocked(r, n) ==
  /\ run[r].pc = "launching"
  /\ n \in run[r].todo
  /\ HasFailedPredecessor(r, n)
  /\ Becomes(r, [run[r] EXCEPT !.pc = AfterVisit(r, n),
                               !.todo = @ \ {n},
                               !.skipped = @ \cup {n}])
  /\ UNCHANGED <<status, currentNodes, published, owner, proc, faults>>

\* A condition on an edge into n is false, or cannot be decided.
SkipUnmet(r, n) ==
  /\ run[r].pc = "launching"
  /\ n \in run[r].todo
  /\ ~HasFailedPredecessor(r, n)
  /\ HasGuard(n)
  /\ Becomes(r, [run[r] EXCEPT !.pc = AfterVisit(r, n),
                               !.todo = @ \ {n},
                               !.skipped = @ \cup {n}])
  /\ UNCHANGED <<status, currentNodes, published, owner, proc, faults>>

Launch(r, n) ==
  /\ run[r].pc = "launching"
  /\ n \in run[r].todo
  /\ ~HasFailedPredecessor(r, n)
  /\ Becomes(r, [run[r] EXCEPT !.pc = AfterVisit(r, n),
                               !.todo = @ \ {n},
                               !.inflight = @ \cup {n},
                               !.starts[n] = @ + 1])
  /\ UNCHANGED <<status, currentNodes, published, owner, proc, faults>>

NodeSucceeds(r, n) ==
  /\ run[r].pc \in {"launching", "waiting"}
  /\ n \in run[r].inflight
  /\ Becomes(r, [run[r] EXCEPT !.inflight = @ \ {n},
                               !.completed = @ \cup {n}])
  /\ UNCHANGED <<status, currentNodes, published, owner, proc, faults>>

\* Faulty: a failing node is requeued whatever the number of its retries.
FaultyMayRetry(r, n) == TRUE

MayRetry(r, n) == run[r].retries[n] < MaxAttempts[n]

NodeFails(r, n) ==
  /\ run[r].pc \in {"launching", "waiting"}
  /\ n \in run[r].inflight
  /\ Becomes(r, [run[r] EXCEPT !.inflight = @ \ {n},
                               !.errs = @ \cup {n},
                               !.failed = @ \cup {n},
                               !.ready = IF MayRetry(r, n) THEN @ \cup {n} ELSE @,
                               !.retries[n] = IF MayRetry(r, n) THEN @ + 1 ELSE @])
  /\ UNCHANGED <<status, currentNodes, published, owner, proc, faults>>

\* Faulty: only successors of completed nodes are collected.
FaultyNextReady(r) ==
  run[r].ready \cup
    {s \in Nodes : /\ AllPredecessorsDone(r, s)
                   /\ Preds(s) \cap run[r].batch \cap run[r].completed # {}}

\* wg.Wait returned: abort, or collect the successors that are now ready.
NextReady(r) ==
  run[r].ready \cup
    {s \in Nodes : /\ AllPredecessorsDone(r, s)
                   /\ Preds(s) \cap run[r].batch \cap Settled(r) # {}}

Joined(r) == run[r].inflight = {}

Settle(r) ==
  /\ run[r].pc = "waiting"
  /\ Joined(r)
  /\ IF HardFailed(r) /\ ErrorStrategy = "abort"
       THEN Becomes(r, [run[r] EXCEPT !.pc = "dropping", !.outcome = "failed"])
       ELSE Becomes(r, [run[r] EXCEPT !.pc = "loop", !.ready = NextReady(r)])
  /\ UNCHANGED <<status, currentNodes, published, owner, proc, faults>>

-----------------------------------------------------------------------------
(* Ending an execution. *)

\* Faulty: the entry stays.
FaultyDropEntry(r) ==
  /\ run[r].pc = "dropping"
  /\ Becomes(r, [run[r] EXCEPT !.pc = "finalizing"])
  /\ UNCHANGED <<status, currentNodes, published, owner, proc, faults>>

DropEntry(r) ==
  /\ run[r].pc = "dropping"
  /\ owner' = [owner EXCEPT ![run[r].home] = NoRun]
  /\ Becomes(r, [run[r] EXCEPT !.pc = "finalizing"])
  /\ UNCHANGED <<status, currentNodes, published, proc, faults>>

\* Faulty: the final status is not written.
FaultyFinalize(r) ==
  /\ run[r].pc = "finalizing"
  /\ Becomes(r, [run[r] EXCEPT !.pc = "announcing"])
  /\ UNCHANGED <<status, currentNodes, published, owner, proc, faults>>

\* The error of the status write is ignored.
Finalize(r) ==
  /\ run[r].pc = "finalizing"
  /\ \E ok \in BOOLEAN : WriteStatus(run[r].outcome, ok)
  /\ Becomes(r, [run[r] EXCEPT !.pc = "announcing"])
  /\ UNCHANGED <<currentNodes, published, owner, proc>>

Announce(r) ==
  /\ run[r].pc = "announcing"
  /\ Publish(run[r].outcome)
  /\ Becomes(r, [run[r] EXCEPT !.pc = "done"])
  /\ UNCHANGED <<status, currentNodes, owner, proc, faults>>

-----------------------------------------------------------------------------
(* The other requests.  A refused write answers 4xx and changes nothing. *)

Serving == \E p \in Processes : proc[p] = "alive"

Pause ==
  /\ "pause" \in Interventions
  /\ Serving
  /\ WriteStatus("paused", TRUE)
  /\ UNCHANGED <<currentNodes, published, owner, proc, run>>

Resume ==
  /\ "resume" \in Interventions
  /\ Serving
  /\ WriteStatus("running", TRUE)
  /\ UNCHANGED <<currentNodes, published, owner, proc, run>>

Cancel ==
  /\ "cancel" \in Interventions
  /\ Serving
  /\ WriteStatus("cancelled", TRUE)
  /\ Publish("cancelled")
  /\ UNCHANGED <<currentNodes, owner, proc, run>>

\* Engine.StopWorkflow: exported, but no route reaches it.
Stop(p) ==
  /\ "stop" \in Interventions
  /\ proc[p] = "alive"
  /\ owner[p] # NoRun
  /\ \E ok \in BOOLEAN : WriteStatus("cancelled", ok)
  /\ Becomes(owner[p], [run[owner[p]] EXCEPT !.cancelled = TRUE])
  /\ owner' = [owner EXCEPT ![p] = NoRun]
  /\ Publish("cancelled")
  /\ UNCHANGED <<currentNodes, proc>>

-----------------------------------------------------------------------------
(* Processes. *)

\* The boot-time reconciliation, whose error is logged and the boot goes on.
Boot(p) ==
  /\ proc[p] = "new"
  /\ Cardinality({q \in Processes : proc[q] = "alive"}) < MaxAlive
  /\ proc' = [proc EXCEPT ![p] = "alive"]
  /\ \/ status' = Reconciled(StoreMode, status) /\ UNCHANGED faults
     \/ UNCHANGED status /\ faults > 0 /\ faults' = faults - 1
  /\ UNCHANGED <<currentNodes, published, owner, run>>

Kill(p) ==
  /\ proc[p] = "alive"
  /\ proc' = [proc EXCEPT ![p] = "dead"]
  /\ owner' = [owner EXCEPT ![p] = NoRun]
  /\ run' = [r \in Runs |-> IF run[r].home = p /\ run[r].pc \in Live
                              THEN [run[r] EXCEPT !.pc = "killed"] ELSE run[r]]
  /\ status' = IF StoreMode = "memory" THEN "lost" ELSE status
  /\ UNCHANGED <<currentNodes, published, faults>>

-----------------------------------------------------------------------------
Init ==
  /\ status = "pending"
  /\ currentNodes = {}
  /\ published = {}
  /\ owner = [p \in Processes |-> NoRun]
  /\ \E p \in Processes : proc = [q \in Processes |-> IF q = p THEN "alive" ELSE "new"]
  /\ run = [r \in Runs |-> NewRun]
  /\ faults = MaxFaults

NodeReturns(r, n) == NodeSucceeds(r, n) \/ NodeFails(r, n)

RoundStep(r) ==
  \/ LoadGraph(r)
  \/ LoadFails(r)
  \/ BeginRound(r)
  \/ LeaveLoop(r)
  \/ \E n \in Nodes : SkipBlocked(r, n) \/ SkipUnmet(r, n) \/ Launch(r, n)
  \/ Settle(r)

EngineStep(r) ==
  \/ MarkRunning(r)
  \/ Release(r)
  \/ RoundStep(r)
  \/ DropEntry(r)
  \/ Finalize(r)
  \/ Announce(r)

Next ==
  \/ \E p \in Processes, r \in Runs : Execute(p, r)
  \/ \E r \in Runs : EngineStep(r)
  \/ \E r \in Runs, n \in Nodes : NodeReturns(r, n)
  \/ Pause \/ Resume \/ Cancel
  \/ \E p \in Processes : Stop(p) \/ Boot(p) \/ Kill(p)

\* The Go scheduler runs every goroutine, and every node handler returns: its
\* HTTP clients have timeouts and a gate gives up after GateTimeout.  Nobody is
\* obliged to send a request, to boot a process or to kill one.
Fairness ==
  /\ \A r \in Runs : WF_vars(EngineStep(r))
  /\ \A r \in Runs, n \in Nodes : WF_vars(NodeReturns(r, n))

Spec == Init /\ [][Next]_vars

FairSpec == Spec /\ Fairness
=============================================================================
