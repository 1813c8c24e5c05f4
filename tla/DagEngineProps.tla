--------------------------- MODULE DagEngineProps ---------------------------
(***************************************************************************)
(* What the DAG engine promises, and what documents and comments say of it.*)
(***************************************************************************)
EXTENDS DagEngine

\* Every variable stays within the values the code can give it.
TypeOK ==
  /\ status \in Statuses
  /\ currentNodes \subseteq Nodes
  /\ published \subseteq Terminal
  /\ owner \in [Processes -> Runs \cup {NoRun}]
  /\ proc \in [Processes -> {"new", "alive", "dead"}]
  /\ run \in [Runs -> RunState]
  /\ faults \in Nat

-----------------------------------------------------------------------------
(* Safety of one execution, whatever the graph. *)

\* A node's handler is called only after every predecessor finished with
\* success, and no predecessor is reopened by a retry afterwards
\* (hasFailedPredecessor and allPredecessorsDone, applied in different rounds).
PredecessorsSucceeded ==
  \A r \in Runs : \A n \in run[r].inflight \cup run[r].completed :
    /\ Preds(n) \subseteq run[r].completed
    /\ Preds(n) \cap (run[r].inflight \cup run[r].skipped) = {}

\* A node whose handler succeeded is never launched again, and a failing one
\* at most max_attempts more times, although the loop may put a node back into
\* the ready list once for each round in which one of its predecessors settles.
NodesRunOnce ==
  \A r \in Runs, n \in Nodes :
    /\ run[r].starts[n] <= run[r].retries[n] + 1
    /\ run[r].retries[n] <= MaxAttempts[n]
    /\ n \in run[r].completed => n \notin run[r].inflight \cup run[r].ready

\* No node handler outlives the round that launched it: an execution never
\* reports its end, nor drops its entry, while a handler is at work.
HandlersJoined ==
  \A r \in Runs : run[r].inflight # {} =>
    /\ run[r].pc \in {"launching", "waiting", "killed"}
    /\ run[r].inflight \subseteq run[r].batch

\* No set of nodes is closed under predecessors in a cycle: in every nonempty
\* set some node has no predecessor in it.
Acyclic == \A S \in SUBSET Nodes : S # {} => \E n \in S : Preds(n) \cap S = {}

\* An execution that ends as completed has settled every node of the graph.
AllNodesExecuted ==
  \A r \in Runs : run[r].outcome = "completed" => Settled(r) = Nodes

-----------------------------------------------------------------------------
(* An execution implements GraphRun. *)

\* What became of each node, from the engine's three maps.
PhaseOf(s) ==
  [n \in Nodes |-> IF n \in s.inflight THEN "running"
                   ELSE IF n \in s.completed THEN "succeeded"
                   ELSE IF n \in s.skipped THEN "skipped"
                   ELSE IF n \in s.failed THEN "failed" ELSE "waiting"]

GR(r) == INSTANCE GraphRun
           WITH phase <- PhaseOf(run[r]), attempts <- run[r].starts, verdict <- run[r].outcome

\* On an acyclic graph each execution behaves as GraphRun allows: rounds, maps
\* and goroutines are a way to schedule nodes and change no node's fate.
ImplementsGraphRun ==
  /\ \A r \in Runs : GR(r)!Init
  /\ [][\A r \in Runs : [GR(r)!Next]_(GR(r)!view)]_vars

-----------------------------------------------------------------------------
(* Executions of the same workflow. *)

\* At most one execution of a process is scheduling nodes.  The entry of the
\* running map is what excludes the second; it is removed by three different
\* code paths, none of which checks whose entry it removes.
SingleExecutor ==
  \A r, s \in Runs :
    /\ run[r].pc \in Scheduling
    /\ run[s].pc \in Scheduling
    /\ run[r].home = run[s].home
    => r = s

NoCallFailed == faults = MaxFaults

\* While the engine serves and no database call failed, a workflow said to be
\* running has an execution (FailOrphanedActive repairs those that a dead
\* process left behind).
RunningHasExecutor ==
  NoCallFailed /\ Serving /\ status = "running" => \E r \in Runs : run[r].pc \in Live

\* IsRunning tells the truth: an entry of the running map has an execution,
\* unless a database call failed.
IsRunningHonest ==
  NoCallFailed =>
    \A p \in Processes : owner[p] # NoRun => run[owner[p]].pc \in Live

-----------------------------------------------------------------------------
(* What a retry is for. *)

\* A node that failed and then succeeded on a retry does not count as failed
\* for its successors: none is skipped on account of it.
RetryUnblocksSuccessors ==
  \A r \in Runs : run[r].outcome = "completed" =>
    \A n \in run[r].skipped :
      HasGuard(n) \/ ~(Preds(n) \subseteq run[r].completed)

\* An execution aborts only on a failure that no attempt awaits: a node that
\* "Re-queue for retry" put back into the ready list gets its attempt, unless
\* another node failed for good.
RetriesAreMade ==
  \A r \in Runs : run[r].outcome = "failed" =>
    \E n \in run[r].errs : n \notin run[r].ready

-----------------------------------------------------------------------------
(* Liveness, under Fairness. *)

\* An execution that was spawned ends, unless its process dies: the number of
\* rounds is finite for every graph, cyclic ones included.
RunsEnd == \A r \in Runs : run[r].pc = "spawned" ~> run[r].pc \in {"done", "killed"}

\* A running workflow with an execution under way reaches a terminal status,
\* unless it is paused when the execution ends, and a completed or cancelled one
\* is published as such; operators pause, resume, cancel and stop meanwhile.
RunningSettles ==
  status = "running" /\ (\E r \in Runs : run[r].pc \in Scheduling) ~>
    status \in {"failed", "lost", "paused"} \/ status \in {"completed", "cancelled"} \cap published
=============================================================================
