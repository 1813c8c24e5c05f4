# Operan: verification of the orchestration core

This directory holds TLA+ models of Operan, a multi-tenant platform that runs
"departments" of AI agents, together with the TLC configurations that check
them on small instances and TLAPS proofs of their main properties. The models
are translated from the Go sources under `src/modules`; documents and comments
are only quoted where they promise something that the code is compared with.

Contents: 1 the system, 2 the plan, 3 the models, 4 the runs, 5 the proofs,
6 what the checks show about the code, 7 what is not modelled.

## 1. The system

Operan is about twenty Go services. Each has an HTTP API, a store (in memory,
with file snapshots, or in PostgreSQL) and a Kafka publisher; a few run
background loops. Work flows through them in one direction:

    M05 request loop --execute--> M03 workflow engine --gate--> M09 approvals
         ^   polls                     |    ^  gate.raised / gate.responded
         +-----------------------------+    +--------- Kafka -------+
    agents --> M08 tool funnel --evaluate--> M10 policy engine
    every model call --cost event--> M17 budgets        documents --> M06 ingestion

| Component | State it keeps | Operations | Hard behaviours |
|---|---|---|---|
| M03 DAG engine (`03-agent-orchestration/internal/execution`) | `running` map (workflow -> cancel function); per execution the ready list, batch, `completed`, `failed`, `skipped`, retry counts | start, rounds with one goroutine per node, retries, abort, finalize, stop | goroutines share maps; retries re-enter the ready list; three paths delete the map entry |
| M03 workflow store and handlers (`internal/store`, `internal/repository`, `internal/handler`) | workflow record: status, current nodes, variables, history | create, execute, pause, resume, cancel, reconcile at boot | two stores with different rules; a failed call; a process that dies |
| M03 human gate (`node_handler.go`, `gates/`, human tasks) | human task; map gate -> task | raise, poll every 5 s, respond, cancel, time out after 24 h | two Kafka topics consumed independently; in-memory map; at-most-once consumption |
| M09 approvals | approval with approvers, thresholds, expiry | create, approve, reject, delegate, expire | thresholds against an event per act; snapshots every 10 s |
| M05 request loop (`workloop`) | service request status, run reference, miss counter | dispatch, poll, finish, cancel | snapshots read before an HTTP call and written after it; a crash between two calls |
| M05 deploy orchestrator, department store | deployment record, department objects, snapshot files | run stages in order, name holders, sync services, patch, archive | the orchestrator and the store hold different objects; partial failure leaves registered agents; restart between two files |
| M06 ingestion | job status, chunk results with hashes, cancel functions | process, recover, cancel | duplicate processing, crash between rows and vectors |
| M08 funnel, M10 policies | capability bindings, invocation log; policies, decision cache | invoke; evaluate | a cached decision outlives a change of policy |
| M17 budgets | cost events, alerts, throttle mode | record event, check budgets | check-then-act on alerts; threshold arithmetic |
| M14 collaboration, M18 connectors, M13/M12 routing | rows per channel, handoff, sync job | guarded updates, one call per sync | little concurrency within a row |
| M01, M02, M04, M07, M11, M15, M16, M19, M21 | tables | CRUD, adapters, text, vectors | see section 7 |

What makes each of them correct:

* **M03 engine.** A node starts only when every predecessor succeeded; it runs
  at most once more than its retries; no handler outlives its round; one
  execution per workflow and process; an execution ends, its status is written
  and published; nothing says "running" with nobody executing.
* **M03 gate and M09.** A gate releases its node only if somebody with the
  right to approve did; a decision taken reaches the node or is seen to be
  late; the approval, the task and the node agree in the end.
* **M05.** A request has at most one run; its terminal status is final, agrees
  with its run, and is announced once.
* **M05 deployment.** What the record says of its stages is true of the agents
  and workflows outside; a department in operation is whole; a failed one says so.
* **M06.** A completed job has left out no chunk; a row has its vector or an
  owner; a job ends unless its runs are cancelled or time out for ever.
* **M08/M10.** An allow is not older than the cache's lifetime explains; a list of
  policies that ends early allows nothing more; nothing is performed without an
  allow and the rank, nor claimed without having been performed.
* **M17.** A budget is throttled when it is exceeded, not before, and once.

## 2. The plan

In order of importance. Each module takes its parameters as CONSTANTS with
named assumptions, has one action per operation and states its invariants as
conjunctions of named parts; recursion, where needed, is a recursive function.

1. `WorkflowStore`, `DagEngine` (engine, handlers, stores, processes),
   abstract `GraphRun`; runs, refinement, inductive invariant, proofs. **Done.**
2. `ApprovalGate`, `HumanGate`: gate node, task store, enforcer, approvals of
   M09, both topics and restarts of either side; abstract `GateContract`;
   inductive invariant, refinement, proofs. **Done.**
3. `RequestLoop`: dispatch, poll, finish, cancel, snapshots and restarts, over
   an abstract workflow run; abstract `RequestContract`; inductive invariant,
   refinement, proofs. **Done.**
4. `IngestWorker`: jobs, their overlapping runs, rows and vectors, poller,
   cancel, crash; abstract `ContentContract`; inductive invariant, refinement,
   number of calls left, proofs. **Done.**
5. `PolicyEngine` and `CapabilityFunnel` over it: ordered policies, cache,
   invocations, seats; abstract `InvocationContract`; inductive invariant,
   refinement, decision of the loop, proofs. **Done.**
6. `DepartmentDeploy`: stages, the two objects, administrators, snapshots;
   abstract `DeployContract`; inductive invariant, refinement, number of steps
   left, proofs. **Done.**
7. Left, in this order: budgets and throttle of M17; the sync engine of M18;
   handoffs of M14.

Each module with a state machine has three companions: `...Props` (what it
promises), `...Inv` (the inductive invariant) and `...Proofs`; `MC...` holds the
definitions of the configurations. `GraphRun`, `GateContract`,
`RequestContract`, `ContentContract`, `InvocationContract` and `DeployContract`
are abstract specifications that a component implements;
`DataInduction` holds facts about finite sets and sequences for the proofs.

## 3. The models

### 3.1 `WorkflowStore`: the status of a workflow record

`Accepts(mode, from, to)` is what a status write does in the two stores. The
in-memory store (`store/workflow.go`) consults `validWorkflowTransitions`;
`ValidTransitions` is that table. The PostgreSQL store
(`repository/pg_workflow.go`), which `deploy/k8s/modules.yaml` selects, updates
the row unconditionally. `Reconciled` is `FailOrphanedActive`, run at boot by
`ReconcileOrphans`: pending, running and paused become failed. The status
"lost" is not the code's: it stands for the record of an in-memory store whose
process died.

### 3.2 `DagEngine`: one workflow, its executions and its processes

| TLA+ | Code |
|---|---|
| `status`, `currentNodes` | the workflow record |
| `published` | terminal lifecycle events handed to the publisher |
| `owner[p]` | `Engine.running` of process p, for this workflow |
| `proc[p]` | whether process p was booted, is alive, is dead |
| `run[r]` | the goroutine of one `execute` call: program counter, ready list, batch, nodes in flight, batch errors, the three maps, retry counts |
| `faults` | how many database calls may still fail |

Workflows share only the `running` map, which is keyed by workflow, so one
workflow with several executions shows every interaction.

| Action | Code |
|---|---|
| `Execute`, `MarkRunning`, `Release` | `StartWorkflowWithAuth`: the entry under the mutex, the status write, the removal when the write is refused |
| `LoadGraph`, `LoadFails` | the beginning of `execute`; when the graph cannot be loaded the entry stays |
| `BeginRound`, `LeaveLoop` | the top of the rounds loop: `ctx.Done`, swap of ready and batch, `UpdateCurrentNodes` |
| `SkipBlocked`, `SkipUnmet`, `Launch` | the visit of one batch node, between which goroutines of the same batch already run |
| `NodeSucceeds`, `NodeFails` | the end of a node's goroutine, retry included (`executeNode` and the closure around it) |
| `Settle` | after `wg.Wait`: abort, or collect the next ready nodes |
| `DropEntry`, `Finalize`, `Announce` | deletion of the entry, `finalizeWorkflow` (status write with ignored error, then event) |
| `Pause`, `Resume`, `Cancel` | the handlers; a refused write changes nothing |
| `Stop` | `StopWorkflow`, which is exported but reached by no route |
| `Boot`, `Kill` | a process starts (the reconciliation may fail, which is logged and nothing else) or dies (its goroutines are gone; an in-memory record is lost) |

Steps that a mutex does not join are separate actions: that is where another
request or a crash may come. A batch is a set: the order of the loop over it
matters only for which nodes are in flight when a later one is visited, and
every order is explored. What a handler returns, and whether a condition holds,
is a free choice; a condition that is true behaves as no condition.

`DagEngineProps` states the properties, `DagEngineInv` the inductive
invariants, `GraphRun` the abstract specification of one execution (when a node
may start, how often, with which verdict the execution may close), and
`MCDagEngine` names graphs for the configurations.

A data race in Go is undefined in principle: the launching loop reads the maps
of a round without their lock (section 6). The runtime ends the process when it
notices, which is `Kill` at that point, so the runs cover that outcome.

### 3.3 `ApprovalGate` and `HumanGate`: one human decision across two services

`ApprovalGate` is module 09 (`09-human-supervision`): approvals, HITL answers,
publication and snapshots. `HumanGate` extends it with the three parts of module
03 that meet it: the gate node (`execution/node_handler.go`), the enforcer
(`gates/gates.go`) and the task routes (`handler/handler_human_task.go` over
`store/pipeline_execution.go`).

| TLA+ | Code |
|---|---|
| `approval[g]` | the approval: status, number of approvals and of rejections, whether its `threshold_config` is present |
| `hitl`, `answering` | recorded HITL answers; those whose handler has not yet decided the approval |
| `posted` | `POST /approvals` on its way |
| `outbox`, `topic` | events that a handler has yet to publish; events in the broker |
| `savedApproval`, `savedHitl`, `saving` | `approvals.json`, `hitl.json`, between the two writes of `SaveAll` |
| `task[g]`, `node[g]`, `known` | the human task, its gate node, the keys of `Enforcer.gates` |
| `acts[g]`, `stopped`, `trouble`, `restarts` | history: accepted human acts, stopped workflows; counters of the bounds |

| Action | Code |
|---|---|
| `LaunchGate`, `RaiseFails`, `PublishRaised` | the node creates its task, posts the approval, and goes on when module 09 has published `gate.raised` and replied, or fails |
| `Poll`, `TimeOut`, `StopRun` | a tick of the node's poll; the status is looked at before the deadline; `ctx.Done` |
| `CreateApproval`, `Act`, `Delegate`, `Expire`, `Delete` | the approval handlers with their store methods |
| `RecordAnswer`, `ApplyAnswer` | `SubmitHitlAnswer`: the answer is stored first, the approval decided afterwards |
| `PublishResponse` | `publishResponse`; the act is stored before, and stays when publishing fails |
| `ConsumeRaised`, `ConsumeResponse` | the enforcer's two goroutines, one per topic |
| `CreateHumanTask`, `RespondToHumanTask`, `CancelHumanTask` | the routes for tasks; the portal creates its own and posts an approval of any type |
| `SaveApprovals`, `SaveAnswers`, `RestartSupervision` | `persist.SaveAll` and `Load`: one file at a time, without the `threshold_config` |
| `RestartEngine` | tasks, gate map and waiting nodes are in memory and go |

Choices of abstraction. Every attempt of a node creates a task of its own, so a
gate is one attempt. Messages are a set: the writers use a `LeastBytes`
balancer, which ignores the key, and the consumers read two topics, so no order
can be relied upon; an event that repeats one still in flight merges with it.
`Expire` stands for a deadline set by `PATCH` that has passed: gate nodes set
none. Publication and the reply of `CreateApproval` are one step, since nothing
another process does falls between them that the node could see. The task store
is the in-memory one: see section 6 for PostgreSQL.

`HumanGateProps` states the properties, `HumanGateInv` the inductive invariant.
`GateContract` is what one gate promises whoever looks at it: people say things
about it, it is decided at most once and only as somebody said, and the node
that waits ends once, that way or as a failure. `ImplementsGateContract` says so
of every gate: its acts are what was said, its task is the decision, and
`FateOf` its node's fate. `MCHumanGate` has two gates: `g1` of a gate node (no threshold) and `p1` of the
portal (two approvals needed, one rejection tolerated).

### 3.4 `RequestLoop`: service requests and their runs

Module 05, `internal/workloop` with `store/requests.go` and the request routes.

| TLA+ | Code |
|---|---|
| `req[r]` | the request in `RequestStore`: status, whether it has a run reference, how many outputs and breaches its timeline notes |
| `dispatch[r]`, `cancelling` | the goroutine of `Dispatch`, by its next call; cancel handlers between check and write |
| `snap`, `poller` | the copies `ListNonTerminal` made and those not handled yet; the request being polled and the answer |
| `auth`, `misses` | `Loop.auths`, `Loop.misses` |
| `saved`, `restarts` | `requests.json`; the bound |
| `run[r]`, `ran[r]` | the workflow run in module 03, and the ends it has had |
| `announced[r]` | history: end events published by this process |

| Action | Code |
|---|---|
| `Create` | the intake handler, which files the request and calls `Dispatch` before it answers |
| `CreateWorkflow`, `ExecuteWorkflow`, `DispatchFails`, `RecordRun` | the calls of `Dispatch` and its final mutation; a call that fails may have been served |
| `CancelCheck`, `CancelWrite` | the cancel handler: the check on one copy, the write on another |
| `ListNonTerminal`, `Skip`, `GetWorkflowState`, `Miss`, `MirrorNodes`, `Decide` | one `pollOnce`: list, then for each request the read, the mutation of the timeline, the verdict and the clock |
| `Finish` | `finish`: a guarded status, then the event whatever the guard said |
| `RunStep` | module 03 moves the run: its engine and gates, a retry of an ended run included |
| `Save`, `Restart` | the snapshot and the process that loads it |

The moves of a run (`RunMoves`) are those of module 03's engine and gate nodes: it
drafts, waits at a gate, acts, and ends; a gate that is refused and one whose time
is over fail differently. Outputs and actions of a run are one output: each is
noted under the same condition; `Shows` says which answers carry one. `Drafts` are
the requests whose procedure drafts something before its sign-off, and a run that
failed or was cancelled may show an output or not. Module 03 puts no error into
the state it answers, so `VerdictOf` reads a rejection, as the code does, off the
name of the failed node: `NamedGates` are the requests whose sign-offs have ids
that begin with "gate". The clock is a free choice: whether the resolution time is over is
not decided by the model, only how often it is noted.

`RequestContract` is what one request promises without copies, polls and misses:
while a process lives it announces one end, which the request then has unless it
was cancelled, and never one that its run has not had; outputs and breaches are
noted once; a restart takes the request back to what was kept of it.
`ImplementsRequestContract` says so of every request.

### 3.5 `IngestWorker`: jobs, rows and vectors

Module 06, `internal/workers/ingest_worker.go` with the stores of jobs and
results. A document is the sequence of the hashes of its chunks. The last status
and the delete of the canceller are two steps: a cancellation may fall between.

| TLA+ | Code |
|---|---|
| `status` | `ingestion_jobs.status` |
| `rows`, `stored` | `ingestion_results`; the vectors of module 07, both by job and chunk index |
| `runs[j][n]` | a goroutine of `ProcessJob`: its next call, the chunk it looks at, its batch, whether its context lives; it still has to delete the canceller when `runJob` has returned |
| `canceller[j]` | the entry of `Worker.cancellers`, by the run it belongs to |
| `stuck` | jobs the poller listed and has not requeued |
| `dropped` | history: contents that a failed call, a crash or a failed check lost |

| Action | Code |
|---|---|
| `IngestSource` | the handler that creates the job and starts its goroutine |
| `ListStuck`, `Requeue` | a tick of the poller; a job that is still running is started again |
| `CancelJob` | `Worker.CancelJob`; the handler's check of the status came before |
| `Begin`, `Extract`, `Check`, `Record`, `StoreVectors`, `Complete` | the calls of one run in their order: statuses, duplicate check, row, batch of vectors, last status |
| `Fail` | `failJob` after a call that failed while its context was good |
| `Cancelled`, `TimeOut` | a call ends because its context is cancelled or expired; `failJob` writes with that context, so its write fails as well (`Abandon`) and the status stays |
| `Return` | the goroutine deletes the job's canceller, whichever run it belongs to |
| `Restart` | the process dies; `Worker.Start` starts what was pending |

`ContentContract` is what the worker promises of one content, without runs,
batches, pollers or cancellations: once a job has met it, it is held by a run,
stored in module 07 or known to be lost, and never forgotten; a stored vector
stays; a row appears only while a run takes the content; a job claims to have
ingested it only once it is known. That a lost content may be claimed is what
the code does (section 6). `ImplementsContentContract` says so of every content:
`FateOf` is what became of it, `Claims` the completed jobs that have it.

### 3.6 `PolicyEngine` and `CapabilityFunnel`: may an agent do this?

`PolicyEngine` is module 10 (`internal/engine`): the loop over the policies that
the database returned (`Weigh`, `Loop`, `Evaluate`, `Orders`), the cache, and
evaluations that run beside changes of policies. `CapabilityFunnel` extends it
with module 08 (`internal/funnel`) and the seats of module 05.

| TLA+ | Code |
|---|---|
| `active`, `cache`, `eval[c]` | policies with `is_active`; `Engine.cache`; the evaluation a caller has asked for |
| `deniedFor[r]` | history: ticks since the policies in force last allowed the request |
| `inv[c]` | how far `Invoke` has got |
| `rank` | the autonomy rank of the seat in module 05 |
| `record[c]`, `trail` | the invocation record in memory and in the database |
| `performed`, `ranked` | history: actions executed; callers under way whose seat has had the rank |

| Action | Code |
|---|---|
| `Ask`, `CacheGet`, `ListActive`, `Decide` | `Engine.Evaluate`: the cache, the query, whose list may end early without an error (`Listed`), the loop and the new entry |
| `ChangePolicies`, `EngineTick`, `EngineRestart` | the policy routes, which touch no entry; time; a restart of module 10 |
| `Submit`, `PolicyAnswer`, `PolicyTimesOut`, `Authority`, `Dispatch`, `AppendRecord` | the stages of `Invoke` and the ways each refuses |
| `Unclaimed` | module 10 ends the evaluation of a caller that has given up |
| `SetRank`, `Restart` | a `PATCH` of module 05's org chart changes the seat's tier; the funnel's process restarts |

A request of the model is a class of those that the cache key identifies: cost,
role, department and metadata, which the key leaves out, are not told apart, so
that two requests which differ in them alone share an entry (section 6) is not
visible. Time is counted in ticks, and the model keeps ages instead of instants. `TTL`
is the lifetime of an entry, `MaxEval` bounds the time from a question to the use of
its answer (the clients' timeouts do in the code). Both are constants.

`InvocationContract` is what one invocation promises without an engine, a cache,
seats or stages: its action is performed at most once, while the caller waits and
under a licence; the caller is told once, and what is told is what was done; a
restart forgets only records that the database lost. The licence is an input
of the contract that changes at any time. `ImplementsInvocationContract` says so
of every caller: `Licensed` holds when the engine's answer is an allow by policies
within the bound and the seat has had the rank.

### 3.7 `DepartmentDeploy`: the deployment of a department

Module 05, `internal/deploy/orchestrator.go` with the stores of deployments and
departments and the administrators' routes. Departments are Go objects behind
pointers: `objects` is the heap, `objects[1]` the one that the deploy handler
made and the orchestrator works on, `stored` what the store holds. A shallow
copy shares the slices of its original, so an edit names the object it shares.

| TLA+ | Code |
|---|---|
| `deployment` | the record: status and what each stage says |
| `run` | the orchestrator's goroutine: stage, part of it, agents tried, first error |
| `registered`, `compiled` | agents in module 04, workflows in module 03 (external) |
| `edit[a]` | an administrator's request that has read the department |
| `saved` | `deployments.json`, `departments.json` |

| Action | Code |
|---|---|
| `Begin`, `Enter` | `beginStage`: the record of the stage, then the status, under two locks |
| `CompleteStage` | `completeStage` |
| `Fail`, `Mark`, `Degrade` | `fail`: its three writes to the stage, the deployment and the department |
| `Configure`, `ConnectData`, `ProvisionMemory`, `RegisterAgent`, `SwarmDone`, `CompileWorkflow`, `WorkflowsDone` | the stages of `Run` and their calls, each of which may fail after it was served |
| `OperationalDeployment`, `OperationalDepartment` | the end of `Run`: two stores, two writes |
| `Read` | a route reads its shallow copy |
| `SetPositionHolder`, `UpdateOrgChart` | a holder is named: in the slice that the copy shares, then by decoding that slice into the stored org chart, where an agent that JSON leaves out stays |
| `SyncServiceWorkflows`, `ReplaceSynced` | the references in the shared slice, then the whole copy over what is stored |
| `Patch`, `Archive` | the status: any word, which the model calls "patched", or archived |
| `SaveFile`, `Restart` | one snapshot file; the process that loads both |

`DeployContract` is what a deployment promises without objects, copies, calls or
edits: stages are completed one after the other, the swarm and the workflows only
once all agents and workflows exist; the department opens only when the deployment
did, and shows how its run ended; after a failed stage it never opens, whatever is
synced, between whichever two writes the files were saved, and whatever a restart
restores; what exists outside is never undone. An administrator who patches the
status of a failed department to "operational" is not contradicted by the code:
the model keeps his word apart from the run's, and the contract is about the run's.
`ImplementsDeployContract` reads it off the record, the stored object and the
saved record.

## 4. The runs

| Run | Question | Instance |
|---|---|---|
| `dag_rounds` | do the rounds respect the graph and the retry policy, implement `GraphRun`, and end, and do two executions never schedule at a time, while operators pause, resume, cancel and stop? | diamond with a shortcut edge, a guarded edge, retries 2/1/1, a second execution accepted or refused at any moment of the first, `continue`, memory store, fairness |
| `dag_restart` | is anything left running after crashes and failed database calls? | fork with a guard and a retry, two executions, two processes, one fault (a reconciliation may be what fails), cancel, `abort`, PostgreSQL |
| `dag_retry_skips` | does a successful retry unblock the successors? (violated) | chain, one retry |
| `dag_abort` | is a retry that was granted made before an abort? (violated) | chain, one retry, `abort` |
| `gate_crash` | does a gate implement `GateContract` (one decision, founded, obeyed), and does its task contradict its approval? | one gate node, every act, one event lost or redelivered, one restart of each service |
| `gate_liveness` | does a decision arrive, does every gate end, does a threshold decide? | the gate node beside the portal's gate, one event lost or redelivered, fairness |
| `requests` | does a request implement `RequestContract` (one end, founded, announced once), is its verdict final, and is every end of a run seen? | one request, two misses, one restart, fairness |
| `ingest` | does each content implement `ContentContract` (met, never forgotten, claimed only then), is a completed job whole, does a job end? | a job of two chunks that may run twice at a time, any number of cancellations, timeouts, failed rows and vectors, one failed status write, failed check or restart, fairness |
| `vectors` | is a job whose vectors were lost ever reported completed? (violated) | two jobs with the same chunk, no failed database call and no restart |
| `governed` | how old may an allow be, and does an invocation implement `InvocationContract` (once, licensed, told as it was)? | two callers, an allow below a deny that come and go, lists that end early, a lifetime and an evaluation of one tick each |
| `department` | does the record tell the truth, does a deployment implement `DeployContract` (in order, made before completed, no opening after a failed stage), is an operational department whole, does it show the outcome, does a deployment end? | two seats, two workflows, integrations, memory, one administrator with one edit, one restart, fairness |
| `sync` | does a sync of the services change only them? (violated) | two seats, one workflow, integrations, one sync |

**Bounds of the engine's runs.** A graph of three or four nodes has everything the rounds tell
apart: roots, a node with two predecessors settled in different rounds, an edge
that jumps a round, siblings, a guard, retries with one and two attempts left.
Two executions are needed to overlap the end of one with the start of the next;
a third would meet the same two situations. In memory a second execution of a
workflow that was completed is refused by the store, so it runs only after a failure
or beside what is left of the first; in PostgreSQL (`dag_restart`) it always runs.
Two processes give one crash and
one restart; reconciliation does not depend on how many came before. One fault
reaches every ignored error once. No symmetry is used: the nodes of a graph are
not interchangeable. `CHECK_DEADLOCK FALSE`: the system may stop, when all
executions allowed by the bound have ended.

**Bounds of the gate's runs.** Gates share no state but the restarts, so one
gate of each kind is enough. A threshold of 2 with 1 tolerated rejection is the
smallest at which one act of either kind does not decide. One loss or
redelivery reaches each of the four messages of a gate; one restart of each
service, with a snapshot before it, reaches each stale combination. `GateEnds`
is checked without restarts, which only end nodes sooner.
`CHECK_DEADLOCK FALSE`: people may stop acting.

**Bounds of the other runs.** Requests meet only in the poller, which handles
one at a time on copies made together: an older copy of one request is what a
second would add, and the poller's steps already let everything else happen
between the copy and its use. Two misses are the fewest at which a miss does
not decide. Two runs of one job with two chunks give duplicates made by another run, batches
of one and of two chunks, and cancellers of the wrong run; that the duplicate is
another job's is nothing a run can tell, as `ExistsByHash` does not ask whose the
row is, and `vectors` has two jobs. One trouble reaches each failing call. The funnel's callers are interchangeable (symmetry); two of them share a
cache entry, one making it and one using it, and the ticks let each clock run
out. An allow below a deny, with either switched off or cut off the list, gives the
answers that matter: an allow on a list without the deny would be licensed by nothing;
priorities, scopes and conditions beyond that are in the
theorems. Two seats give a swarm that fails at either agent, two workflows a
compilation that fails half-way; one edit, of either kind, is read before and written
after any stage, between any two writes of the run, and before or after a restart. `CHECK_DEADLOCK FALSE` there: a deployment ends.

**Fairness of the request loop.** Handlers return or time out after 30 s, and the
poller's ticker goes on; nothing is assumed of runs or people. **Of the
worker.** Every call returns or times out and the poller's ticker goes on; a run
that fails to write its end is found by the poller. A run that was cancelled or
timed out can never write its end, so `JobEnds` excuses jobs to which that happens
for ever: nothing in the code bounds it. **Of a deployment.** The
orchestrator's goroutine runs on while its process lives. The funnel needs none.

**Fairness of the gate** (`HumanGate!FairSpec`). Handlers run to their end or
hit the 15 s limit of the node's HTTP client; the tickers tick; the consumers
take what the broker holds; a handler that stored an act publishes its event.
Whether and when people act is not assumed.

**Fairness of the engine** (`DagEngine!FairSpec`). Weak fairness of the goroutine of an execution and
of each node handler: the Go runtime schedules every runnable goroutine, and
every handler returns, because the LLM client (120 s), the capability client
(30 s) and the node's HTTP client (15 s) have timeouts and a gate gives up after
24 h. Nothing is assumed of operators, boots or crashes.

**Deployment.** `MaxAlive = 1`: the manifest asks for one replica. The
specification also admits 2, a rolling update during which two processes live.

## 5. The proofs

`DagEngineProofs` and `DagEngineRefines` prove, for every finite graph, retry
policy, number of executions and of processes, and both stores:

| Theorem | States |
|---|---|
| `EngineInvariant` | the inductive invariant |
| `TypeCorrect` | `TypeOK` |
| `PredecessorsAlwaysSucceeded`, `NodesAlwaysRunOnce`, `IsRunningAlwaysHonest` | the property of that name |
| `HandlersAlwaysJoined` | `HandlersJoined`: no handler is at work once its execution left the round |
| `AllNodesExecutedIfAcyclic` | `AllNodesExecuted`, assuming `Acyclic` |
| `SingleExecutorKept` | `SingleExecutor`, for the in-memory store whatever operators do, for PostgreSQL assuming that nobody calls `StopWorkflow` |
| `RunningAlwaysHasExecutor` | `RunningHasExecutor`, assuming `MaxAlive = 1` and no resume |
| `EngineImplementsGraphRun` | each execution implements `GraphRun`, assuming `Acyclic` |
| `RunsAlwaysDescend` | `RunsDescend`: every step of an execution lowers a natural number that nothing raises, on cyclic graphs too |

**Assumptions of the engine's theorems.** `GraphAssumption` (finite nodes, edges between them, guards on
edges, attempts are numbers, a known error strategy) and `DeploymentAssumption`
(a known store; one process at a time and no failing calls in memory mode).
Acyclicity is a hypothesis of two theorems, not an assumption of the model: the
code accepts cyclic graphs.

**The engine's argument.** The properties are not inductive. A node's predecessors are
looked at in three different rounds: when it is put in the ready list, when it
is visited, and, if a predecessor is retried, when it is put there again. The
invariant (`RunSound`) says what reconciles the three: a node that was ever
launched has *frozen* predecessors, all completed, none failed or skipped, and
none in the current batch (`PredsFrozen`); a node of the batch shares it only
with predecessors that block it (`BlockedInBatch`); whatever is listed or
decided has decided predecessors (`ListedNodesReady`). From these,
`CompletedStay`, `SkippedStay` and `StartsCounted` follow step by step.
`NothingForgotten` (every undecided node is listed, or waits for an undecided
node, or will be listed when the round settles) gives `AllNodesExecuted`:
at the end the undecided nodes would be a set in which each node has an
undecided predecessor, which `Acyclic` excludes. `EntryInv` and `HonestInv` tie
the running map to the executions. `StopWorkflow` takes the entry of an execution
that goes on; in memory it does so only once the record is cancelled, completed
or failed, and from these the store takes nobody back to running, so no
second execution can begin (`StoppedInv`). A PostgreSQL record can be taken back,
so there the theorem excludes stops. `ExecutorInv` says who vouches for a running
workflow: an execution that will still write how it ended; with one process,
killing it leaves nobody serving, and the next boot reconciles (PostgreSQL) or
finds nothing (in memory). A resume really breaks it (section 6), so the theorem
excludes resumes. `RunsDescend` counts what an execution can still do
(`Remaining`): handler calls left by the retry policy, nodes that rounds
starting at the roots can still reach, and the turns within a round; the nodes
of a batch are among those (`GroundedInv`), so a cycle is never entered and
each turn takes one away. `DagEngineProofs` first shows the effect of
each step on one goroutine (`StepEffect`), then one lemma per kind of step.

`HumanGateProofs` proves, for any set of gates, of gate nodes and of
thresholds, any number of losses, redeliveries and restarts:

| Theorem | States |
|---|---|
| `GateInvariant` | the inductive invariant `GateInv` |
| `GateTypeCorrect` | `TypeOK` |
| `GatesImplementContract` | each gate implements `GateContract` |
| `VerdictAlwaysHasAct`, `QuorumAlwaysDecides`, `DecisionsAlwaysAgree` | the property of that name |

**Assumptions of the gate's theorems.** `ApprovalAssumption` (thresholds and
bounds are numbers, a minimum is positive) and `GateAssumption` (gate nodes
raise approvals without a threshold).

**The gate's argument.** A node only sees its task, the task only sees an
event, and the event was caused by an act: `EventsHaveActs` and `TasksHaveActs`
carry the act along that chain, which is why loss, repetition and restarts
cannot break `VerdictHasAct`. `Quorums` speaks of the snapshot as well as of the
store, since a restart turns one into the other. `DecisionsAgree` needs
`EventsTell`: until module 09 restarts, an event about a gate node's gate means
that its approval is decided that way (or deleted since), because without a
threshold the first act decides and a decided approval takes no second act.
`PostedOnce` excludes that an approval is created over a decided one.
For the refinement each action is shown to be one step of the contract of its
gate and no step of the others: launching and creating a task ask (a gate is
asked once, `AskedOnce`), an event consumed or an answer to the task decides,
polls and deadlines finish, a restart of module 03 loses. A second decision
finds the task no longer pending; the act behind each is `EventsHaveActs`.
`HumanGateProofs` has one lemma per part and, under it, one step per action.

The later modules have one invariant and one proof module each. All hold for
every value of the constants, under the `ASSUME` of the module
(`LoopAssumption`, `IngestAssumption`, `PolicyAssumption`, `EngineAssumption`
and `FunnelAssumption`, `DeployAssumption`), which only say that bounds are
numbers, constants have their types, and the rows of policies and the agents of
a template are finitely many. Priorities are integers: the column may hold
negative ones.

| Module | Theorems |
|---|---|
| `RequestLoopProofs` | `LoopInvariant`, `LoopTypeCorrect`, `VerdictsAlwaysFounded`, `AlwaysNotedOnce`, `AlwaysAnnouncedOnce`, `VerdictsStay`, `RequestsImplementContract` |
| `IngestWorkerProofs` | `WorkerInvariant`, `WorkerTypeCorrect`, `RowsAlwaysOwed`, `ContentsImplementContract`, `CompletedAlwaysWhole`, `WorkersAlwaysDescend` |
| `CapabilityFunnelProofs` | `FunnelInvariant`, `FunnelTypeCorrect`, `AllowAlwaysFresh`, `TrailAlwaysTruthful`, `InvocationsImplementContract`, `DecisionByPriority` |
| `DepartmentDeployProofs` | `DeployInvariant`, `DeployTypeCorrect`, `StagesAlwaysTell`, `DeploymentsImplementContract`, `OperationalAlwaysWhole`, `OutcomeAlwaysShown`, `DeploymentsAlwaysDescend` |

**The request loop's argument.** A request is in the hands of its dispatch, which
runs before there is a reference, or of the poller, which looks only at copies
with one (`Dispatching`, `Polling`): so no verdict is written by both. The copy
says of the timeline what the request says until the poller has written to it
(`CopyCounts`), which is why looking at the copy notes nothing twice. An answer
rests on an end the run has had (`AnswerHolds`), although the run may be retried.
The refinement of `RequestContract` rests on these: no conclusion is drawn after
an end was announced, and what is noted is noted by whoever holds the request. A
cancel handler, which may write long after its check, only writes over a request
that was filed (`CancelsFiled`, an invariant of its own). Reading, polling,
counting misses and changes of copies are invisible to the contract.

**The worker's argument.** A run has accounted for every chunk it has passed,
whatever other runs of the same job do (`PassedAccounted`), and its position
fits its batch (`RunsFit`). Rows only grow, vectors only grow, and a batch that
ends is either stored or counted as lost, so a chunk once accounted for stays so.
`RunsDescend` counts the calls a run may still make (`CallsLeft`): two for each
chunk ahead, one for the batch, one for the last status. Only its own calls
change that number; a restart replaces the run by a new one.
For the refinement three kinds of step are told apart. A run that goes on keeps its
batch (`GoOnLeaves`); a run that lets go of its batch, at its end or by storing it,
has each of its contents stored or dropped (`RunLeaves`, `EndLeaves`), and another
run that holds one of them keeps it held; a run that takes a chunk, known or
not, holds it unless it is stored. `Complete` claims contents all of which its run has passed, which
`PassedAccounted` says are known. The contract speaks of contents and the steps of
batches, so one step is a step of the contract of each content of the batch.

**The funnel's argument.** What an answer rests on passes three places, each with a
clock: the policies an evaluation has read (bounded by its age), the cache
entry made of them (by the ticks it has lost and one evaluation), and the answer
(by both and its own age). `ReadIsRecent`, `EntryIsRecent` and `AnswerIsRecent`
carry the bound from one to the next; a tick moves both sides. The bound
`TTL + 2 * MaxEval` is what these three add up to.
The refinement takes the licence from these at the moment of `Dispatch`; every
step of the engine, of time or of another caller leaves the invocation as it is and
only changes the licence. A restart loses the callers under way, and of the
others only those whose record is not in the trail.

**The decision's argument.** `DecidesByPriority` says what the loop decides, over all
orders of the rows that respect the priorities (`ByPriority`): as an allow or a deny of
the highest priority, whatever proxies stand above it; without any, proxy if there is
a proxy policy, else deny. It is what the code does, not what the README of module
10 says (section 6), and the reason why a list that ends early allows nothing more.
Both directions are facts about a recursive function and a finite set, for which
the provers have no induction; `DataInduction` replaces it by smallest
counterexamples: a nonempty set of numbers has a least member (`LeastNatural`),
one of finite sets a minimal one (`MinimalSet`), both from the library's
well-foundedness of strict inclusion. After each turn the loop knows what the
rows seen so far say (`LoopSoFar`): a first turn that broke this would follow one
that did not (`SoFarStep`). An order is a ranking of the rows (`OrderLists`);
rankings exist (`RankingExists`, by the smallest set without one), and every
policy of the highest priority comes first in some (`OrderWithFirst`), so every
such decision is given by some order, and no other by any.

**The deployment's argument.** While the run is live, the record follows from its
stage and part (`Follows`), and the own object and the stored one have what the stages
behind it made (`Provisioned`), since every stage that changes the own object
ends by storing a copy. The status of the record lags behind its stages between the
two writes of `beginStage` and between those of `fail` (`StatusOf`); what a record
tells (`Tells`) allows for that lag and no more, and is kept of saved records too,
since a snapshot may fall there and agents and workflows are not undone. Once the
run is over only the conclusion is left, and edits keep it (`EditKeeps`).
The refinement needs one more invariant, `NeverOpens`: after a failed stage, also of
the record that was last saved, a live run has only the rest of `fail` to do, and no
object, no copy that an administrator has read and no saved department is in
operation, so neither a late write nor a restart can show one. It is inductive on
top of `Inv`, and was checked by TLC first. `RunDescends` counts the steps left: four
for each stage, one for each agent not tried and each workflow not created. No
edit touches these, and a restart leaves none, which is the flaw of section 6 seen
from the other side.

**Only model-checked.** The liveness properties: `RunsEnd` and `RunningSettles` of
the engine, `ResponseApplied`, `DecisionReachesNode` and `GateEnds`, `RunEndSeen`,
`JobEnds`, `DeploymentEnds`. They rest on fairness and on what is enabled, which
the prover does not reason about. For executions, runs of jobs and deployments
the theorems that a number descends leave to TLC only that fair steps go on
being possible until it reaches its least value. Every other property that a
passing run checks is stated by a theorem, with the hypotheses of the tables
above: `Acyclic` graphs, no resume, one process, no stop with PostgreSQL.

**Proved beside the runs.** `VerdictHasAct`, `NotedOnce`, `HandlersJoined`,
`RowsAreOwed` and `TrailTruthful` are consequences that a contract or an invariant
already contains, and `DecidesByPriority` is about sets of policies and no state;
they are stated and proved, and no run checks them.

## 6. What the checks show about the code

Shown by a run that TLC violates:

* **A successful retry does not unblock successors** (`dag_retry_skips`).
  `failed[nid] = true` is set even when the node is requeued and is never
  cleared; successors are skipped and the workflow is `completed`.
* **A granted retry is discarded** (`dag_abort`). `RetryCount` is incremented when a node
  is put back ("Re-queue for retry") and compared with its limit after the round, so
  the failure that was granted the last retry already counts as final: under `abort`
  the execution ends with that retry in the ready list, and a policy with
  `max_attempts` 1 gets none.
* **Lost vectors are reported as success** (`vectors`). Rows come before vectors
  and stay when `StoreVectors` fails; the next run of the same content finds only
  duplicates, stores nothing and completes. `ingest_worker.go:350` says "never
  report success". `CompletedIsWhole` therefore counts what was lost.
* **A sync puts back what it read** (`sync`). `SyncServiceWorkflows` replaces the
  department by the copy it read; statuses, agents and workflows written meanwhile
  are undone, though its comment says that instance state is untouched.

Met while modelling the gate, with no run of their own:

* `ThresholdConfig` is tagged `json:"-"` and the snapshot is the JSON of the
  approval: after a restart one approval decides what needed two.
* A response consumed before its raise is dropped, because the enforcer does not
  know the gate yet; the approval is terminal and the node waits for its 24 h. The
  portal's scenario waits 700 ms before it approves.
* `gate.responded` is published for every act, also below the threshold, and
  the enforcer applies the first: a portal task is decided by its first
  approver. `DecisionsAgree` is therefore stated of gate nodes.
* Cancelling a task stores `approved` (`Respond` knows only `reject` and
  `request_info` as other outcomes), so a waiting node proceeds.
* The HITL answer is recorded before it is applied: one for an approval that is
  not there, or decided, stays on record, decides nothing and cannot be repeated.
* Acts accepted after the last snapshot of a process are lost with it, although
  their events were applied: the approval may be pending again with its task
  decided (`ThroughApproval` excludes this).
* In PostgreSQL mode a gate's task refers to a pipeline execution that does not
  exist (`database.go:331`), so creating it fails and with it the gate node.

Met while modelling the engine, with no run of their own:

* Cancel and pause write a status that the engine never reads: nodes are launched
  after a cancel, although the README of module 03 calls it "Cancel running workflow".
* A workflow may be resumed before it ever ran, between the entry of a start and its
  status write: the write is refused in memory, the start given up, and the workflow
  stays `running` with nobody executing. `RunningSettles` is therefore about
  workflows with an execution under way.
* The final status of an execution that was overtaken by the next one of its workflow
  is written over the status of that one.
* Resume of an execution that ended while paused: the final write was refused, its
  error ignored, and `ResumeWorkflow` starts nothing: `running` for ever.
* `hasFailedPredecessor` reads `failed` without `batchMu` while sibling
  goroutines may write it.
* The completed event is published also when the final write was refused.
* A cyclic graph ends as `completed` without its cycle having run:
  `ValidateDAG` has no caller.
* When the graph cannot be loaded, the entry of `running` stays and this
  process refuses every later start of the workflow.
* With two processes alive, the booting one fails the workflows which the other
  is executing (`FailOrphanedActive` does not ask whose they are).

Met while modelling the request loop:

* A process that dies between `ExecuteWorkflow` and the mutation leaves a
  request without a reference, which the poller skips for ever, although
  `workloop.go:161` says that requests are polled until each is terminal and that
  this survives restarts.
* `RecordRun` writes `in_progress` whatever the status became: a request cancelled
  during its dispatch comes back. The run of a cancelled request is not told.
* `awaiting_approval` never turns back into `in_progress`.
* A human's refusal is told by the name of the failed node. No template names its
  sign-offs "gate...", so a refusal ends the request as `failed`, and a gate node of
  that name which nobody answered ends it as `rejected`; the contract of module 05
  (`asyncapi-05-department-template-engine.yaml`) says "A human rejected the gated
  work; the request terminates as rejected".

Met while modelling the worker:

* A job that is cancelled or times out says so with the context that has just ended:
  the write fails, the error is dropped and the poller runs the job again, for ever if
  its document takes longer than the limit. `cancelled` is never written.
* The poller requeues by age: jobs still running get a second run, whose canceller
  the end of the first one deletes, so that "CancelJob cancels a running job by
  jobID" (`ingest_worker.go:164`) does not hold of it.
* Between the last status and the delete of the canceller a cancellation is answered
  "job cancelled" for a job that has completed.
* When the duplicate check fails, the chunk is skipped without a trace.

Met while modelling policies and the funnel:

* "If any `deny` policy matches, deny immediately" (README of module 10, line 31):
  an allow of a higher priority ends the loop before the deny is seen. A proxy is overridden by an
  allow below it although "`enforce + proxy`" should return "proxied" (line 37). `DecidesByPriority`
  states what the loop does.
* `InvalidateCache` has no caller: a changed policy takes effect after five minutes
  and an evaluation. The cache key leaves out cost, role, department and
  metadata, on which conditions may depend. Cached answers publish no event.
* `rows.Err` is not looked at (`policies.go:241`): when the connection breaks the list
  ends early, is decided on and cached. It comes by falling priority, so it may deny
  what is allowed, and allows nothing that the whole list does not.
* The evaluate handler passes no resource type: typed policies below the global
  scope never apply.
* The record is written after the action; a failed insert is only logged.

Met while modelling deployments:

* A seat given to a human before its agent is registered gets the agent as well,
  and a holder named in the stored copy is lost when the orchestrator's own object
  replaces it.
* A restart leaves a deployment in its stage for ever.
* Workflows created before one that fails are listed nowhere.
* The final `UpdateStatus` revives a department archived meanwhile.
* A `PATCH` may say `operational` of a department whose deployment failed, or never
  ran.
* A snapshot between the writes of `beginStage` or of `fail`, and a restart, keep a
  record whose status names a stage that has failed or that is over.
* Handlers and the orchestrator write to the same slices without a lock.

## 7. What is not modelled, and why

* Of M03: variables, history rows, replay, listing and CRUD of definitions do
  not feed back into a run. `TopologicalSort` and `ValidateDAG` have no caller.
  Pipelines, schedules, drafts and the LLM and capability clients are CRUD and
  HTTP adapters; a call is the free choice between success and failure.
* Of M05: the fields of a `PATCH` other than the status and the org chart; the
  cadence scheduler (one ticker writing independent briefings); templates.
* Of M06: extraction and chunking, deterministic functions of the source; listing.
* Of M08 and M10: CRUD of providers, bindings, groups and templates (any binding
  may be found at any time); the syntax of conditions (sets of requests).
* Of M09: interventions and escalations are CRUD with terminal checks; the queue
  and the risk dashboard are read-only views.
* M17 budgets, M18 sync engine, M14 handoffs: left by the plan; each is one
  sequential call over database rows.
* M13, M12: scoring of one request and provider adapters. M01, M02, M04, M11,
  M15: CRUD over tables. M07, M19: vector similarity and text processing. M16: a
  process runner with a timeout. M21: web pages. None keeps state that several
  actors drive through a protocol.
* Contracts, manifests, tools: documents and configuration; what they fix (one
  replica, PostgreSQL) enters as constants of the runs.
