-------------------------- MODULE DagEngineProofs --------------------------
(***************************************************************************)
(* Theorems about the DAG engine, for every graph, every retry policy,     *)
(* every error strategy, every store and any number of executions and      *)
(* processes.                                                              *)
(***************************************************************************)
EXTENDS DagEngineInv, FiniteSetTheorems, TLAPS

-----------------------------------------------------------------------------
(* Type correctness. *)

Others(r) == \A q \in Runs \ {r} : run'[q] = run[q]

\* One goroutine moves on, the others do not.
LEMMA BecomesEffect ==
  ASSUME TypeOK, NEW r \in Runs, NEW s \in RunState, Becomes(r, s)
  PROVE  /\ run' \in [Runs -> RunState]
         /\ run'[r] = s
         /\ Others(r)
BY DEF TypeOK, Becomes, Others

LEMMA WriteTypes ==
  ASSUME TypeOK, NEW to \in Statuses, NEW ok \in BOOLEAN, WriteStatus(to, ok)
  PROVE  status' \in Statuses /\ faults' \in Nat
BY DEF TypeOK, WriteStatus

LEMMA PcMoves ==
  ASSUME NEW s \in RunState, NEW pc \in Pcs
  PROVE  [s EXCEPT !.pc = pc] \in RunState
BY DEF RunState

\* The record each step of the rounds loop leads to.
LEMMA LoopStates ==
  ASSUME TypeOK, NEW r \in Runs
  PROVE  /\ [run[r] EXCEPT !.pc = "loop", !.ready = Roots] \in RunState
         /\ [run[r] EXCEPT !.pc = "launching", !.batch = run[r].ready,
               !.todo = run[r].ready, !.ready = {}, !.errs = {}] \in RunState
         /\ [run[r] EXCEPT !.pc = "dropping", !.outcome = Outcome(r)] \in RunState
         /\ [run[r] EXCEPT !.pc = "dropping", !.outcome = "failed"] \in RunState
         /\ [run[r] EXCEPT !.pc = "loop", !.ready = NextReady(r)] \in RunState
<1> DEFINE s == run[r]
<1>1. s \in RunState
  BY DEF TypeOK
<1>2. /\ Roots \in SUBSET Nodes
      /\ s.ready \in SUBSET Nodes
      /\ NextReady(r) \in SUBSET Nodes
      /\ Outcome(r) \in {"none"} \cup Terminal
      /\ "failed" \in {"none"} \cup Terminal
      /\ {"loop", "launching", "dropping"} \subseteq Pcs
  BY <1>1 DEF RunState, Roots, NextReady, Outcome, Terminal, Pcs
<1>3. [s EXCEPT !.pc = "launching", !.batch = s.ready,
               !.todo = s.ready, !.ready = {}, !.errs = {}] \in RunState
  BY <1>1, <1>2 DEF RunState
<1>4. /\ [s EXCEPT !.pc = "loop", !.ready = Roots] \in RunState
      /\ [s EXCEPT !.pc = "dropping", !.outcome = Outcome(r)] \in RunState
      /\ [s EXCEPT !.pc = "dropping", !.outcome = "failed"] \in RunState
      /\ [s EXCEPT !.pc = "loop", !.ready = NextReady(r)] \in RunState
  BY <1>1, <1>2 DEF RunState
<1> QED
  BY <1>3, <1>4

\* The records that skipping a node, launching it, and its return lead to.
LEMMA NodeStates ==
  ASSUME TypeOK, NEW r \in Runs, NEW n \in Nodes
  PROVE  /\ [run[r] EXCEPT !.pc = AfterVisit(r, n), !.todo = @ \ {n},
               !.skipped = @ \cup {n}] \in RunState
         /\ [run[r] EXCEPT !.pc = AfterVisit(r, n), !.todo = @ \ {n},
               !.inflight = @ \cup {n}, !.starts[n] = @ + 1] \in RunState
         /\ [run[r] EXCEPT !.inflight = @ \ {n},
               !.completed = @ \cup {n}] \in RunState
         /\ [run[r] EXCEPT !.inflight = @ \ {n}, !.errs = @ \cup {n},
               !.failed = @ \cup {n},
               !.ready = IF MayRetry(r, n) THEN @ \cup {n} ELSE @,
               !.retries[n] = IF MayRetry(r, n) THEN @ + 1 ELSE @] \in RunState
<1> DEFINE s == run[r]
<1>1. s \in RunState
  BY DEF TypeOK
<1>2. /\ s.todo \ {n} \in SUBSET Nodes
      /\ s.inflight \ {n} \in SUBSET Nodes
      /\ s.inflight \cup {n} \in SUBSET Nodes
      /\ s.completed \cup {n} \in SUBSET Nodes
      /\ s.failed \cup {n} \in SUBSET Nodes
      /\ s.errs \cup {n} \in SUBSET Nodes
      /\ s.ready \in SUBSET Nodes
      /\ s.ready \cup {n} \in SUBSET Nodes
      /\ s.skipped \cup {n} \in SUBSET Nodes
      /\ [s.starts EXCEPT ![n] = @ + 1] \in [Nodes -> Nat]
      /\ [s.retries EXCEPT ![n] = IF MayRetry(r, n) THEN @ + 1 ELSE @] \in [Nodes -> Nat]
      /\ AfterVisit(r, n) \in Pcs
  BY <1>1 DEF RunState, AfterVisit, Pcs
<1>3. [s EXCEPT !.pc = AfterVisit(r, n), !.todo = s.todo \ {n},
         !.inflight = s.inflight \cup {n}, !.starts[n] = @ + 1] \in RunState
  BY <1>1, <1>2 DEF RunState
<1>4. [s EXCEPT !.inflight = s.inflight \ {n},
         !.completed = s.completed \cup {n}] \in RunState
  BY <1>1, <1>2 DEF RunState
<1>5. [s EXCEPT !.inflight = s.inflight \ {n}, !.errs = s.errs \cup {n},
         !.failed = s.failed \cup {n},
         !.ready = IF MayRetry(r, n) THEN s.ready \cup {n} ELSE s.ready,
         !.retries[n] = IF MayRetry(r, n) THEN @ + 1 ELSE @] \in RunState
  BY <1>1, <1>2 DEF RunState
<1>6. [s EXCEPT !.pc = AfterVisit(r, n), !.todo = s.todo \ {n},
         !.skipped = s.skipped \cup {n}] \in RunState
  BY <1>1, <1>2 DEF RunState
<1> QED
  BY <1>3, <1>4, <1>5, <1>6

LEMMA InitTypeOK == Init => TypeOK
<1> SUFFICES ASSUME Init PROVE TypeOK
  OBVIOUS
<1>1. NewRun \in RunState
  BY GraphAssumption DEF NewRun, RunState, Pcs, Terminal
<1> QED
  BY <1>1, DeploymentAssumption DEF Init, TypeOK, Statuses, Terminal

\* Steps of an execution outside its rounds.
LEMMA StartEndTypes ==
  ASSUME TypeOK, OutcomeDecided, NEW r \in Runs,
         \/ \E p \in Processes : Execute(p, r)
         \/ MarkRunning(r) \/ Release(r) \/ LoadFails(r)
         \/ DropEntry(r) \/ Finalize(r) \/ Announce(r)
  PROVE  TypeOK'
<1> USE DEF TypeOK
<1>r. run[r] \in RunState
  OBVIOUS
<1>p. {"claimed", "releasing", "refused", "spawned", "done", "finalizing", "announcing"} \subseteq Pcs
  BY DEF Pcs
<1>o. run[r].outcome \in {"none"} \cup Terminal /\ run[r].home \in Processes \cup {NoProc}
  BY <1>r DEF RunState
<1>1. ASSUME NEW p \in Processes, Execute(p, r) PROVE TypeOK'
  <2>1. [run[r] EXCEPT !.pc = "claimed", !.home = p] \in RunState
    BY <1>r, <1>p DEF RunState
  <2> QED
    BY <1>1, <2>1, BecomesEffect DEF Execute
<1>2. CASE MarkRunning(r)
  <2>1. PICK ok \in BOOLEAN :
          /\ WriteStatus("running", ok)
          /\ Becomes(r, [run[r] EXCEPT !.pc = IF ok THEN "spawned" ELSE "releasing"])
    BY <1>2 DEF MarkRunning
  <2>2. status' \in Statuses /\ faults' \in Nat
    BY <2>1, WriteTypes DEF Statuses
  <2>3. run' \in [Runs -> RunState]
    <3>1. (IF ok THEN "spawned" ELSE "releasing") \in Pcs
      BY <1>p
    <3>2. [run[r] EXCEPT !.pc = IF ok THEN "spawned" ELSE "releasing"] \in RunState
      BY <3>1, <1>r, PcMoves
    <3> QED
      BY <2>1, <3>2, BecomesEffect
  <2> QED
    BY <1>2, <2>2, <2>3 DEF MarkRunning
<1>3. CASE Release(r)
  <2>1. [run[r] EXCEPT !.pc = "refused"] \in RunState
    BY <1>r, <1>p, PcMoves
  <2> QED
    BY <1>3, <2>1, BecomesEffect DEF Release
<1>4. CASE LoadFails(r)
  <2>1. [run[r] EXCEPT !.pc = "done"] \in RunState
    BY <1>r, <1>p, PcMoves
  <2>2. run' \in [Runs -> RunState]
    BY <1>4, <2>1, BecomesEffect DEF LoadFails
  <2> QED
    BY <1>4, <2>2 DEF LoadFails, Publish, Statuses, Terminal
<1>5. CASE DropEntry(r)
  <2>1. [run[r] EXCEPT !.pc = "finalizing"] \in RunState
    BY <1>r, <1>p, PcMoves
  <2> QED
    BY <1>5, <2>1, BecomesEffect DEF DropEntry
<1>6. CASE Finalize(r)
  <2>1. [run[r] EXCEPT !.pc = "announcing"] \in RunState
    BY <1>r, <1>p, PcMoves
  <2>2. run' \in [Runs -> RunState]
    BY <1>6, <2>1, BecomesEffect DEF Finalize
  <2>3. run[r].outcome \in Statuses
    BY <1>6, <1>o DEF OutcomeDecided, Finalize, Leaving, Statuses
  <2>4. status' \in Statuses /\ faults' \in Nat
    BY <1>6, <2>3, WriteTypes DEF Finalize
  <2> QED
    BY <1>6, <2>2, <2>4 DEF Finalize
<1>7. CASE Announce(r)
  <2>1. [run[r] EXCEPT !.pc = "done"] \in RunState
    BY <1>r, <1>p, PcMoves
  <2> QED
    BY <1>7, <1>o, <2>1, BecomesEffect DEF Announce, Publish, OutcomeDecided, Leaving
<1> QED
  BY <1>1, <1>2, <1>3, <1>4, <1>5, <1>6, <1>7

\* Steps of the rounds loop.
LEMMA RoundTypes ==
  ASSUME TypeOK, NEW r \in Runs,
         \/ LoadGraph(r) \/ BeginRound(r) \/ LeaveLoop(r) \/ Settle(r)
         \/ \E n \in Nodes :
              SkipBlocked(r, n) \/ SkipUnmet(r, n) \/ Launch(r, n) \/ NodeReturns(r, n)
  PROVE  TypeOK'
<1>1. run' \in [Runs -> RunState]
  BY BecomesEffect, LoopStates, NodeStates
  DEF LoadGraph, BeginRound, LeaveLoop, Settle, SkipBlocked, SkipUnmet, Launch,
      NodeReturns, NodeSucceeds, NodeFails
<1>2. CASE BeginRound(r)
  <2>1. run[r].ready \subseteq Nodes
    BY DEF TypeOK, RunState
  <2> QED
    BY <1>1, <1>2, <2>1 DEF TypeOK, BeginRound, RecordRound
<1>3. CASE ~BeginRound(r)
  BY <1>1, <1>3
  DEF TypeOK, LoadGraph, LeaveLoop, Settle, SkipBlocked, SkipUnmet, Launch,
      NodeReturns, NodeSucceeds, NodeFails
<1> QED
  BY <1>2, <1>3

\* Requests and processes.
LEMMA EnvironmentTypes ==
  ASSUME TypeOK,
         \/ Pause \/ Resume \/ Cancel
         \/ \E p \in Processes : Stop(p) \/ Boot(p) \/ Kill(p)
  PROVE  TypeOK'
<1>1. CASE Pause
  BY <1>1, WriteTypes DEF Pause, TypeOK, Statuses
<1>2. CASE Resume
  BY <1>2, WriteTypes DEF Resume, TypeOK, Statuses
<1>3. CASE Cancel
  <2>1. status' \in Statuses /\ faults' \in Nat
    BY <1>3, WriteTypes DEF Cancel, Statuses, Terminal
  <2> QED
    BY <1>3, <2>1 DEF Cancel, TypeOK, Publish, Terminal
<1>4. ASSUME NEW p \in Processes, Stop(p) PROVE TypeOK'
  <2>1. owner[p] \in Runs
    BY <1>4 DEF TypeOK, Stop
  <2>2. [run[owner[p]] EXCEPT !.cancelled = TRUE] \in RunState
    <3>1. ASSUME NEW s \in RunState PROVE [s EXCEPT !.cancelled = TRUE] \in RunState
      BY Zenon DEF RunState
    <3> QED
      BY <2>1, <3>1 DEF TypeOK
  <2>3. run' \in [Runs -> RunState]
    BY <1>4, <2>1, <2>2, BecomesEffect DEF Stop
  <2>4. status' \in Statuses /\ faults' \in Nat
    BY <1>4, WriteTypes DEF Stop, Statuses, Terminal
  <2> QED
    BY <1>4, <2>3, <2>4 DEF Stop, TypeOK, Publish, Terminal
<1>5. ASSUME NEW p \in Processes, Boot(p) PROVE TypeOK'
  BY <1>5 DEF Boot, TypeOK, Reconciled, Statuses, Terminal
<1>6. ASSUME NEW p \in Processes, Kill(p) PROVE TypeOK'
  <2>1. \A r \in Runs : [run[r] EXCEPT !.pc = "killed"] \in RunState
    BY PcMoves DEF TypeOK, Pcs
  <2>2. run' \in [Runs -> RunState]
    BY <1>6, <2>1 DEF Kill, TypeOK
  <2> QED
    BY <1>6, <2>2 DEF Kill, TypeOK, Statuses
<1> QED
  BY <1>1, <1>2, <1>3, <1>4, <1>5, <1>6

LEMMA TypeStep == TypeOK /\ OutcomeDecided /\ [Next]_vars => TypeOK'
<1> SUFFICES ASSUME TypeOK, OutcomeDecided, [Next]_vars PROVE TypeOK'
  OBVIOUS
<1>1. CASE UNCHANGED vars
  BY <1>1 DEF TypeOK, vars
<1>2. CASE Next
  BY <1>2, StartEndTypes, RoundTypes, EnvironmentTypes DEF Next, EngineStep, RoundStep
<1> QED
  BY <1>1, <1>2

-----------------------------------------------------------------------------
(* What a step does to the record of the goroutine that takes it. *)

SameMaps(s, t) ==
  /\ t.completed = s.completed /\ t.failed = s.failed /\ t.skipped = s.skipped
  /\ t.retries = s.retries /\ t.starts = s.starts

\* Only the program counter moves, outside the loop.
Moves(s, t) ==
  /\ SameMaps(s, t)
  /\ t.ready = s.ready /\ t.batch = s.batch /\ t.todo = s.todo
  /\ t.inflight = s.inflight /\ t.errs = s.errs /\ t.outcome = s.outcome
  /\ \/ s.pc \in BeforeLoop /\ t.pc \in BeforeLoop \cup {"done"}
     \/ s.pc \in Leaving /\ t.pc \in AfterLoop
     \/ t.pc \in {s.pc, "killed"}

Loads(s, t) ==
  /\ t.home = s.home
  /\ s.pc = "spawned" /\ t.pc = "loop"
  /\ SameMaps(s, t)
  /\ t.ready = Roots /\ t.todo = s.todo /\ t.inflight = s.inflight
  /\ t.outcome = s.outcome

Begins(s, t) ==
  /\ t.home = s.home
  /\ s.pc = "loop" /\ t.pc = "launching" /\ s.ready # {}
  /\ SameMaps(s, t)
  /\ t.batch = s.ready /\ t.todo = s.ready /\ t.ready = {} /\ t.errs = {}
  /\ t.inflight = s.inflight /\ t.outcome = s.outcome

Visits(s, t, n) ==
  /\ t.home = s.home
  /\ s.pc = "launching" /\ t.pc \in Visiting
  /\ t.pc = "waiting" <=> s.todo = {n}
  /\ n \in s.todo /\ t.todo = s.todo \ {n}
  /\ t.ready = s.ready /\ t.batch = s.batch /\ t.errs = s.errs
  /\ t.completed = s.completed /\ t.failed = s.failed
  /\ t.retries = s.retries /\ t.outcome = s.outcome

Skips(s, t, n) ==
  /\ Visits(s, t, n)
  /\ Preds(n) \cap (s.failed \cup s.skipped) # {} \/ HasGuard(n)
  /\ t.skipped = s.skipped \cup {n}
  /\ t.inflight = s.inflight /\ t.starts = s.starts

Launches(s, t, n) ==
  /\ Visits(s, t, n)
  /\ Preds(n) \cap (s.failed \cup s.skipped) = {}
  /\ t.skipped = s.skipped
  /\ t.inflight = s.inflight \cup {n}
  /\ t.starts = [s.starts EXCEPT ![n] = @ + 1]

Returns(s, t, n) ==
  /\ t.home = s.home
  /\ s.pc \in Visiting /\ t.pc = s.pc
  /\ n \in s.inflight /\ t.inflight = s.inflight \ {n}
  /\ t.batch = s.batch /\ t.todo = s.todo /\ t.skipped = s.skipped
  /\ t.starts = s.starts /\ t.outcome = s.outcome

Succeeds(s, t, n) ==
  /\ Returns(s, t, n)
  /\ t.completed = s.completed \cup {n}
  /\ t.ready = s.ready /\ t.errs = s.errs /\ t.failed = s.failed
  /\ t.retries = s.retries

Fails(s, t, n) ==
  /\ Returns(s, t, n)
  /\ t.completed = s.completed
  /\ t.failed = s.failed \cup {n} /\ t.errs = s.errs \cup {n}
  /\ \/ /\ s.retries[n] < MaxAttempts[n]
        /\ t.ready = s.ready \cup {n}
        /\ t.retries = [s.retries EXCEPT ![n] = @ + 1]
     \/ /\ s.retries[n] >= MaxAttempts[n]
        /\ t.ready = s.ready
        /\ t.retries = s.retries

Collected(s) ==
  s.ready \cup {n \in Nodes : /\ Preds(n) \subseteq Decided(s)
                            /\ Preds(n) \cap s.batch \cap Decided(s) # {}}

Settles(s, t) ==
  /\ t.home = s.home
  /\ s.pc = "waiting" /\ s.inflight = {} /\ t.pc = "loop"
  /\ SameMaps(s, t)
  /\ t.ready = Collected(s) /\ t.todo = s.todo /\ t.inflight = {}
  /\ t.outcome = s.outcome
  /\ ErrorStrategy = "abort" =>
       \A n \in s.errs : s.retries[n] < MaxAttempts[n]

Leaves(s, t) ==
  /\ t.home = s.home
  /\ s.pc \in {"loop", "waiting"} /\ t.pc = "dropping"
  /\ SameMaps(s, t)
  /\ t.todo = s.todo /\ t.inflight = s.inflight
  /\ s.pc = "waiting" => s.inflight = {}
  /\ t.ready = s.ready
  /\ t.outcome \in Terminal
  /\ t.outcome = "completed" => s.pc = "loop" /\ s.ready = {}
  /\ t.outcome = "failed" => s.pc = "waiting" /\ s.errs # {}

RoundMove(s, t) ==
  \/ Loads(s, t) \/ Begins(s, t) \/ Settles(s, t) \/ Leaves(s, t)
  \/ \E n \in Nodes :
       Skips(s, t, n) \/ Launches(s, t, n) \/ Succeeds(s, t, n) \/ Fails(s, t, n)

\* Every step of an execution is one of these.
LEMMA RoundEffect ==
  ASSUME TypeOK, NEW r \in Runs,
         \/ LoadGraph(r) \/ BeginRound(r) \/ LeaveLoop(r) \/ Settle(r)
         \/ \E n \in Nodes :
              SkipBlocked(r, n) \/ SkipUnmet(r, n) \/ Launch(r, n) \/ NodeReturns(r, n)
  PROVE  RoundMove(run[r], run'[r]) /\ Others(r)
<1> DEFINE s == run[r]
           t == run'[r]
<1>1. s \in RunState
  BY DEF TypeOK
<1>2. CASE LoadGraph(r)
  <2>1. t = [s EXCEPT !.pc = "loop", !.ready = Roots] /\ Others(r)
    BY <1>2, LoopStates, BecomesEffect DEF LoadGraph
  <2> QED
    BY <1>1, <1>2, <2>1 DEF LoadGraph, RoundMove, Loads, SameMaps, RunState
<1>3. CASE BeginRound(r)
  <2>1. /\ t = [s EXCEPT !.pc = "launching", !.batch = s.ready,
                 !.todo = s.ready, !.ready = {}, !.errs = {}]
        /\ Others(r)
    BY <1>3, LoopStates, BecomesEffect DEF BeginRound
  <2> QED
    BY <1>1, <1>3, <2>1 DEF BeginRound, RoundMove, Begins, SameMaps, RunState
<1>4. CASE LeaveLoop(r)
  <2>1. t = [s EXCEPT !.pc = "dropping", !.outcome = Outcome(r)] /\ Others(r)
    BY <1>4, LoopStates, BecomesEffect DEF LeaveLoop
  <2>2. /\ Outcome(r) \in Terminal /\ Outcome(r) # "failed"
        /\ Outcome(r) = "completed" => s.ready = {}
    BY DEF Outcome, Terminal
  <2> QED
    BY <1>1, <1>4, <2>1, <2>2 DEF LeaveLoop, RoundMove, Leaves, SameMaps, RunState
<1>5. CASE Settle(r)
  <2>1. CASE HardFailed(r) /\ ErrorStrategy = "abort"
    <3>1. t = [s EXCEPT !.pc = "dropping", !.outcome = "failed"] /\ Others(r)
      BY <1>5, <2>1, LoopStates, BecomesEffect DEF Settle
    <3> QED
      BY <1>1, <1>5, <2>1, <3>1
      DEF Settle, Joined, HardFailed, RoundMove, Leaves, SameMaps, RunState, Terminal
  <2>2. CASE ~(HardFailed(r) /\ ErrorStrategy = "abort")
    <3>1. t = [s EXCEPT !.pc = "loop", !.ready = NextReady(r)] /\ Others(r)
      BY <1>5, <2>2, LoopStates, BecomesEffect DEF Settle
    <3>2. NextReady(r) = Collected(s)
      BY DEF NextReady, Collected, AllPredecessorsDone, Settled, Decided
    <3>3. ErrorStrategy = "abort" => \A n \in s.errs : s.retries[n] < MaxAttempts[n]
      BY <1>1, <2>2, GraphAssumption DEF HardFailed, RunState
    <3> QED
      BY <1>1, <1>5, <3>1, <3>2, <3>3
      DEF Settle, Joined, RoundMove, Settles, SameMaps, RunState
  <2> QED
    BY <2>1, <2>2
<1>6. ASSUME NEW n \in Nodes, SkipBlocked(r, n) \/ SkipUnmet(r, n)
      PROVE  Skips(s, t, n) /\ Others(r)
  <2>1. /\ t = [s EXCEPT !.pc = AfterVisit(r, n), !.todo = @ \ {n}, !.skipped = @ \cup {n}]
        /\ Others(r)
    BY <1>6, NodeStates, BecomesEffect DEF SkipBlocked, SkipUnmet
  <2> QED
    BY <1>1, <1>6, <2>1
    DEF SkipBlocked, SkipUnmet, HasFailedPredecessor, AfterVisit, Skips, Visits, Visiting, RunState
<1>7. ASSUME NEW n \in Nodes, Launch(r, n)
      PROVE  Launches(s, t, n) /\ Others(r)
  <2>1. /\ t = [s EXCEPT !.pc = AfterVisit(r, n), !.todo = @ \ {n},
                 !.inflight = @ \cup {n}, !.starts[n] = @ + 1]
        /\ Others(r)
    BY <1>7, NodeStates, BecomesEffect DEF Launch
  <2> QED
    BY <1>1, <1>7, <2>1
    DEF Launch, HasFailedPredecessor, AfterVisit, Launches, Visits, Visiting, RunState
<1>8. ASSUME NEW n \in Nodes, NodeReturns(r, n)
      PROVE  (Succeeds(s, t, n) \/ Fails(s, t, n)) /\ Others(r)
  <2>1. CASE NodeSucceeds(r, n)
    <3>1. /\ t = [s EXCEPT !.inflight = @ \ {n}, !.completed = @ \cup {n}]
          /\ Others(r)
      BY <2>1, NodeStates, BecomesEffect DEF NodeSucceeds
    <3> QED
      BY <1>1, <2>1, <3>1 DEF NodeSucceeds, Succeeds, Returns, Visiting, RunState
  <2>2. CASE NodeFails(r, n)
    <3>1. /\ t = [s EXCEPT !.inflight = @ \ {n}, !.errs = @ \cup {n},
                   !.failed = @ \cup {n},
                   !.ready = IF MayRetry(r, n) THEN @ \cup {n} ELSE @,
                   !.retries[n] = IF MayRetry(r, n) THEN @ + 1 ELSE @]
          /\ Others(r)
      BY <2>2, NodeStates, BecomesEffect DEF NodeFails
    <3>2. Returns(s, t, n) /\ t.completed = s.completed
          /\ t.failed = s.failed \cup {n} /\ t.errs = s.errs \cup {n}
      BY <1>1, <2>2, <3>1 DEF NodeFails, Returns, Visiting, RunState
    <3>3. s.retries[n] \in Nat /\ MaxAttempts[n] \in Nat /\ s.retries \in [Nodes -> Nat]
      BY <1>1, GraphAssumption DEF RunState
    <3>4. CASE MayRetry(r, n)
      BY <1>1, <3>1, <3>2, <3>3, <3>4 DEF Fails, MayRetry, RunState
    <3>5. CASE ~MayRetry(r, n)
      <4>1. t.ready = s.ready /\ t.retries = s.retries
        BY <1>1, <3>1, <3>3, <3>5 DEF RunState
      <4> QED
        BY <3>1, <3>2, <3>3, <3>5, <4>1 DEF Fails, MayRetry
    <3> QED
      BY <3>1, <3>4, <3>5
  <2> QED
    BY <1>8, <2>1, <2>2 DEF NodeReturns
<1> QED
  BY <1>2, <1>3, <1>4, <1>5, <1>6, <1>7, <1>8 DEF RoundMove

LEMMA MoveEffect ==
  ASSUME TypeOK, NEW r \in Runs,
         \/ \E p \in Processes : Execute(p, r)
         \/ MarkRunning(r) \/ Release(r) \/ LoadFails(r)
         \/ DropEntry(r) \/ Finalize(r) \/ Announce(r)
  PROVE  Moves(run[r], run'[r]) /\ Others(r)
<1> DEFINE s == run[r]
           t == run'[r]
<1>1. s \in RunState
  BY DEF TypeOK
<1>2. ASSUME NEW p \in Processes, Execute(p, r) PROVE Moves(s, t) /\ Others(r)
  <2>1. [s EXCEPT !.pc = "claimed", !.home = p] \in RunState
    BY <1>1 DEF RunState, Pcs
  <2>2. t = [s EXCEPT !.pc = "claimed", !.home = p] /\ Others(r)
    BY <1>2, <2>1, BecomesEffect DEF Execute
  <2> QED
    BY <1>1, <1>2, <2>2 DEF Execute, Moves, SameMaps, BeforeLoop, RunState
<1>3. ASSUME NEW pc \in Pcs, Becomes(r, [s EXCEPT !.pc = pc]),
             \/ s.pc \in BeforeLoop /\ pc \in BeforeLoop \cup {"done"}
             \/ s.pc \in Leaving /\ pc \in AfterLoop
      PROVE  Moves(s, t) /\ Others(r)
  <2>1. t = [s EXCEPT !.pc = pc] /\ Others(r)
    BY <1>1, <1>3, PcMoves, BecomesEffect
  <2> QED
    BY <1>1, <1>3, <2>1 DEF Moves, SameMaps, RunState
<1>4. CASE MarkRunning(r)
  <2>1. PICK ok \in BOOLEAN :
          Becomes(r, [s EXCEPT !.pc = IF ok THEN "spawned" ELSE "releasing"])
    BY <1>4 DEF MarkRunning
  <2>2. (IF ok THEN "spawned" ELSE "releasing") \in Pcs \cap BeforeLoop
    BY DEF Pcs, BeforeLoop
  <2> QED
    BY <1>3, <1>4, <2>1, <2>2 DEF MarkRunning, BeforeLoop
<1>5. CASE Release(r) \/ LoadFails(r) \/ DropEntry(r) \/ Finalize(r) \/ Announce(r)
  BY <1>3, <1>5
  DEF Release, LoadFails, DropEntry, Finalize, Announce, BeforeLoop, AfterLoop, Leaving, Pcs
<1> QED
  BY <1>2, <1>4, <1>5

LEMMA EnvironmentEffect ==
  ASSUME TypeOK,
         \/ Pause \/ Resume \/ Cancel \/ UNCHANGED vars
         \/ \E p \in Processes : Stop(p) \/ Boot(p) \/ Kill(p)
  PROVE  \A q \in Runs : Moves(run[q], run'[q])
<1>1. CASE run' = run
  BY <1>1 DEF Moves, SameMaps
<1>2. ASSUME NEW p \in Processes, Stop(p)
      PROVE  \A q \in Runs : Moves(run[q], run'[q])
  <2>1. owner[p] \in Runs /\ run[owner[p]] \in RunState
    BY <1>2 DEF TypeOK, Stop
  <2>2. run'[owner[p]] = [run[owner[p]] EXCEPT !.cancelled = TRUE]
    BY <1>2, <2>1 DEF Stop, Becomes, TypeOK
  <2>3. Moves(run[owner[p]], run'[owner[p]])
    BY <2>1, <2>2 DEF Moves, SameMaps, RunState
  <2>4. \A q \in Runs : q # owner[p] => run'[q] = run[q]
    BY <1>2, <2>1 DEF Stop, Becomes, TypeOK
  <2> QED
    BY <2>3, <2>4 DEF Moves, SameMaps
<1>3. ASSUME NEW p \in Processes, Kill(p)
      PROVE  \A q \in Runs : Moves(run[q], run'[q])
  <2> SUFFICES ASSUME NEW q \in Runs PROVE Moves(run[q], run'[q])
    OBVIOUS
  <2>1. run[q] \in RunState
    BY DEF TypeOK
  <2>2. run'[q] = run[q] \/ run'[q] = [run[q] EXCEPT !.pc = "killed"]
    BY <1>3 DEF Kill
  <2> QED
    BY <2>1, <2>2 DEF Moves, SameMaps, RunState
<1> QED
  BY <1>1, <1>2, <1>3 DEF Pause, Resume, Cancel, Boot, vars

LEMMA StepEffect ==
  ASSUME TypeOK, [Next]_vars
  PROVE  \A q \in Runs : Moves(run[q], run'[q]) \/ RoundMove(run[q], run'[q])
<1>1. ASSUME NEW r \in Runs, Others(r), Moves(run[r], run'[r]) \/ RoundMove(run[r], run'[r])
      PROVE  \A q \in Runs : Moves(run[q], run'[q]) \/ RoundMove(run[q], run'[q])
  <2>1. \A q \in Runs \ {r} : Moves(run[q], run'[q])
    BY <1>1 DEF Others, Moves, SameMaps
  <2> QED
    BY <1>1, <2>1
<1> QED
  BY <1>1, RoundEffect, MoveEffect, EnvironmentEffect DEF Next, EngineStep, RoundStep

-----------------------------------------------------------------------------
(* Every step keeps the record of a goroutine sound. *)

LEMMA MovesSound ==
  ASSUME NEW s, NEW t, RunSound(s), Moves(s, t)
  PROVE  RunSound(t)
<1> USE DEF RunSound, Moves, SameMaps, Pending, Launched, Decided
<1>1. WorkShape(t)
  BY DEF WorkShape, BeforeLoop, AfterLoop, Leaving, Visiting, Scheduling
<1>2. ListedNodesReady(t) /\ CompletedStay(t) /\ SkippedStay(t) /\ StartsCounted(t)
  BY DEF ListedNodesReady, CompletedStay, SkippedStay, StartsCounted
<1>3. PredsFrozen(t)
  BY DEF PredsFrozen, BeforeLoop, AfterLoop, Leaving, Visiting
<1>4. BlockedInBatch(t)
  BY DEF BlockedInBatch, BeforeLoop, AfterLoop, Leaving, Visiting
<1> QED
  BY <1>1, <1>2, <1>3, <1>4

LEMMA LoadsSound ==
  ASSUME NEW s \in RunState, NEW t \in RunState, RunSound(s), Loads(s, t)
  PROVE  RunSound(t)
<1>1. Pending(s) = {} /\ Decided(s) = {} /\ s.starts = [n \in Nodes |-> 0]
  BY DEF RunSound, WorkShape, Loads, BeforeLoop
<1>2. \A n \in Roots : n \in Nodes /\ Preds(n) = {}
  BY DEF Roots
<1> USE <1>1, <1>2 DEF Loads, SameMaps, RunSound, Pending, Launched, Decided
<1>3. WorkShape(t)
  BY DEF WorkShape, BeforeLoop, AfterLoop, Leaving, Visiting, Scheduling
<1>4. ListedNodesReady(t) /\ PredsFrozen(t) /\ BlockedInBatch(t) /\ CompletedStay(t) /\ SkippedStay(t)
  BY DEF ListedNodesReady, PredsFrozen, BlockedInBatch, CompletedStay, SkippedStay, Visiting
<1>5. StartsCounted(t)
  <2>1. s.retries \in [Nodes -> Nat]
    BY DEF RunState
  <2> QED
    BY <2>1 DEF StartsCounted
<1> QED
  BY <1>3, <1>4, <1>5

LEMMA BeginsSound ==
  ASSUME NEW s \in RunState, NEW t \in RunState, RunSound(s), Begins(s, t)
  PROVE  RunSound(t)
<1>1. s.todo = {} /\ s.inflight = {}
  BY DEF RunSound, WorkShape, Begins
<1> USE <1>1 DEF Begins, SameMaps, RunSound, Pending, Launched, Decided, Visiting
<1>2. WorkShape(t)
  BY DEF WorkShape, BeforeLoop, AfterLoop, Leaving, Scheduling
<1>3. ListedNodesReady(t) /\ CompletedStay(t) /\ SkippedStay(t) /\ StartsCounted(t)
  BY DEF ListedNodesReady, CompletedStay, SkippedStay, StartsCounted
<1>4. PredsFrozen(t)
  BY DEF PredsFrozen, CompletedStay
<1>5. BlockedInBatch(t)
  BY DEF BlockedInBatch, ListedNodesReady, CompletedStay
<1> QED
  BY <1>2, <1>3, <1>4, <1>5

LEMMA SkipsSound ==
  ASSUME NEW s \in RunState, NEW t \in RunState, NEW n \in Nodes,
         RunSound(s), Skips(s, t, n)
  PROVE  RunSound(t)
<1> USE DEF Skips, Visits, RunSound, Pending, Launched, Decided, Visiting
<1>1. WorkShape(t)
  BY DEF WorkShape, BeforeLoop, AfterLoop, Leaving, Scheduling
<1>2. ListedNodesReady(t)
  BY DEF ListedNodesReady
<1>3. PredsFrozen(t)
  BY DEF PredsFrozen, CompletedStay
<1>4. BlockedInBatch(t) /\ CompletedStay(t)
  BY DEF BlockedInBatch, CompletedStay
<1>5. SkippedStay(t)
  BY DEF SkippedStay, WorkShape
<1>6. StartsCounted(t)
  BY DEF StartsCounted
<1> QED
  BY <1>1, <1>2, <1>3, <1>4, <1>5, <1>6

LEMMA LaunchesSound ==
  ASSUME NEW s \in RunState, NEW t \in RunState, NEW n \in Nodes,
         RunSound(s), Launches(s, t, n)
  PROVE  RunSound(t)
<1> USE DEF Launches, Visits, RunSound, Pending, Launched, Decided, Visiting
<1>1. WorkShape(t)
  BY DEF WorkShape, BeforeLoop, AfterLoop, Leaving, Scheduling
<1>2. ListedNodesReady(t)
  BY DEF ListedNodesReady
<1>3. PredsFrozen(t)
  BY DEF PredsFrozen, ListedNodesReady, BlockedInBatch
<1>4. BlockedInBatch(t) /\ CompletedStay(t)
  BY DEF BlockedInBatch, CompletedStay
<1>5. SkippedStay(t)
  BY DEF SkippedStay
<1>6. StartsCounted(t)
  <2>1. s.starts \in [Nodes -> Nat] /\ s.retries \in [Nodes -> Nat]
    BY DEF RunState
  <2>2. n \notin t.ready \cup t.todo
    BY DEF WorkShape
  <2> QED
    BY <2>1, <2>2 DEF StartsCounted
<1> QED
  BY <1>1, <1>2, <1>3, <1>4, <1>5, <1>6

LEMMA SucceedsSound ==
  ASSUME NEW s \in RunState, NEW t \in RunState, NEW n \in Nodes,
         RunSound(s), Succeeds(s, t, n)
  PROVE  RunSound(t)
<1> USE DEF Succeeds, Returns, RunSound, Pending, Launched, Decided, Visiting
<1>1. WorkShape(t)
  BY DEF WorkShape, BeforeLoop, AfterLoop, Leaving, Scheduling
<1>2. ListedNodesReady(t)
  BY DEF ListedNodesReady
<1>3. PredsFrozen(t) /\ BlockedInBatch(t)
  BY DEF PredsFrozen, BlockedInBatch
<1>4. CompletedStay(t)
  BY DEF CompletedStay, WorkShape
<1>5. SkippedStay(t) /\ StartsCounted(t)
  BY DEF SkippedStay, StartsCounted
<1> QED
  BY <1>1, <1>2, <1>3, <1>4, <1>5

LEMMA FailsSound ==
  ASSUME NEW s \in RunState, NEW t \in RunState, NEW n \in Nodes,
         RunSound(s), Fails(s, t, n)
  PROVE  RunSound(t)
<1> USE DEF Fails, Returns, RunSound, Pending, Launched, Decided, Visiting
<1>1. WorkShape(t)
  BY DEF WorkShape, BeforeLoop, AfterLoop, Leaving, Scheduling
<1>2. ListedNodesReady(t)
  BY DEF ListedNodesReady
<1>3. PredsFrozen(t)
  BY DEF PredsFrozen, CompletedStay
<1>4. BlockedInBatch(t) /\ CompletedStay(t)
  BY DEF BlockedInBatch, CompletedStay
<1>5. SkippedStay(t)
  BY DEF SkippedStay, WorkShape
<1>6. StartsCounted(t)
  <2>1. s.retries \in [Nodes -> Nat] /\ s.starts \in [Nodes -> Nat] /\ MaxAttempts \in [Nodes -> Nat]
    BY GraphAssumption DEF RunState
  <2> QED
    BY <2>1 DEF StartsCounted, WorkShape
<1> QED
  BY <1>1, <1>2, <1>3, <1>4, <1>5, <1>6

LEMMA SettlesSound ==
  ASSUME NEW s \in RunState, NEW t \in RunState, RunSound(s), Settles(s, t)
  PROVE  RunSound(t)
<1>1. s.todo = {} /\ s.inflight = {}
  BY DEF RunSound, WorkShape, Settles
<1> USE <1>1 DEF Settles, SameMaps, RunSound, Pending, Launched, Decided, Visiting
<1>2. \A n \in t.ready \ s.ready :
        /\ n \in Nodes /\ n \notin Launched(s)
        /\ Preds(n) \subseteq Decided(s)
        /\ Preds(n) \cap s.batch # {}
  BY DEF Collected, PredsFrozen
<1>3. WorkShape(t)
  BY DEF WorkShape, BeforeLoop, AfterLoop, Leaving, Scheduling
<1>4. ListedNodesReady(t)
  BY <1>2 DEF ListedNodesReady
<1>5. PredsFrozen(t) /\ BlockedInBatch(t)
  BY DEF PredsFrozen, BlockedInBatch
<1>6. CompletedStay(t)
  BY <1>2 DEF CompletedStay
<1>7. SkippedStay(t)
  BY <1>2 DEF SkippedStay, BlockedInBatch
<1>8. StartsCounted(t)
  <2>1. s.retries \in [Nodes -> Nat] /\ s.starts \in [Nodes -> Nat]
    BY DEF RunState
  <2> QED
    BY <1>2, <2>1 DEF StartsCounted
<1> QED
  BY <1>3, <1>4, <1>5, <1>6, <1>7, <1>8

LEMMA LeavesSound ==
  ASSUME NEW s, NEW t, RunSound(s), Leaves(s, t)
  PROVE  RunSound(t)
<1> USE DEF Leaves, SameMaps, RunSound, Pending, Launched, Decided, Visiting
<1>1. WorkShape(t)
  BY DEF WorkShape, BeforeLoop, AfterLoop, Leaving, Scheduling
<1>2. ListedNodesReady(t) /\ PredsFrozen(t) /\ BlockedInBatch(t)
  BY DEF ListedNodesReady, PredsFrozen, BlockedInBatch
<1>3. CompletedStay(t) /\ SkippedStay(t) /\ StartsCounted(t)
  BY DEF CompletedStay, SkippedStay, StartsCounted
<1> QED
  BY <1>1, <1>2, <1>3

LEMMA RoundsStep == TypeOK /\ TypeOK' /\ RoundsInv /\ [Next]_vars => RoundsInv'
<1> SUFFICES ASSUME TypeOK, TypeOK', RoundsInv, [Next]_vars, NEW q \in Runs
             PROVE  RunSound(run'[q])
  BY DEF RoundsInv
<1>1. run[q] \in RunState /\ run'[q] \in RunState /\ RunSound(run[q])
  BY DEF TypeOK, RoundsInv
<1>2. Moves(run[q], run'[q]) \/ RoundMove(run[q], run'[q])
  BY StepEffect
<1> QED
  BY <1>1, <1>2, MovesSound, LoadsSound, BeginsSound, SkipsSound, LaunchesSound,
     SucceedsSound, FailsSound, SettlesSound, LeavesSound DEF RoundMove

LEMMA RoundsInit == Init => RoundsInv
<1> SUFFICES ASSUME Init, NEW q \in Runs PROVE RunSound(NewRun)
  BY DEF Init, RoundsInv
<1> USE DEF NewRun, Pending, Launched, Decided
<1>1. WorkShape(NewRun)
  BY DEF WorkShape, BeforeLoop, AfterLoop, Leaving, Visiting, Scheduling
<1>2. /\ ListedNodesReady(NewRun) /\ PredsFrozen(NewRun) /\ BlockedInBatch(NewRun)
      /\ CompletedStay(NewRun) /\ SkippedStay(NewRun)
  BY DEF ListedNodesReady, PredsFrozen, BlockedInBatch, CompletedStay, SkippedStay, Visiting
<1>3. StartsCounted(NewRun)
  BY GraphAssumption DEF StartsCounted
<1> QED
  BY <1>1, <1>2, <1>3 DEF RunSound

LEMMA OutcomeStep == TypeOK /\ OutcomeDecided /\ [Next]_vars => OutcomeDecided'
<1> SUFFICES ASSUME TypeOK, OutcomeDecided, [Next]_vars, NEW q \in Runs,
                    run'[q].pc \in Leaving
             PROVE  run'[q].outcome # "none"
  BY DEF OutcomeDecided
<1>1. CASE Moves(run[q], run'[q])
  BY <1>1 DEF Moves, BeforeLoop, Leaving, OutcomeDecided
<1>2. CASE RoundMove(run[q], run'[q])
  BY <1>2 DEF RoundMove, Loads, Begins, Settles, Leaves, Skips, Launches, Visits,
              Succeeds, Fails, Returns, Visiting, Leaving, Terminal
<1> QED
  BY <1>1, <1>2, StepEffect

\* The invariant the theorems below rest on.
Inv == TypeOK /\ OutcomeDecided /\ RoundsInv

THEOREM EngineInvariant == Spec => []Inv
<1>1. Init => Inv
  BY InitTypeOK, RoundsInit DEF Inv, Init, OutcomeDecided, NewRun, Leaving
<1>2. Inv /\ [Next]_vars => Inv'
  BY TypeStep, OutcomeStep, RoundsStep DEF Inv
<1> QED
  BY <1>1, <1>2, PTL DEF Spec

-----------------------------------------------------------------------------
(* What the invariant gives. *)

\* The types of DagEngineProps hold in every deployment.
THEOREM TypeCorrect == Spec => []TypeOK
<1>1. Inv => TypeOK
  BY DEF Inv
<1> QED
  BY <1>1, EngineInvariant, PTL

\* No node runs before, or beside, a predecessor that has not succeeded, on any
\* graph: execute's three inspections of the predecessors agree.
THEOREM PredecessorsAlwaysSucceeded == Spec => []PredecessorsSucceeded
<1>1. Inv => PredecessorsSucceeded
  <2> SUFFICES ASSUME Inv, NEW r \in Runs, NEW n \in run[r].inflight \cup run[r].completed
               PROVE  /\ Preds(n) \subseteq run[r].completed
                      /\ Preds(n) \cap (run[r].inflight \cup run[r].skipped) = {}
    BY DEF PredecessorsSucceeded
  <2>1. PredsFrozen(run[r]) /\ CompletedStay(run[r])
    BY DEF Inv, RoundsInv, RunSound
  <2> QED
    BY <2>1 DEF PredsFrozen, CompletedStay, Launched, Pending
<1> QED
  BY <1>1, EngineInvariant, PTL

\* A completed node is never run again, and a failing one within its attempts.
THEOREM NodesAlwaysRunOnce == Spec => []NodesRunOnce
<1>1. Inv => NodesRunOnce
  <2> SUFFICES ASSUME Inv, NEW r \in Runs, NEW n \in Nodes
               PROVE  /\ run[r].starts[n] <= run[r].retries[n] + 1
                      /\ run[r].retries[n] <= MaxAttempts[n]
                      /\ n \in run[r].completed => n \notin run[r].inflight \cup run[r].ready
    BY DEF NodesRunOnce
  <2>1. StartsCounted(run[r]) /\ CompletedStay(run[r])
    BY DEF Inv, RoundsInv, RunSound
  <2> QED
    BY <2>1 DEF StartsCounted, CompletedStay, Pending
<1> QED
  BY <1>1, EngineInvariant, PTL

\* No handler is at work outside the round that launched it.
THEOREM HandlersAlwaysJoined == Spec => []HandlersJoined
<1>1. Inv => HandlersJoined
  <2> SUFFICES ASSUME Inv, NEW r \in Runs, run[r].inflight # {}
               PROVE  /\ run[r].pc \in {"launching", "waiting", "killed"}
                      /\ run[r].inflight \subseteq run[r].batch
    BY DEF HandlersJoined
  <2>1. WorkShape(run[r]) /\ run[r].pc \in Pcs
    BY DEF Inv, RoundsInv, RunSound, TypeOK, RunState
  <2> QED
    BY <2>1 DEF WorkShape, Pcs, BeforeLoop, AfterLoop, Leaving, Visiting, Pending
<1> QED
  BY <1>1, EngineInvariant, PTL

-----------------------------------------------------------------------------
(* On an acyclic graph, an execution that completes settled every node. *)

LEMMA CoverageMoves ==
  ASSUME NEW s, NEW t, NothingForgotten(s), Moves(s, t), WorkShape(s)
  PROVE  NothingForgotten(t)
BY DEF NothingForgotten, Moves, SameMaps, WorkShape, Pending, Decided, BeforeLoop, AfterLoop, Leaving,
       Visiting, Scheduling

LEMMA CoverageRound ==
  ASSUME NEW s \in RunState, NEW t \in RunState, NothingForgotten(s), RunSound(s),
         RoundMove(s, t)
  PROVE  NothingForgotten(t)
<1> USE DEF Decided, Pending, Visiting
<1>s. WorkShape(s) /\ ListedNodesReady(s)
  BY DEF RunSound
<1>1. CASE Loads(s, t)
  <2>1. Decided(t) = {} /\ t.outcome = "none" /\ t.pc = "loop" /\ t.ready = Roots
    BY <1>1, <1>s DEF Loads, SameMaps, WorkShape, BeforeLoop
  <2> QED
    BY <2>1 DEF NothingForgotten, Roots
<1>2. CASE Begins(s, t)
  <2>1. t.outcome = "none"
    BY <1>2, <1>s DEF Begins, WorkShape, Scheduling
  <2> QED
    BY <1>2, <2>1 DEF Begins, SameMaps, NothingForgotten
<1>3. CASE Settles(s, t)
  <2>1. t.outcome = "none" /\ s.todo = {} /\ s.inflight = {}
    BY <1>3, <1>s DEF Settles, WorkShape, Scheduling
  <2> QED
    BY <1>3, <2>1 DEF Settles, SameMaps, Collected, NothingForgotten
<1>4. CASE Leaves(s, t)
  BY <1>4 DEF Leaves, SameMaps, NothingForgotten, AfterLoop, Leaving
<1>5. ASSUME NEW n \in Nodes, Skips(s, t, n) \/ Launches(s, t, n) \/ Succeeds(s, t, n) \/ Fails(s, t, n)
      PROVE  NothingForgotten(t)
  <2>1. t.outcome = "none" /\ t.pc \in Visiting /\ s.pc \in Visiting /\ t.batch = s.batch
    BY <1>5, <1>s DEF Skips, Launches, Succeeds, Fails, Visits, Returns, WorkShape, Scheduling
  <2>2. Decided(s) \subseteq Decided(t) /\ Decided(t) \subseteq Decided(s) \cup {n}
    BY <1>5 DEF Skips, Launches, Succeeds, Fails, Visits, Returns
  <2>3. Pending(s) \subseteq Pending(t) \cup Decided(t) /\ n \in s.batch
    BY <1>5, <1>s DEF Skips, Launches, Succeeds, Fails, Visits, Returns, WorkShape
  <2> QED
    BY <2>1, <2>2, <2>3 DEF NothingForgotten
<1> QED
  BY <1>1, <1>2, <1>3, <1>4, <1>5 DEF RoundMove

LEMMA CoverageInvariant == Spec => []CoverageInv
<1>1. Init => CoverageInv
  BY DEF Init, CoverageInv, NothingForgotten, NewRun, Visiting
<1>2. CoverageInv /\ Inv /\ Inv' /\ [Next]_vars => CoverageInv'
  <2> SUFFICES ASSUME CoverageInv, Inv, Inv', [Next]_vars, NEW q \in Runs
               PROVE  NothingForgotten(run'[q])
    BY DEF CoverageInv
  <2>1. /\ run[q] \in RunState /\ run'[q] \in RunState
        /\ RunSound(run[q]) /\ NothingForgotten(run[q])
    BY DEF Inv, TypeOK, RoundsInv, CoverageInv
  <2>2. Moves(run[q], run'[q]) \/ RoundMove(run[q], run'[q])
    BY StepEffect DEF Inv
  <2> QED
    BY <2>1, <2>2, CoverageMoves, CoverageRound DEF RunSound
<1> QED
  BY <1>1, <1>2, EngineInvariant, PTL DEF Spec

\* execute's comment "All nodes executed" is true of every acyclic graph.
THEOREM AllNodesExecutedIfAcyclic ==
  ASSUME Acyclic
  PROVE  Spec => []AllNodesExecuted
<1>1. Inv /\ CoverageInv => AllNodesExecuted
  <2> SUFFICES ASSUME Inv, CoverageInv, NEW r \in Runs, run[r].outcome = "completed"
               PROVE  Settled(r) = Nodes
    BY DEF AllNodesExecuted
  <2> DEFINE U == Nodes \ Settled(r)
  <2>1. Settled(r) = Decided(run[r]) /\ Settled(r) \subseteq Nodes
    BY DEF Settled, Decided, Inv, TypeOK, RunState
  <2>2. \A n \in U : Preds(n) \cap U # {}
    BY <2>1 DEF CoverageInv, NothingForgotten, Preds
  <2>3. U = {}
    BY <2>2 DEF Acyclic
  <2> QED
    BY <2>1, <2>3
<1> QED
  BY <1>1, EngineInvariant, CoverageInvariant, PTL

-----------------------------------------------------------------------------
(* The running map excludes a second execution, as long as nothing calls     *)
(* Engine.StopWorkflow, which removes an entry whose execution goes on.      *)

LEMMA EntryStep ==
  ASSUME \A p \in Processes : ~Stop(p), TypeOK, EntryInv, [Next]_vars
  PROVE  EntryInv'
<1> DEFINE Holding == {"claimed", "releasing", "dropping"} \cup Scheduling
<1> SUFFICES ASSUME NEW q \in Runs, run'[q].pc \in Holding
             PROVE  run'[q].home \in Processes /\ owner'[run'[q].home] = q
  BY DEF EntryInv
<1>e. \A x \in Runs : run[x].pc \in Holding =>
        run[x].home \in Processes /\ owner[run[x].home] = x
  BY DEF EntryInv
<1>n. \A x \in Runs : x # NoRun
  BY DeploymentAssumption
<1>1. CASE Pause \/ Resume \/ Cancel \/ UNCHANGED vars \/ \E p \in Processes : Boot(p)
  BY <1>1, <1>e DEF Pause, Resume, Cancel, Boot, vars
<1>2. ASSUME NEW p \in Processes, Stop(p) PROVE FALSE
  BY <1>2
<1>3. ASSUME NEW p \in Processes, Kill(p)
      PROVE  run'[q].home \in Processes /\ owner'[run'[q].home] = q
  <2>1. run[q] \in RunState
    BY DEF TypeOK
  <2>2. run[q].home # p /\ run'[q] = run[q]
    BY <1>3, <2>1 DEF Kill, RunState, Live, Scheduling, Leaving
  <2> QED
    BY <1>3, <1>e, <2>2 DEF Kill, TypeOK
<1>4. ASSUME NEW p \in Processes, NEW r \in Runs, Execute(p, r)
      PROVE  run'[q].home \in Processes /\ owner'[run'[q].home] = q
  <2>1. run[r] \in RunState /\ run' = [run EXCEPT ![r] = [run[r] EXCEPT !.pc = "claimed", !.home = p]]
    BY <1>4 DEF TypeOK, Execute, Becomes
  <2>2. owner' = [owner EXCEPT ![p] = r] /\ owner[p] = NoRun
    BY <1>4 DEF Execute, NotRunning
  <2>3. CASE q = r
    BY <2>1, <2>2, <2>3 DEF TypeOK, RunState
  <2>4. CASE q # r
    BY <1>e, <1>n, <2>1, <2>2, <2>4 DEF TypeOK
  <2> QED
    BY <2>3, <2>4
<1>5. ASSUME NEW r \in Runs, Release(r) \/ DropEntry(r)
      PROVE  run'[q].home \in Processes /\ owner'[run'[q].home] = q
  <2>1. /\ run[r] \in RunState /\ run[r].pc \in {"releasing", "dropping"}
        /\ owner' = [owner EXCEPT ![run[r].home] = NoRun]
        /\ \E pc \in {"refused", "finalizing"} :
              run' = [run EXCEPT ![r] = [run[r] EXCEPT !.pc = pc]]
    BY <1>5 DEF TypeOK, Release, DropEntry, Becomes
  <2>2. q # r
    BY <2>1 DEF TypeOK, RunState, Scheduling
  <2>3. run'[q] = run[q] /\ run[q].home # run[r].home
    BY <1>e, <2>1, <2>2 DEF TypeOK
  <2> QED
    BY <1>e, <2>1, <2>3 DEF TypeOK
<1>6. ASSUME NEW r \in Runs,
             \/ MarkRunning(r) \/ LoadFails(r) \/ Finalize(r) \/ Announce(r)
      PROVE  run'[q].home \in Processes /\ owner'[run'[q].home] = q
  <2>1. /\ run[r] \in RunState /\ owner' = owner
        /\ \E pc : /\ run' = [run EXCEPT ![r] = [run[r] EXCEPT !.pc = pc]]
                   /\ pc \in Holding => run[r].pc \in Holding
    BY <1>6 DEF TypeOK, MarkRunning, LoadFails, Finalize, Announce, Becomes, Scheduling
  <2> QED
    BY <1>e, <2>1 DEF TypeOK, RunState
<1>7. ASSUME NEW r \in Runs,
             \/ LoadGraph(r) \/ BeginRound(r) \/ LeaveLoop(r) \/ Settle(r)
             \/ \E n \in Nodes :
                  SkipBlocked(r, n) \/ SkipUnmet(r, n) \/ Launch(r, n) \/ NodeReturns(r, n)
      PROVE  run'[q].home \in Processes /\ owner'[run'[q].home] = q
  <2>1. /\ run[r] \in RunState /\ owner' = owner /\ run[r].pc \in Scheduling
        /\ run'[r].home = run[r].home
        /\ Others(r)
    <3>1. /\ run[r] \in RunState /\ owner' = owner /\ run[r].pc \in Scheduling
      BY <1>7 DEF TypeOK, LoadGraph, BeginRound, LeaveLoop, Settle, SkipBlocked, SkipUnmet,
                  Launch, NodeReturns, NodeSucceeds, NodeFails, Scheduling
    <3>2. run'[r].home = run[r].home
      BY <1>7, RoundEffect DEF RoundMove, Loads, Begins, Settles, Leaves, Skips, Launches,
                               Succeeds, Fails, Visits, Returns
    <3> QED
      BY <1>7, <3>1, <3>2, RoundEffect
  <2> QED
    BY <1>e, <2>1 DEF Others
<1> QED
  BY <1>1, <1>2, <1>3, <1>4, <1>5, <1>6, <1>7 DEF Next, EngineStep, RoundStep

LEMMA HonestStep ==
  ASSUME TypeOK, HonestInv, [Next]_vars
  PROVE  HonestInv'
<1> DEFINE Holding == {"claimed", "releasing", "dropping"} \cup Scheduling
<1>f. faults \in Nat /\ MaxFaults \in Nat
  BY DeploymentAssumption DEF TypeOK
<1> DEFINE Spent == faults' = faults \/ faults' = faults - 1 \/ faults' = faults - 2
<1>0. Spent
  <2>1. ASSUME NEW to, NEW ok, WriteStatus(to, ok) PROVE Spent
    BY <2>1 DEF WriteStatus
  <2>2. CASE Pause \/ Resume \/ Cancel \/ UNCHANGED vars
             \/ \E x \in Processes : Stop(x) \/ Boot(x) \/ Kill(x)
    BY <2>1, <2>2 DEF vars, Pause, Resume, Cancel, Stop, Boot, Kill
  <2>3. ASSUME NEW r \in Runs,
               \/ \E x \in Processes : Execute(x, r)
               \/ MarkRunning(r) \/ Release(r) \/ LoadFails(r)
               \/ DropEntry(r) \/ Finalize(r) \/ Announce(r)
        PROVE  Spent
    BY <2>1, <2>3 DEF Execute, MarkRunning, Release, LoadFails, DropEntry, Finalize, Announce
  <2>4. ASSUME NEW r \in Runs,
               \/ LoadGraph(r) \/ BeginRound(r) \/ LeaveLoop(r) \/ Settle(r)
               \/ \E n \in Nodes :
                    SkipBlocked(r, n) \/ SkipUnmet(r, n) \/ Launch(r, n) \/ NodeReturns(r, n)
        PROVE  Spent
    BY <2>4 DEF LoadGraph, BeginRound, RecordRound, LeaveLoop, SkipBlocked, SkipUnmet,
                      Launch, Settle, NodeReturns, NodeSucceeds, NodeFails
  <2> QED
    BY <2>2, <2>3, <2>4 DEF Next, EngineStep, RoundStep
<1>1. faults' \in Int /\ faults' <= faults
  BY <1>f, <1>0
<1>2. faults' <= MaxFaults /\ (NoCallFailed' => NoCallFailed)
  BY <1>f, <1>1 DEF HonestInv, NoCallFailed
<1> SUFFICES ASSUME NoCallFailed', NoCallFailed, NEW p \in Processes, owner'[p] # NoRun
             PROVE  run'[owner'[p]].home = p /\ run'[owner'[p]].pc \in Holding
  BY <1>2 DEF HonestInv
<1>h. \A x \in Processes : owner[x] # NoRun =>
        /\ owner[x] \in Runs /\ run[owner[x]] \in RunState
        /\ run[owner[x]].home = x /\ run[owner[x]].pc \in Holding
  BY DEF HonestInv, TypeOK
<1>3. CASE Pause \/ Resume \/ Cancel \/ UNCHANGED vars \/ \E x \in Processes : Boot(x)
  BY <1>3, <1>h DEF Pause, Resume, Cancel, Boot, vars
<1>4. ASSUME NEW x \in Processes, Stop(x)
      PROVE  run'[owner'[p]].home = p /\ run'[owner'[p]].pc \in Holding
  <2>1. p # x /\ owner'[p] = owner[p] /\ owner[x] \in Runs /\ owner[x] # NoRun
    BY <1>4 DEF Stop, TypeOK
  <2>2. owner[p] # owner[x]
    BY <1>h, <2>1
  <2> QED
    BY <1>h, <1>4, <2>1, <2>2 DEF Stop, Becomes, TypeOK
<1>5. ASSUME NEW x \in Processes, Kill(x)
      PROVE  run'[owner'[p]].home = p /\ run'[owner'[p]].pc \in Holding
  <2>1. p # x /\ owner'[p] = owner[p]
    BY <1>5 DEF Kill, TypeOK
  <2>2. run'[owner[p]] = run[owner[p]]
    BY <1>h, <1>5, <2>1 DEF Kill
  <2> QED
    BY <1>h, <2>1, <2>2
<1>6. ASSUME NEW x \in Processes, NEW r \in Runs, Execute(x, r)
      PROVE  run'[owner'[p]].home = p /\ run'[owner'[p]].pc \in Holding
  <2>1. /\ run[r] \in RunState /\ run[r].pc = "idle"
        /\ run' = [run EXCEPT ![r] = [run[r] EXCEPT !.pc = "claimed", !.home = x]]
        /\ owner' = [owner EXCEPT ![x] = r]
    BY <1>6 DEF TypeOK, Execute, Becomes
  <2>2. CASE p = x
    BY <2>1, <2>2 DEF TypeOK, RunState
  <2>3. CASE p # x
    BY <1>h, <2>1, <2>3 DEF TypeOK, Scheduling
  <2> QED
    BY <2>2, <2>3
<1>7. ASSUME NEW r \in Runs, Release(r) \/ DropEntry(r)
      PROVE  run'[owner'[p]].home = p /\ run'[owner'[p]].pc \in Holding
  <2>1. /\ owner' = [owner EXCEPT ![run[r].home] = NoRun]
        /\ \E s : run' = [run EXCEPT ![r] = s]
    BY <1>7 DEF Release, DropEntry, Becomes
  <2>2. p # run[r].home /\ owner'[p] = owner[p]
    BY <2>1 DEF TypeOK
  <2> QED
    BY <1>h, <2>1, <2>2 DEF TypeOK
<1>8. ASSUME NEW r \in Runs, LoadFails(r) PROVE FALSE
  BY <1>8, <1>f DEF LoadFails, NoCallFailed
<1>9. ASSUME NEW r \in Runs, MarkRunning(r) \/ Finalize(r) \/ Announce(r)
      PROVE  run'[owner'[p]].home = p /\ run'[owner'[p]].pc \in Holding
  <2>1. /\ run[r] \in RunState /\ owner' = owner
        /\ \E pc : /\ run' = [run EXCEPT ![r] = [run[r] EXCEPT !.pc = pc]]
                   /\ run[r].pc \in Holding => pc \in Holding
    BY <1>9 DEF TypeOK, MarkRunning, Finalize, Announce, Becomes, Scheduling
  <2> QED
    BY <1>h, <2>1 DEF TypeOK, RunState
<1>10. ASSUME NEW r \in Runs,
             \/ LoadGraph(r) \/ BeginRound(r) \/ LeaveLoop(r) \/ Settle(r)
             \/ \E n \in Nodes :
                  SkipBlocked(r, n) \/ SkipUnmet(r, n) \/ Launch(r, n) \/ NodeReturns(r, n)
      PROVE  run'[owner'[p]].home = p /\ run'[owner'[p]].pc \in Holding
  <2>1. owner' = owner
    BY <1>10 DEF LoadGraph, BeginRound, LeaveLoop, Settle, SkipBlocked, SkipUnmet,
                 Launch, NodeReturns, NodeSucceeds, NodeFails
  <2>2. run'[r].home = run[r].home /\ run'[r].pc \in Holding /\ Others(r)
    BY <1>10, RoundEffect DEF RoundMove, Loads, Begins, Settles, Leaves, Skips, Launches,
                              Succeeds, Fails, Visits, Returns, Visiting, Scheduling
  <2> QED
    BY <1>h, <2>1, <2>2 DEF Others
<1> QED
  BY <1>3, <1>4, <1>5, <1>6, <1>7, <1>8, <1>9, <1>10 DEF Next, EngineStep, RoundStep

LEMMA HonestInvariant == Spec => []HonestInv
<1>1. Init => HonestInv
  BY DeploymentAssumption DEF Init, HonestInv
<1>2. HonestInv /\ Inv /\ [Next]_vars => HonestInv'
  BY HonestStep DEF Inv
<1> QED
  BY <1>1, <1>2, EngineInvariant, PTL DEF Spec

\* As long as no database call failed, IsRunning tells the truth.
THEOREM IsRunningAlwaysHonest == Spec => []IsRunningHonest
<1>1. HonestInv => IsRunningHonest
  BY DEF HonestInv, IsRunningHonest, Live, Scheduling, Leaving
<1> QED
  BY <1>1, HonestInvariant, PTL

-----------------------------------------------------------------------------
(* The status of a finished workflow. *)

\* A closed record of the in-memory store only changes by the death of its
\* process.
LEMMA ClosedStep ==
  ASSUME StoreMode = "memory", HonestInv, TypeOK, Next, status \in Closed
  PROVE  status' \in {status, "lost"}
<1>1. ASSUME NEW to, NEW ok, WriteStatus(to, ok) PROVE status' = status
  BY <1>1 DEF WriteStatus, Accepts, ValidTransitions, Closed
<1>2. \A r \in Runs : ~LoadFails(r)
  BY DeploymentAssumption DEF HonestInv, LoadFails, TypeOK
<1>3. CASE Pause \/ Resume \/ Cancel \/ \E x \in Processes : Stop(x) \/ Boot(x) \/ Kill(x)
  BY <1>1, <1>3 DEF Pause, Resume, Cancel, Stop, Boot, Kill, Reconciled
<1>4. ASSUME NEW r \in Runs,
             \/ \E x \in Processes : Execute(x, r)
             \/ MarkRunning(r) \/ Release(r)
             \/ DropEntry(r) \/ Finalize(r) \/ Announce(r)
      PROVE  status' = status
  BY <1>1, <1>4 DEF Execute, MarkRunning, Release, DropEntry, Finalize, Announce
<1>5. ASSUME NEW r \in Runs,
             \/ LoadGraph(r) \/ BeginRound(r) \/ LeaveLoop(r) \/ Settle(r)
             \/ \E n \in Nodes :
                  SkipBlocked(r, n) \/ SkipUnmet(r, n) \/ Launch(r, n) \/ NodeReturns(r, n)
      PROVE  status' = status
  BY <1>5 DEF LoadGraph, BeginRound, LeaveLoop, SkipBlocked, SkipUnmet,
              Launch, Settle, NodeReturns, NodeSucceeds, NodeFails
<1> QED
  BY <1>2, <1>3, <1>4, <1>5 DEF Next, EngineStep, RoundStep

-----------------------------------------------------------------------------
(* One executor per process.  A stop takes the entry away from an execution  *)
(* that goes on: with the PostgreSQL store a second one can then start.      *)

\* StopWorkflow closes the record in memory, whatever the store answers.
LEMMA StopCloses ==
  ASSUME StoreMode = "memory", HonestInv, TypeOK, NEW p \in Processes, Stop(p)
  PROVE  status' \in Closed
<1>1. faults = 0
  BY DeploymentAssumption DEF HonestInv, TypeOK
<1>2. PICK ok \in BOOLEAN : WriteStatus("cancelled", ok)
  BY DEF Stop
<1>3. status \in Statuses
  BY DEF TypeOK
<1>4. status' = "cancelled" \/ (status' = status /\ ~Accepts(StoreMode, status, "cancelled"))
  BY <1>1, <1>2 DEF WriteStatus
<1>5. "cancelled" \notin ValidTransitions[status] => status \in Closed
  BY <1>3 DEF Statuses, Terminal, ValidTransitions, Closed
<1> QED
  BY <1>4, <1>5 DEF Accepts, Closed

\* Over a closed record of the in-memory store no execution begins to schedule,
\* and none changes its process.
LEMMA ClosedSchedules ==
  ASSUME StoreMode = "memory", status \in Closed, TypeOK, [Next]_vars,
         NEW q \in Runs, run'[q].pc \in Scheduling
  PROVE  run[q].pc \in Scheduling /\ run'[q].home = run[q].home
<1>1. run[q] \in RunState
  BY DEF TypeOK
<1>2. CASE Pause \/ Resume \/ Cancel \/ UNCHANGED vars \/ \E p \in Processes : Boot(p)
  BY <1>2 DEF Pause, Resume, Cancel, Boot, vars
<1>3. ASSUME NEW p \in Processes, Stop(p)
      PROVE  run[q].pc \in Scheduling /\ run'[q].home = run[q].home
  <2>1. owner[p] \in Runs
    BY <1>3 DEF Stop, TypeOK
  <2>2. run'[q] = run[q] \/ run'[q] = [run[q] EXCEPT !.cancelled = TRUE]
    BY <1>3, <2>1 DEF Stop, Becomes, TypeOK
  <2> QED
    BY <1>1, <2>2 DEF RunState
<1>4. ASSUME NEW p \in Processes, Kill(p)
      PROVE  run[q].pc \in Scheduling /\ run'[q].home = run[q].home
  <2>1. run'[q] = run[q] \/ run'[q] = [run[q] EXCEPT !.pc = "killed"]
    BY <1>4 DEF Kill
  <2> QED
    BY <1>1, <2>1 DEF RunState, Scheduling
<1>5. ASSUME NEW r \in Runs,
             \/ \E p \in Processes : Execute(p, r)
             \/ MarkRunning(r) \/ Release(r) \/ LoadFails(r)
             \/ DropEntry(r) \/ Finalize(r) \/ Announce(r)
      PROVE  run[q].pc \in Scheduling /\ run'[q].home = run[q].home
  <2>1. q # r => run'[q] = run[q]
    BY <1>5, MoveEffect DEF Others
  <2>2. CASE q = r
    <3>1. run[r] \in RunState /\ run \in [Runs -> RunState]
      BY DEF TypeOK
    <3>2. ASSUME NEW pc, pc \notin Scheduling, NEW s,
                 run' = [run EXCEPT ![r] = s], s.pc = pc PROVE FALSE
      BY <2>2, <3>1, <3>2
    <3>3. ASSUME NEW p \in Processes, Execute(p, r) PROVE FALSE
      BY <3>1, <3>2, <3>3 DEF Execute, Becomes, RunState, Scheduling
    <3>4. ASSUME MarkRunning(r) PROVE FALSE
      <4>1. ~Accepts(StoreMode, status, "running")
        BY DEF Accepts, ValidTransitions, Closed
      <4>2. Becomes(r, [run[r] EXCEPT !.pc = "releasing"])
        BY <3>4, <4>1 DEF MarkRunning, WriteStatus
      <4> QED
        BY <3>1, <3>2, <4>2 DEF Becomes, RunState, Scheduling
    <3>5. ASSUME Release(r) \/ LoadFails(r) \/ DropEntry(r) \/ Finalize(r) \/ Announce(r)
          PROVE  FALSE
      <4>1. \E pc \in {"refused", "done", "finalizing", "announcing"} :
              run' = [run EXCEPT ![r] = [run[r] EXCEPT !.pc = pc]]
        BY <3>5 DEF Release, LoadFails, DropEntry, Finalize, Announce, Becomes
      <4> QED
        BY <3>1, <3>2, <4>1 DEF RunState, Scheduling
    <3> QED
      BY <1>5, <3>3, <3>4, <3>5
  <2> QED
    BY <2>1, <2>2
<1>6. ASSUME NEW r \in Runs,
             \/ LoadGraph(r) \/ BeginRound(r) \/ LeaveLoop(r) \/ Settle(r)
             \/ \E n \in Nodes :
                  SkipBlocked(r, n) \/ SkipUnmet(r, n) \/ Launch(r, n) \/ NodeReturns(r, n)
      PROVE  run[q].pc \in Scheduling /\ run'[q].home = run[q].home
  <2>1. RoundMove(run[r], run'[r]) /\ Others(r)
    BY <1>6, RoundEffect
  <2>2. run[r].pc \in Scheduling /\ run'[r].home = run[r].home
    BY <2>1 DEF RoundMove, Loads, Begins, Settles, Leaves, Skips, Launches, Succeeds,
                Fails, Visits, Returns, Visiting, Scheduling
  <2> QED
    BY <2>1, <2>2 DEF Others
<1> QED
  BY <1>2, <1>3, <1>4, <1>5, <1>6 DEF Next, EngineStep, RoundStep

LEMMA StoppedStep ==
  ASSUME StoreMode = "memory", HonestInv, TypeOK, StoppedInv, [Next]_vars
  PROVE  StoppedInv'
<1>1. EntryInv' => SingleExecutor'
  BY DEF EntryInv, SingleExecutor
<1>2. CASE status \in Closed
  <2>1. status' \in Closed
    BY <1>2, ClosedStep DEF vars, Closed
  <2>2. SingleExecutor'
    BY <1>2, ClosedSchedules DEF StoppedInv, SingleExecutor
  <2> QED
    BY <2>1, <2>2 DEF StoppedInv, Closed
<1>3. CASE status \notin Closed /\ \A p \in Processes : ~Stop(p)
  BY <1>1, <1>3, EntryStep DEF StoppedInv
<1>4. CASE \E p \in Processes : Stop(p)
  <2>1. PICK p \in Processes : Stop(p)
    BY <1>4
  <2>2. status' \in Closed
    BY <2>1, StopCloses
  <2>3. ASSUME NEW q \in Runs
        PROVE  run'[q].pc = run[q].pc /\ run'[q].home = run[q].home
    <3>1. owner[p] \in Runs /\ run[q] \in RunState
      BY <2>1 DEF Stop, TypeOK
    <3>2. run'[q] = run[q] \/ run'[q] = [run[q] EXCEPT !.cancelled = TRUE]
      BY <2>1, <3>1 DEF Stop, Becomes, TypeOK
    <3> QED
      BY <3>1, <3>2 DEF RunState
  <2>4. SingleExecutor'
    BY <2>3 DEF StoppedInv, SingleExecutor
  <2> QED
    BY <2>2, <2>4 DEF StoppedInv, Closed
<1> QED
  BY <1>2, <1>3, <1>4

\* At most one execution per process schedules the nodes of the workflow, unless
\* StopWorkflow meets the PostgreSQL store.
THEOREM SingleExecutorKept ==
  ASSUME StoreMode = "memory" \/ "stop" \notin Interventions
  PROVE  Spec => []SingleExecutor
<1>1. Init => EntryInv
  BY DEF Init, EntryInv, NewRun, Scheduling
<1>2. EntryInv => SingleExecutor
  BY DEF EntryInv, SingleExecutor
<1>3. CASE "stop" \notin Interventions
  <2>1. EntryInv /\ Inv /\ [Next]_vars => EntryInv'
    BY <1>3, EntryStep DEF Inv, Stop
  <2> QED
    BY <1>1, <1>2, <2>1, EngineInvariant, PTL DEF Spec
<1>4. CASE StoreMode = "memory"
  <2>1. Init => StoppedInv
    BY <1>1, <1>2 DEF StoppedInv
  <2>2. StoppedInv /\ HonestInv /\ TypeOK /\ [Next]_vars => StoppedInv'
    BY <1>4, StoppedStep
  <2>3. StoppedInv => SingleExecutor
    BY DEF StoppedInv
  <2> QED
    BY <2>1, <2>2, <2>3, HonestInvariant, TypeCorrect, PTL DEF Spec
<1> QED
  BY <1>3, <1>4

-----------------------------------------------------------------------------
(* A workflow said to be running has an execution.  A resume can revive one  *)
(* that ended meanwhile, and a process that boots beside another fails the   *)
(* workflows of both: the theorem assumes neither.                           *)

\* What the steps of an execution's rounds leave alone.
LEMMA RoundFrame ==
  ASSUME NEW r \in Runs,
         \/ LoadGraph(r) \/ BeginRound(r) \/ LeaveLoop(r) \/ Settle(r)
         \/ \E n \in Nodes :
              SkipBlocked(r, n) \/ SkipUnmet(r, n) \/ Launch(r, n) \/ NodeReturns(r, n)
  PROVE  /\ status' = status /\ proc' = proc
         /\ faults' = faults \/ (faults > 0 /\ faults' = faults - 1)
<1>1. CASE LoadGraph(r) \/ LeaveLoop(r) \/ Settle(r)
  BY <1>1 DEF LoadGraph, LeaveLoop, Settle
<1>2. CASE BeginRound(r)
  BY <1>2 DEF BeginRound, RecordRound
<1>3. ASSUME NEW n \in Nodes, SkipBlocked(r, n) \/ SkipUnmet(r, n) \/ Launch(r, n)
      PROVE  status' = status /\ proc' = proc /\ faults' = faults
  BY <1>3, ZenonT(30) DEF SkipBlocked, SkipUnmet, Launch
<1>4. ASSUME NEW n \in Nodes, NodeReturns(r, n)
      PROVE  status' = status /\ proc' = proc /\ faults' = faults
  BY <1>4, ZenonT(30) DEF NodeReturns, NodeSucceeds, NodeFails
<1> QED
  BY <1>1, <1>2, <1>3, <1>4

\* The first two parts of the invariant: who serves, and what outlives whom.
LEMMA ServingStep ==
  ASSUME MaxAlive = 1, TypeOK, HonestInv, ExecutorInv, [Next]_vars
  PROVE  /\ \A p, q \in Processes : proc'[p] = "alive" /\ proc'[q] = "alive" => p = q
         /\ StoreMode = "memory" /\ ~Serving' => status' = "lost"
<1>a. \A p, q \in Processes : proc[p] = "alive" /\ proc[q] = "alive" => p = q
  BY DEF ExecutorInv
<1>b. StoreMode = "memory" /\ ~Serving => status = "lost"
  BY DEF ExecutorInv
<1>1. ASSUME NEW x \in Processes, Boot(x)
      PROVE  /\ \A p \in Processes : proc'[p] = "alive" <=> p = x
             /\ Serving'
  <2> DEFINE Up == {q \in Processes : proc[q] = "alive"}
  <2>1. ASSUME NEW q \in Processes, proc[q] = "alive" PROVE FALSE
    <3>1. Up = {q}
      BY <1>a, <2>1
    <3>2. Cardinality(Up) = 1
      BY <3>1, FS_Singleton
    <3> QED
      BY <1>1, <3>2 DEF Boot
  <2> QED
    BY <1>1, <2>1 DEF Boot, TypeOK, Serving
<1>2. ASSUME NEW x \in Processes, Kill(x)
      PROVE  /\ \A p \in Processes : proc'[p] # "alive"
             /\ StoreMode = "memory" => status' = "lost"
  BY <1>a, <1>2 DEF Kill, TypeOK
<1>3. CASE proc' = proc /\ (StoreMode = "memory" /\ status = "lost" => status' = "lost")
  BY <1>a, <1>b, <1>3 DEF Serving
<1>4. ASSUME NEW to, NEW ok, WriteStatus(to, ok)
      PROVE  StoreMode = "memory" /\ status = "lost" => status' = "lost"
  BY <1>4 DEF WriteStatus, Accepts, ValidTransitions
<1>5. CASE \/ Pause \/ Resume \/ Cancel \/ UNCHANGED vars
           \/ \E x \in Processes : Stop(x)
  BY <1>3, <1>4, <1>5 DEF Pause, Resume, Cancel, Stop, vars
<1>6. ASSUME NEW r \in Runs,
             \/ \E x \in Processes : Execute(x, r)
             \/ MarkRunning(r) \/ Release(r) \/ DropEntry(r) \/ Finalize(r) \/ Announce(r)
      PROVE  proc' = proc /\ (StoreMode = "memory" /\ status = "lost" => status' = "lost")
  <2>1. CASE (\E x \in Processes : Execute(x, r)) \/ Release(r) \/ DropEntry(r) \/ Announce(r)
    BY <2>1, ZenonT(30) DEF Execute, Release, DropEntry, Announce
  <2>2. CASE MarkRunning(r)
    BY <1>4, <2>2, ZenonT(30) DEF MarkRunning
  <2>3. CASE Finalize(r)
    BY <1>4, <2>3, ZenonT(30) DEF Finalize
  <2> QED
    BY <1>6, <2>1, <2>2, <2>3
<1>7. ASSUME NEW r \in Runs,
             \/ LoadGraph(r) \/ BeginRound(r) \/ LeaveLoop(r) \/ Settle(r)
             \/ \E n \in Nodes :
                  SkipBlocked(r, n) \/ SkipUnmet(r, n) \/ Launch(r, n) \/ NodeReturns(r, n)
      PROVE  proc' = proc /\ status' = status
  BY <1>7, RoundFrame
<1>8. ASSUME NEW r \in Runs, LoadFails(r) PROVE proc' = proc /\ StoreMode # "memory"
  BY <1>8, DeploymentAssumption DEF LoadFails, HonestInv, TypeOK
<1>9. ASSUME \E x \in Processes : Boot(x)
      PROVE  /\ \A p, q \in Processes : proc'[p] = "alive" /\ proc'[q] = "alive" => p = q
             /\ Serving'
  BY <1>1, <1>9
<1>10. ASSUME \E x \in Processes : Kill(x)
       PROVE  /\ \A p, q \in Processes : proc'[p] = "alive" /\ proc'[q] = "alive" => p = q
              /\ StoreMode = "memory" => status' = "lost"
  BY <1>2, <1>10
<1> QED
  BY <1>3, <1>5, <1>6, <1>7, <1>8, <1>9, <1>10 DEF Next, EngineStep, RoundStep

\* A round keeps its execution among those that vouch for the workflow.
LEMMA RoundKeepsExecuting ==
  ASSUME TypeOK, NEW r \in Runs,
         \/ LoadGraph(r) \/ BeginRound(r) \/ LeaveLoop(r) \/ Settle(r)
         \/ \E n \in Nodes :
              SkipBlocked(r, n) \/ SkipUnmet(r, n) \/ Launch(r, n) \/ NodeReturns(r, n)
  PROVE  run'[r].pc \in Executing
<1> DEFINE s == run[r]
           t == run'[r]
<1>1. RoundMove(s, t)
  BY RoundEffect
<1>2. Loads(s, t) \/ Begins(s, t) \/ Settles(s, t) \/ Leaves(s, t) => t.pc \in Executing
  BY DEF Loads, Begins, Settles, Leaves, Executing, Scheduling
<1>3. \A n \in Nodes : Skips(s, t, n) \/ Launches(s, t, n) => t.pc \in Executing
  BY DEF Skips, Launches, Visits, Visiting, Executing, Scheduling
<1>4. \A n \in Nodes : Succeeds(s, t, n) \/ Fails(s, t, n) => t.pc \in Executing
  BY DEF Succeeds, Fails, Returns, Visiting, Executing, Scheduling
<1> QED
  BY <1>1, <1>2, <1>3, <1>4 DEF RoundMove

\* The last part: no step takes the last execution from a running workflow.
LEMMA ExecutorStep ==
  ASSUME MaxAlive = 1, "resume" \notin Interventions,
         TypeOK, OutcomeDecided, HonestInv, HonestInv', ExecutorInv, [Next]_vars
  PROVE  ExecutorInv'
<1>f. faults \in Nat /\ MaxFaults \in Nat /\ faults <= MaxFaults
  BY DeploymentAssumption DEF TypeOK, HonestInv
<1> SUFFICES ASSUME NoCallFailed', Serving', status' = "running"
             PROVE  \E r \in Runs : run'[r].pc \in Executing
  <2>1. NoCallFailed' /\ Serving' /\ status' = "running" =>
          \E r \in Runs : run'[r].pc \in Executing
    OBVIOUS
  <2> QED
    BY <2>1, ServingStep DEF ExecutorInv, Serving, NoCallFailed
<1>g. faults' = MaxFaults
  BY DEF NoCallFailed
<1>w. ASSUME NEW to, NEW ok, WriteStatus(to, ok)
      PROVE  /\ faults = MaxFaults
             /\ ok => status' = to
             /\ ~ok => status' = status /\ ~Accepts(StoreMode, status, to)
  BY <1>f, <1>g, <1>w DEF WriteStatus
<1>k. ASSUME faults = MaxFaults, Serving, status = "running"
      PROVE  \E r \in Runs : run[r].pc \in Executing
  BY <1>k DEF ExecutorInv, NoCallFailed
<1>1. ASSUME NEW x \in Processes, Kill(x) PROVE FALSE
  BY <1>1 DEF Kill, ExecutorInv, Serving, TypeOK
<1>2. ASSUME NEW x \in Processes, Boot(x) PROVE FALSE
  <2>1. ~Serving
    <3> DEFINE Up == {q \in Processes : proc[q] = "alive"}
    <3> SUFFICES ASSUME NEW q \in Processes, proc[q] = "alive" PROVE FALSE
      BY DEF Serving
    <3>1. Up = {q}
      BY DEF ExecutorInv
    <3>2. Cardinality(Up) = 1
      BY <3>1, FS_Singleton
    <3> QED
      BY <1>2, <3>2 DEF Boot
  <2>2. status' = Reconciled(StoreMode, status)
    BY <1>2, <1>f, <1>g DEF Boot
  <2>3. StoreMode = "memory" => status = "lost"
    BY <2>1 DEF ExecutorInv
  <2>4. status' # "running"
    BY <2>2, <2>3, DeploymentAssumption DEF Reconciled, StoreModes
  <2> QED
    BY <2>4
<1>3. CASE UNCHANGED vars
  BY <1>3, <1>g, <1>k DEF vars, Serving
<1>4. CASE Pause \/ Resume \/ Cancel
  <2>1. ASSUME NEW to, WriteStatus(to, TRUE) PROVE to = "running"
    BY <1>w, <2>1
  <2> QED
    BY <1>4, <2>1 DEF Pause, Resume, Cancel
<1>5. ASSUME NEW x \in Processes, Stop(x)
      PROVE  \E r \in Runs : run'[r].pc \in Executing
  <2>1. /\ owner[x] \in Runs /\ faults = MaxFaults /\ status = "running" /\ Serving
        /\ run' = [run EXCEPT ![owner[x]] = [run[owner[x]] EXCEPT !.cancelled = TRUE]]
    BY <1>5, <1>w DEF Stop, Becomes, TypeOK, Serving
  <2>2. \A r \in Runs : run'[r].pc = run[r].pc
    BY <2>1 DEF TypeOK, RunState
  <2> QED
    BY <1>k, <2>1, <2>2
<1>6. ASSUME NEW r \in Runs, MarkRunning(r)
      PROVE  \E q \in Runs : run'[q].pc \in Executing
  <2>1. PICK ok \in BOOLEAN :
          /\ WriteStatus("running", ok)
          /\ Becomes(r, [run[r] EXCEPT !.pc = IF ok THEN "spawned" ELSE "releasing"])
    BY <1>6 DEF MarkRunning
  <2>2. run[r] \in RunState /\ run[r].pc = "claimed" /\ proc' = proc
    BY <1>6 DEF MarkRunning, TypeOK
  <2>3. CASE ok
    BY <2>1, <2>2, <2>3 DEF Becomes, TypeOK, RunState, Executing, Scheduling
  <2>4. CASE ~ok
    <3>1. PICK q \in Runs : run[q].pc \in Executing
      BY <1>k, <1>w, <2>1, <2>2, <2>4 DEF Serving
    <3>2. q # r
      BY <2>2, <3>1 DEF Executing, Scheduling
    <3>3. run'[q] = run[q]
      BY <2>1, <3>2 DEF Becomes, TypeOK
    <3> QED
      BY <3>1, <3>3
  <2> QED
    BY <2>3, <2>4
<1>7. ASSUME NEW r \in Runs, LoadFails(r) PROVE FALSE
  BY <1>7, <1>f, <1>g DEF LoadFails
<1>8. ASSUME NEW r \in Runs, Finalize(r) PROVE FALSE
  <2>1. PICK ok \in BOOLEAN : WriteStatus(run[r].outcome, ok)
    BY <1>8 DEF Finalize
  <2>2. run[r] \in RunState /\ run[r].outcome \in Terminal
    BY <1>8 DEF Finalize, TypeOK, RunState, OutcomeDecided, Leaving
  <2>3. ok => FALSE
    BY <1>w, <2>1, <2>2 DEF Terminal
  <2>4. ASSUME ~ok PROVE FALSE
    <3>1. status = "running" /\ ~Accepts(StoreMode, status, run[r].outcome)
      BY <1>w, <2>1, <2>4
    <3>2. Accepts(StoreMode, "running", run[r].outcome)
      BY <2>2, DeploymentAssumption DEF Terminal, Accepts, ValidTransitions, StoreModes
    <3> QED
      BY <3>1, <3>2
  <2> QED
    BY <2>3, <2>4
<1>9. ASSUME NEW r \in Runs,
             \/ \E x \in Processes : Execute(x, r)
             \/ Release(r) \/ DropEntry(r) \/ Announce(r)
      PROVE  \E q \in Runs : run'[q].pc \in Executing
  <2>1. status' = status /\ proc' = proc /\ faults' = faults
    BY <1>9, ZenonT(30) DEF Execute, Release, DropEntry, Announce
  <2>2. PICK q \in Runs : run[q].pc \in Executing
    BY <1>g, <1>k, <2>1 DEF Serving
  <2>3. ASSUME NEW x \in Processes, Execute(x, r) PROVE run'[q] = run[q]
    BY <2>2, <2>3 DEF TypeOK, Execute, Becomes, Executing, Scheduling
  <2>4. CASE Release(r) \/ Announce(r)
    BY <2>2, <2>4 DEF TypeOK, Release, Announce, Becomes, Executing, Scheduling
  <2>5. CASE DropEntry(r)
    <3>1. run[r] \in RunState /\ run' = [run EXCEPT ![r] = [run[r] EXCEPT !.pc = "finalizing"]]
      BY <2>5 DEF TypeOK, DropEntry, Becomes
    <3>2. run'[r].pc = "finalizing"
      BY <3>1 DEF TypeOK, RunState
    <3> QED
      BY <3>2 DEF Executing
  <2> QED
    BY <1>9, <2>2, <2>3, <2>4, <2>5
<1>10. ASSUME NEW r \in Runs,
              \/ LoadGraph(r) \/ BeginRound(r) \/ LeaveLoop(r) \/ Settle(r)
              \/ \E n \in Nodes :
                   SkipBlocked(r, n) \/ SkipUnmet(r, n) \/ Launch(r, n) \/ NodeReturns(r, n)
       PROVE  \E q \in Runs : run'[q].pc \in Executing
  BY <1>10, RoundKeepsExecuting
<1> QED
  BY <1>1, <1>2, <1>3, <1>4, <1>5, <1>6, <1>7, <1>8, <1>9, <1>10 DEF Next, EngineStep, RoundStep

\* With one process at a time and no resume, a workflow said to be running has
\* an execution, whatever crashes and whatever operators pause, cancel or stop.
THEOREM RunningAlwaysHasExecutor ==
  ASSUME MaxAlive = 1, "resume" \notin Interventions
  PROVE  Spec => []RunningHasExecutor
<1>1. Init => ExecutorInv
  <2> SUFFICES ASSUME Init PROVE ExecutorInv
    OBVIOUS
  <2>1. PICK p \in Processes : proc = [q \in Processes |-> IF q = p THEN "alive" ELSE "new"]
    BY DEF Init
  <2> QED
    BY <2>1 DEF Init, ExecutorInv, Serving
<1>2. ExecutorInv /\ Inv /\ HonestInv /\ HonestInv' /\ [Next]_vars => ExecutorInv'
  BY ExecutorStep DEF Inv
<1>3. ExecutorInv => RunningHasExecutor
  BY DEF ExecutorInv, RunningHasExecutor, Executing, Live, Leaving
<1> QED
  BY <1>1, <1>2, <1>3, HonestInvariant, EngineInvariant, PTL DEF Spec
=============================================================================
