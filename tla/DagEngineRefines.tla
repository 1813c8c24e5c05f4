-------------------------- MODULE DagEngineRefines --------------------------
(***************************************************************************)
(* An execution as a whole: on every acyclic graph it implements GraphRun, *)
(* and on every graph it takes no more steps than the graph and its retry  *)
(* policy allow.                                                           *)
(***************************************************************************)
EXTENDS DagEngineProofs

LEMMA ErrorsInvariant == Spec => []ErrorsInv
<1>1. Init => ErrorsInv
  BY DEF Init, ErrorsInv, ErrorsFresh, NewRun, Visiting
<1>2. ErrorsInv /\ Inv /\ [Next]_vars => ErrorsInv'
  <2> SUFFICES ASSUME ErrorsInv, Inv, [Next]_vars, NEW q \in Runs
               PROVE  ErrorsFresh(run'[q])
    BY DEF ErrorsInv
  <2> DEFINE s == run[q]
             t == run'[q]
  <2>1. WorkShape(s) /\ CompletedStay(s) /\ SkippedStay(s) /\ ErrorsFresh(s)
    BY DEF ErrorsInv, Inv, RoundsInv, RunSound
  <2>2. Moves(s, t) \/ RoundMove(s, t)
    BY StepEffect DEF Inv
  <2> HIDE DEF s, t
  <2> USE DEF ErrorsFresh, Visiting
  <2>3. CASE Moves(s, t)
    BY <2>1, <2>3 DEF Moves, SameMaps, BeforeLoop, AfterLoop, Leaving, t
  <2>4. CASE Loads(s, t) \/ Begins(s, t) \/ Settles(s, t) \/ Leaves(s, t)
    BY <2>4 DEF Loads, Begins, Settles, Leaves, t
  <2>5. ASSUME NEW n \in Nodes,
               Skips(s, t, n) \/ Launches(s, t, n) \/ Succeeds(s, t, n) \/ Fails(s, t, n)
        PROVE  ErrorsFresh(t)
    BY <2>1, <2>5
    DEF Skips, Launches, Succeeds, Fails, Visits, Returns, WorkShape, CompletedStay,
        SkippedStay, Pending
  <2> QED
    BY <2>2, <2>3, <2>4, <2>5 DEF RoundMove, t
<1> QED
  BY <1>1, <1>2, EngineInvariant, PTL DEF Spec

-----------------------------------------------------------------------------
(* Each step of a goroutine, seen through PhaseOf. *)

Step(s, t, n) ==
  Skips(s, t, n) \/ Launches(s, t, n) \/ Succeeds(s, t, n) \/ Fails(s, t, n)

LEMMA QuietPhases ==
  ASSUME NEW s, NEW t,
         Moves(s, t) \/ Loads(s, t) \/ Begins(s, t) \/ Settles(s, t) \/ Leaves(s, t),
         WorkShape(s)
  PROVE  PhaseOf(t) = PhaseOf(s) /\ t.starts = s.starts
BY DEF Moves, Loads, Begins, Settles, Leaves, SameMaps, PhaseOf, WorkShape

LEMMA OtherPhases ==
  ASSUME NEW s, NEW t, NEW n \in Nodes, Step(s, t, n)
  PROVE  \A m \in Nodes \ {n} : PhaseOf(t)[m] = PhaseOf(s)[m]
BY DEF Step, Skips, Launches, Succeeds, Fails, Visits, Returns, PhaseOf

LEMMA OnePhase ==
  ASSUME NEW s, NEW t, NEW n \in Nodes, NEW p, Step(s, t, n), PhaseOf(t)[n] = p
  PROVE  PhaseOf(t) = [PhaseOf(s) EXCEPT ![n] = p]
<1>1. \A m \in Nodes \ {n} : PhaseOf(t)[m] = PhaseOf(s)[m]
  BY OtherPhases
<1> DEFINE f == PhaseOf(s)
           g == PhaseOf(t)
<1>2. /\ f = [m \in Nodes |-> f[m]] /\ DOMAIN f = Nodes
      /\ g = [m \in Nodes |-> g[m]] /\ DOMAIN g = Nodes
  BY DEF PhaseOf
<1>3. \A m \in Nodes : g[m] = [f EXCEPT ![n] = p][m]
  BY <1>1, <1>2
<1> QED
  BY <1>2, <1>3

LEMMA SkipsRefine ==
  ASSUME NEW r \in Runs, NEW n \in Nodes, Inv, Skips(run[r], run'[r], n)
  PROVE  [GR(r)!Next]_(GR(r)!view)
<1> DEFINE s == run[r]
           t == run'[r]
<1>1. /\ WorkShape(s) /\ ListedNodesReady(s) /\ CompletedStay(s)
  BY DEF Inv, RoundsInv, RunSound
<1>2. CASE n \in s.skipped
  <2>1. t.skipped = s.skipped /\ t.inflight = s.inflight /\ t.completed = s.completed
        /\ t.failed = s.failed /\ t.starts = s.starts /\ t.outcome = s.outcome
    BY <1>2 DEF Skips, Visits
  <2> QED
    BY <2>1 DEF GR!view, PhaseOf
<1>3. CASE n \notin s.skipped
  <2>1. s.outcome = "none" /\ t.outcome = s.outcome /\ t.starts = s.starts
    BY <1>1 DEF WorkShape, Skips, Visits, Scheduling
  <2>2. PhaseOf(s)[n] \in {"waiting", "failed"}
    BY <1>1, <1>3 DEF PhaseOf, Skips, Visits, WorkShape, CompletedStay, Pending
  <2>3. \A m \in Nodes : <<m, n>> \in Edges => PhaseOf(s)[m] # "waiting"
    BY <1>1 DEF PhaseOf, ListedNodesReady, Preds, Pending, Decided, Skips, Visits
  <2>4. PhaseOf(t)[n] = "skipped"
    BY <1>1 DEF PhaseOf, Skips, Visits, WorkShape, CompletedStay, Pending
  <2>5. PhaseOf(t) = [PhaseOf(s) EXCEPT ![n] = "skipped"]
    BY <2>4, OnePhase DEF Step
  <2> QED
    BY <2>1, <2>2, <2>3, <2>5 DEF GR!Skip, GR!Next, GR!Before
<1> QED
  BY <1>2, <1>3

LEMMA LaunchesRefine ==
  ASSUME NEW r \in Runs, NEW n \in Nodes, Inv, Launches(run[r], run'[r], n)
  PROVE  [GR(r)!Next]_(GR(r)!view)
<1> DEFINE s == run[r]
           t == run'[r]
<1>1. /\ WorkShape(s) /\ ListedNodesReady(s) /\ CompletedStay(s) /\ SkippedStay(s)
      /\ StartsCounted(s)
      /\ s \in RunState
  BY DEF Inv, RoundsInv, RunSound, TypeOK
<1>2. s.outcome = "none" /\ t.outcome = s.outcome
  BY <1>1 DEF WorkShape, Launches, Visits, Scheduling
<1>3. PhaseOf(s)[n] \in {"waiting", "failed"}
  BY <1>1 DEF PhaseOf, Launches, Visits, WorkShape, CompletedStay, SkippedStay, Pending
<1>4. \A m \in Nodes : <<m, n>> \in Edges => PhaseOf(s)[m] = "succeeded"
  BY <1>1 DEF PhaseOf, ListedNodesReady, Preds, Pending, Decided, Launches, Visits, CompletedStay
<1>5. s.starts[n] <= MaxAttempts[n] /\ t.starts = [s.starts EXCEPT ![n] = @ + 1]
  <2>1. s.starts[n] <= s.retries[n] /\ s.retries[n] <= MaxAttempts[n]
    BY <1>1 DEF StartsCounted, Launches, Visits
  <2>2. s.starts[n] \in Nat /\ s.retries[n] \in Nat /\ MaxAttempts[n] \in Nat
    BY <1>1, GraphAssumption DEF RunState
  <2> QED
    BY <2>1, <2>2 DEF Launches
<1>6. PhaseOf(t) = [PhaseOf(s) EXCEPT ![n] = "running"]
  <2>1. PhaseOf(t)[n] = "running"
    BY DEF PhaseOf, Launches
  <2> QED
    BY <2>1, OnePhase DEF Step
<1> QED
  BY <1>2, <1>3, <1>4, <1>5, <1>6 DEF GR!Start, GR!Next, GR!Before

LEMMA ReturnsRefine ==
  ASSUME NEW r \in Runs, NEW n \in Nodes, Inv,
         Succeeds(run[r], run'[r], n) \/ Fails(run[r], run'[r], n)
  PROVE  [GR(r)!Next]_(GR(r)!view)
<1> DEFINE s == run[r]
           t == run'[r]
<1>1. WorkShape(s) /\ CompletedStay(s) /\ SkippedStay(s)
  BY DEF Inv, RoundsInv, RunSound
<1>2. s.outcome = "none" /\ t.outcome = s.outcome /\ t.starts = s.starts
  BY <1>1 DEF WorkShape, Succeeds, Fails, Returns, Visiting, Scheduling
<1>3. PhaseOf(s)[n] = "running"
  BY DEF PhaseOf, Succeeds, Fails, Returns
<1>4. \E p \in {"succeeded", "failed"} : PhaseOf(t)[n] = p
  BY <1>1 DEF PhaseOf, Succeeds, Fails, Returns, CompletedStay, SkippedStay, Pending
<1>5. \E p \in {"succeeded", "failed"} : PhaseOf(t) = [PhaseOf(s) EXCEPT ![n] = p]
  BY <1>4, OnePhase DEF Step
<1> QED
  BY <1>2, <1>3, <1>5 DEF GR!End, GR!Next

LEMMA LeavesRefine ==
  ASSUME NEW r \in Runs, Acyclic, Inv, CoverageInv', Inv', ErrorsInv, Leaves(run[r], run'[r])
  PROVE  [GR(r)!Next]_(GR(r)!view)
<1> DEFINE s == run[r]
           t == run'[r]
<1>1. WorkShape(s) /\ ErrorsFresh(s) /\ s \in RunState /\ t \in RunState
      /\ NothingForgotten(t)
  BY DEF Inv, RoundsInv, RunSound, ErrorsInv, CoverageInv, TypeOK
<1>2. s.inflight = {} /\ s.outcome = "none" /\ SameMaps(s, t)
  BY <1>1 DEF WorkShape, Leaves, Scheduling
<1>3. PhaseOf(t) = PhaseOf(s) /\ t.starts = s.starts
  BY <1>1, QuietPhases
<1>4. \A n \in Nodes : PhaseOf(s)[n] # "running"
  BY <1>2 DEF PhaseOf
<1>5. t.outcome = "completed" => \A n \in Nodes : PhaseOf(s)[n] # "waiting"
  <2> SUFFICES ASSUME t.outcome = "completed" PROVE Decided(t) = Nodes
    BY <1>2 DEF PhaseOf, Decided, SameMaps
  <2> DEFINE U == Nodes \ Decided(t)
  <2>1. \A n \in U : Preds(n) \cap U # {}
    BY <1>1 DEF NothingForgotten, Preds
  <2>2. U = {}
    BY <2>1 DEF Acyclic
  <2> QED
    BY <1>1, <2>2 DEF Decided, RunState
<1>6. t.outcome = "failed" => \E n \in Nodes : PhaseOf(s)[n] = "failed"
  <2> SUFFICES ASSUME t.outcome = "failed" PROVE \E n \in Nodes : PhaseOf(s)[n] = "failed"
    OBVIOUS
  <2>1. PICK n \in Nodes : n \in s.errs
    BY <1>1 DEF Leaves, RunState
  <2>2. PhaseOf(s)[n] = "failed"
    BY <1>1, <2>1 DEF PhaseOf, Leaves, ErrorsFresh, Visiting
  <2> QED
    BY <2>2
<1>7. t.outcome \in {"completed", "failed", "cancelled"}
  BY DEF Leaves, Terminal
<1> QED
  BY <1>2, <1>3, <1>4, <1>5, <1>6, <1>7 DEF GR!Close, GR!Next

\* On an acyclic graph the engine's rounds, maps and goroutines implement
\* GraphRun: nodes start, end and are given up only as it allows.
THEOREM EngineImplementsGraphRun ==
  ASSUME Acyclic
  PROVE  Spec => ImplementsGraphRun
<1>1. Init => \A r \in Runs : GR(r)!Init
  BY DEF Init, NewRun, PhaseOf, GR!Init
<1>2. ASSUME Inv, Inv', CoverageInv', ErrorsInv, [Next]_vars
      PROVE  \A r \in Runs : [GR(r)!Next]_(GR(r)!view)
  <2> SUFFICES ASSUME NEW r \in Runs PROVE [GR(r)!Next]_(GR(r)!view)
    OBVIOUS
  <2>1. Moves(run[r], run'[r]) \/ RoundMove(run[r], run'[r])
    BY <1>2, StepEffect DEF Inv
  <2>2. WorkShape(run[r])
    BY <1>2 DEF Inv, RoundsInv, RunSound
  <2>3. CASE Moves(run[r], run'[r])
    BY <2>2, <2>3, QuietPhases DEF GR!view, Moves
  <2>4. CASE Loads(run[r], run'[r]) \/ Begins(run[r], run'[r]) \/ Settles(run[r], run'[r])
    BY <2>2, <2>4, QuietPhases DEF GR!view, Loads, Begins, Settles
  <2>5. CASE Leaves(run[r], run'[r])
    BY <1>2, <2>5, LeavesRefine
  <2> QED
    BY <1>2, <2>1, <2>3, <2>4, <2>5, SkipsRefine, LaunchesRefine, ReturnsRefine DEF RoundMove
<1> QED
  BY <1>1, <1>2, EngineInvariant, CoverageInvariant, ErrorsInvariant, PTL DEF Spec, ImplementsGraphRun

-----------------------------------------------------------------------------
(* Every execution comes nearer to its end with each step it takes, on every *)
(* graph.                                                                    *)

\* A node all of whose predecessors rounds can reach is one itself.
LEMMA GroundedIfPreds ==
  ASSUME NEW n \in Nodes, Preds(n) \subseteq Grounded
  PROVE  n \in Grounded
<1> SUFFICES ASSUME NEW S \in SUBSET Nodes, n \in S
             PROVE  \E m \in S : Preds(m) \cap S = {}
  BY DEF Grounded
<1>1. CASE Preds(n) \cap S = {}
  BY <1>1
<1>2. CASE Preds(n) \cap S # {}
  BY <1>2 DEF Grounded
<1> QED
  BY <1>1, <1>2

\* And the other way round.
LEMMA PredsGrounded ==
  ASSUME NEW n \in Grounded
  PROVE  Preds(n) \subseteq Grounded
<1> SUFFICES ASSUME NEW m \in Preds(n), NEW S \in SUBSET Nodes, m \in S
             PROVE  \E x \in S : Preds(x) \cap S = {}
  BY DEF Grounded, Preds
<1>1. S \cup {n} \in SUBSET Nodes /\ n \in Nodes
  BY DEF Grounded
<1>2. PICK x \in S \cup {n} : Preds(x) \cap (S \cup {n}) = {}
  BY <1>1 DEF Grounded
<1>3. x \in S
  BY <1>2
<1> QED
  BY <1>2, <1>3

\* What is downstream of X is the least set that contains X and is closed.
LEMMA DownstreamLeast ==
  ASSUME NEW X \in SUBSET Nodes
  PROVE  /\ X \subseteq Downstream(X) /\ Downstream(X) \subseteq Nodes
         /\ \A m \in Downstream(X) : Succs(m) \subseteq Downstream(X)
         /\ \A S \in SUBSET Nodes :
              X \subseteq S /\ (\A m \in S : Succs(m) \subseteq S) => Downstream(X) \subseteq S
<1>1. \A m \in Downstream(X) : Succs(m) \subseteq Downstream(X)
  BY DEF Downstream, Succs
<1> QED
  BY <1>1 DEF Downstream

\* A round that launches nothing is followed by a round over less.
LEMMA AreaShrinks ==
  ASSUME NEW B \in SUBSET Grounded, B # {}, NEW X \in SUBSET Nodes,
         \A x \in X : Preds(x) \cap B # {}
  PROVE  /\ Downstream(X) \cap Grounded \subseteq Downstream(B) \cap Grounded
         /\ Downstream(X) \cap Grounded # Downstream(B) \cap Grounded
<1> DEFINE D == Downstream(B) \cap Grounded
<1>1. B \subseteq Nodes /\ Grounded \subseteq Nodes
  BY DEF Grounded
<1>2. /\ B \subseteq Downstream(B) /\ Downstream(B) \subseteq Nodes
      /\ \A m \in Downstream(B) : Succs(m) \subseteq Downstream(B)
  BY <1>1, DownstreamLeast
<1>3. PICK m \in D : Preds(m) \cap D = {}
  <2>1. PICK n \in D : TRUE
    BY <1>2
  <2>2. D \in SUBSET Nodes /\ n \in Grounded
    BY <1>2
  <2> HIDE DEF D
  <2> QED
    BY <2>1, <2>2 DEF Grounded
<1>4. Preds(m) \cap Downstream(B) = {}
  BY <1>3, PredsGrounded
<1> DEFINE E == Downstream(B) \ {m}
<1>5. \A x \in E : Succs(x) \subseteq E
  <2> SUFFICES ASSUME NEW x \in E, NEW y \in Succs(x) PROVE y \in E
    OBVIOUS
  <2>1. y \in Downstream(B)
    BY <1>2
  <2>2. x \in Preds(y)
    BY <1>2 DEF Succs, Preds
  <2> QED
    BY <1>4, <2>1, <2>2
<1>6. X \subseteq E
  <2> SUFFICES ASSUME NEW x \in X PROVE x \in E
    OBVIOUS
  <2>1. PICK y \in B : y \in Preds(x)
    OBVIOUS
  <2>2. x \in Succs(y) /\ y \in Downstream(B)
    BY <1>2, <2>1 DEF Preds, Succs
  <2> QED
    BY <1>2, <1>4, <2>1, <2>2
<1>7. Downstream(X) \subseteq E
  <2>1. E \in SUBSET Nodes
    BY <1>2
  <2> HIDE DEF E
  <2> QED
    BY <1>5, <1>6, <2>1, DownstreamLeast
<1> QED
  BY <1>3, <1>7

\* A round is followed by one over nothing else.
LEMMA AreaKept ==
  ASSUME NEW B \in SUBSET Nodes, NEW X \in SUBSET Nodes,
         \A x \in X : x \in B \/ Preds(x) \cap B # {}
  PROVE  Downstream(X) \subseteq Downstream(B)
<1>1. /\ B \subseteq Downstream(B) /\ Downstream(B) \subseteq Nodes
      /\ \A m \in Downstream(B) : Succs(m) \subseteq Downstream(B)
  BY DownstreamLeast
<1>2. X \subseteq Downstream(B)
  BY <1>1 DEF Preds, Succs
<1> QED
  BY <1>1, <1>2, DownstreamLeast

-----------------------------------------------------------------------------
(* The rounds only reach grounded nodes. *)

LEMMA GroundedStep ==
  ASSUME NEW s \in RunState, NEW t \in RunState, RunSound(s), RoundGrounded(s),
         Moves(s, t) \/ RoundMove(s, t)
  PROVE  RoundGrounded(t)
<1> USE DEF RoundGrounded, Pending, Decided, Visiting
<1>1. CASE Moves(s, t)
  BY <1>1 DEF Moves, SameMaps, BeforeLoop, AfterLoop, Leaving
<1>2. CASE Loads(s, t)
  <2>1. Roots \subseteq Grounded
    BY GroundedIfPreds DEF Roots
  <2> QED
    BY <1>2, <2>1 DEF Loads, SameMaps
<1>3. CASE Leaves(s, t)
  BY <1>3 DEF Leaves, SameMaps
<1>4. CASE Settles(s, t)
  <2>1. \A n \in Nodes : Preds(n) \subseteq Decided(s) => n \in Grounded
    BY GroundedIfPreds
  <2> QED
    BY <1>4, <2>1 DEF Settles, SameMaps, Collected
<1>6. CASE Begins(s, t)
  BY <1>6 DEF Begins, SameMaps
<1>5. ASSUME NEW n \in Nodes,
             Skips(s, t, n) \/ Launches(s, t, n) \/ Succeeds(s, t, n) \/ Fails(s, t, n)
      PROVE  RoundGrounded(t)
  BY <1>5 DEF Skips, Launches, Succeeds, Fails, Visits, Returns
<1> QED
  BY <1>1, <1>2, <1>3, <1>4, <1>5, <1>6 DEF RoundMove

LEMMA GroundedInvariant == Spec => []GroundedInv
<1>1. Init => GroundedInv
  BY DEF Init, GroundedInv, RoundGrounded, NewRun, Pending, Decided, Visiting
<1>2. GroundedInv /\ Inv /\ TypeOK' /\ [Next]_vars => GroundedInv'
  <2> SUFFICES ASSUME GroundedInv, Inv, TypeOK', [Next]_vars, NEW q \in Runs
               PROVE  RoundGrounded(run'[q])
    BY DEF GroundedInv
  <2>1. run[q] \in RunState /\ run'[q] \in RunState /\ RunSound(run[q]) /\ RoundGrounded(run[q])
    BY DEF Inv, TypeOK, RoundsInv, GroundedInv
  <2>2. Moves(run[q], run'[q]) \/ RoundMove(run[q], run'[q])
    BY StepEffect DEF Inv
  <2> QED
    BY <2>1, <2>2, GroundedStep
<1> QED
  BY <1>1, <1>2, EngineInvariant, TypeCorrect, PTL DEF Spec

-----------------------------------------------------------------------------
(* The measure. *)

LEMMA Digits ==
  ASSUME NEW p \in Nat, NEW q \in Nat, NEW w \in Nat, NEW i \in Nat, NEW j \in Nat,
         q < p, i < w
  PROVE  q * w + i < p * w + j
<1> DEFINE d == p - q - 1
<1>1. d \in Nat /\ p = q + 1 + d
  OBVIOUS
<1>2. d * w \in Nat /\ q * w \in Nat
  BY <1>1
<1>3. (q + 1 + d) * w = q * w + w + d * w
  BY <1>1
<1> HIDE DEF d
<1> QED
  BY <1>1, <1>2, <1>3

LEMMA StrictlyFewer ==
  ASSUME NEW S, NEW T, IsFiniteSet(S), T \subseteq S, T # S
  PROVE  IsFiniteSet(T) /\ Cardinality(T) < Cardinality(S)
<1>1. /\ IsFiniteSet(T) /\ Cardinality(T) <= Cardinality(S)
      /\ Cardinality(T) # Cardinality(S)
  BY FS_Subset
<1> QED
  BY <1>1, FS_CardinalityType

LEMMA SizeTyped == Size \in Nat
BY GraphAssumption, FS_CardinalityType DEF Size

\* A set of nodes is counted by a number up to Size.
LEMMA NodesCounted ==
  ASSUME NEW X \in SUBSET Nodes
  PROVE  IsFiniteSet(X) /\ Cardinality(X) \in Nat /\ Cardinality(X) <= Size
BY GraphAssumption, FS_Subset, FS_CardinalityType DEF Size

LEMMA AttemptsFinite ==
  ASSUME NEW s, s.starts \in [Nodes -> Nat]
  PROVE  IsFiniteSet(AttemptsLeft(s)) /\ Cardinality(AttemptsLeft(s)) \in Nat
<1> DEFINE f == [n \in Nodes |-> {n} \X (s.starts[n] .. MaxAttempts[n])]
           F == {f[n] : n \in Nodes}
<1>1. f \in Surjection(Nodes, F)
  BY DEF Surjection
<1>2. IsFiniteSet(F)
  <2> HIDE DEF f, F
  <2> QED
    BY <1>1, GraphAssumption, FS_Surjection
<1>3. ASSUME NEW n \in Nodes PROVE IsFiniteSet(f[n])
  <2>1. IsFiniteSet({n}) /\ IsFiniteSet(s.starts[n] .. MaxAttempts[n])
    <3>1. s.starts[n] \in Int /\ MaxAttempts[n] \in Int
      BY GraphAssumption
    <3> QED
      BY <3>1, FS_Singleton, FS_Interval
  <2>2. IsFiniteSet({n} \X (s.starts[n] .. MaxAttempts[n]))
    BY <2>1, FS_Product
  <2> QED
    BY <2>2
<1>4. AttemptsLeft(s) = UNION F
  BY DEF AttemptsLeft
<1>5. IsFiniteSet(UNION F)
  <2>1. \A T \in F : IsFiniteSet(T)
    BY <1>3
  <2> HIDE DEF F
  <2> QED
    BY <1>2, <2>1, FS_UNION
<1> QED
  BY <1>4, <1>5, FS_CardinalityType

\* The numbers the measure is made of.
LEMMA PartsTyped ==
  ASSUME NEW s \in RunState
  PROVE  /\ IsFiniteSet(AttemptsLeft(s)) /\ Cardinality(AttemptsLeft(s)) \in Nat
         /\ IsFiniteSet(Area(s)) /\ Cardinality(Area(s)) \in Nat
         /\ Cardinality(Area(s)) <= Size
         /\ Turns(s) \in Nat /\ Turns(s) < Width
         /\ Width \in Nat /\ Size \in Nat
<1>1. s.starts \in [Nodes -> Nat] /\ s.todo \in SUBSET Nodes /\ s.inflight \in SUBSET Nodes
  BY DEF RunState
<1>2. Area(s) \in SUBSET Nodes
  BY DEF Area, Downstream
<1>3. Turns(s) \in Nat /\ Turns(s) < Width
  <2>1. /\ Cardinality(s.todo) \in Nat /\ Cardinality(s.todo) <= Size
        /\ Cardinality(s.inflight) \in Nat /\ Cardinality(s.inflight) <= Size
    BY <1>1, NodesCounted
  <2> QED
    BY <2>1, SizeTyped DEF Turns, Width
<1> QED
  BY <1>1, <1>2, <1>3, AttemptsFinite, NodesCounted, SizeTyped DEF Width

LEMMA Descends ==
  ASSUME NEW s \in RunState, NEW t \in RunState,
         \/ AttemptsLeft(t) \subseteq AttemptsLeft(s) /\ AttemptsLeft(t) # AttemptsLeft(s)
         \/ /\ AttemptsLeft(t) = AttemptsLeft(s)
            /\ Area(t) \subseteq Area(s) /\ Area(t) # Area(s)
         \/ /\ AttemptsLeft(t) = AttemptsLeft(s)
            /\ Area(t) \subseteq Area(s) /\ Turns(t) < Turns(s)
  PROVE  InRounds(t) < InRounds(s)
<1> DEFINE u == Cardinality(AttemptsLeft(s))
           v == Cardinality(AttemptsLeft(t))
           a == Cardinality(Area(s))
           b == Cardinality(Area(t))
           N == Size + 1
<1>1. /\ u \in Nat /\ v \in Nat /\ a \in Nat /\ b \in Nat /\ N \in Nat /\ a < N /\ b < N
      /\ Turns(s) \in Nat /\ Turns(t) \in Nat /\ Turns(t) < Width /\ Width \in Nat
  BY PartsTyped
<1>2. \/ v < u
      \/ v = u /\ b < a
      \/ v = u /\ b <= a /\ Turns(t) < Turns(s)
  <2>1. IsFiniteSet(AttemptsLeft(s)) /\ IsFiniteSet(Area(s))
    BY PartsTyped
  <2>2. Area(t) \subseteq Area(s) => b <= a
    BY <2>1, FS_Subset
  <2> QED
    BY <2>1, <2>2, StrictlyFewer
<1>3. InRounds(s) = (u * N + a) * Width + Turns(s) + 4
  BY DEF InRounds
<1>4. InRounds(t) = (v * N + b) * Width + Turns(t) + 4
  BY DEF InRounds
<1> HIDE DEF u, v, a, b, N
<1>5. u * N + a \in Nat /\ v * N + b \in Nat
  BY <1>1
<1>6. ASSUME v * N + b < u * N + a
      PROVE  (v * N + b) * Width + Turns(t) < (u * N + a) * Width + Turns(s)
  BY <1>1, <1>5, <1>6, Digits
<1>7. ASSUME v * N + b = u * N + a, Turns(t) < Turns(s)
      PROVE  (v * N + b) * Width + Turns(t) < (u * N + a) * Width + Turns(s)
  <2>1. (u * N + a) * Width \in Nat
    BY <1>1, <1>5
  <2> QED
    BY <1>1, <1>7, <2>1
<1>8. v < u => v * N + b < u * N + a
  BY <1>1, Digits
<1>9. v = u /\ b < a => v * N + b < u * N + a
  BY <1>1
<1>10. (v * N + b) * Width + Turns(t) < (u * N + a) * Width + Turns(s)
  BY <1>1, <1>2, <1>6, <1>7, <1>8, <1>9
<1>11. (u * N + a) * Width \in Nat /\ (v * N + b) * Width \in Nat
  BY <1>1, <1>5
<1> QED
  BY <1>1, <1>3, <1>4, <1>10, <1>11

\* The rounds stay below what an execution has before it begins them.
LEMMA RoundsBounded ==
  ASSUME NEW s \in RunState, s.starts = NewRun.starts
  PROVE  InRounds(s) < BeforeRounds
<1> DEFINE u == Cardinality(AttemptsLeft(s))
           a == Cardinality(Area(s))
           N == Size + 1
<1>1. AttemptsLeft(s) = AttemptsLeft(NewRun)
  BY DEF AttemptsLeft
<1>2. /\ u \in Nat /\ a \in Nat /\ N \in Nat /\ a < N
      /\ Turns(s) \in Nat /\ Turns(s) < Width /\ Width \in Nat
  BY PartsTyped
<1>3. InRounds(s) = (u * N + a) * Width + Turns(s) + 4 /\ BeforeRounds = (u + 1) * N * Width + 4
  BY <1>1 DEF InRounds, BeforeRounds
<1> HIDE DEF u, a, N
<1>4. u * N + a < (u + 1) * N
  <2>1. u * N + a < (u + 1) * N + 0
    BY <1>2, Digits
  <2> QED
    BY <1>2, <2>1
<1>5. u * N + a \in Nat /\ (u + 1) * N \in Nat
  BY <1>2
<1>6. (u * N + a) * Width + Turns(s) < ((u + 1) * N) * Width + 0
  BY <1>2, <1>4, <1>5, Digits
<1>7. (u * N + a) * Width \in Nat /\ ((u + 1) * N) * Width \in Nat
  BY <1>2, <1>5
<1> QED
  BY <1>2, <1>3, <1>6, <1>7

\* The measure at each step of an execution.
LEMMA RemainingAt ==
  ASSUME NEW s
  PROVE  /\ s.pc = "idle" => Remaining(s) = BeforeRounds + 2
         /\ s.pc = "claimed" => Remaining(s) = BeforeRounds + 1
         /\ s.pc = "spawned" => Remaining(s) = BeforeRounds
         /\ s.pc \in {"loop", "launching", "waiting"} => Remaining(s) = InRounds(s)
         /\ s.pc = "dropping" => Remaining(s) = 3
         /\ s.pc = "finalizing" => Remaining(s) = 2
         /\ s.pc \in {"announcing", "releasing"} => Remaining(s) = 1
         /\ s.pc \in {"done", "killed", "refused"} => Remaining(s) = 0
BY DEF Remaining, Visiting

LEMMA InRoundsTyped ==
  ASSUME NEW s \in RunState
  PROVE  InRounds(s) \in Nat /\ InRounds(s) >= 4
<1> DEFINE q == Cardinality(AttemptsLeft(s)) * (Size + 1) + Cardinality(Area(s))
<1>1. q \in Nat /\ Width \in Nat /\ Turns(s) \in Nat
  <2>1. Cardinality(AttemptsLeft(s)) * (Size + 1) \in Nat
    BY PartsTyped
  <2> QED
    BY <2>1, PartsTyped
<1>2. InRounds(s) = q * Width + Turns(s) + 4
  BY DEF InRounds
<1> HIDE DEF q
<1>3. q * Width \in Nat
  BY <1>1
<1> QED
  BY <1>1, <1>2, <1>3

LEMMA BeforeRoundsTyped == BeforeRounds \in Nat /\ BeforeRounds >= 4
<1> DEFINE u == Cardinality(AttemptsLeft(NewRun))
<1>1. u \in Nat /\ Size \in Nat /\ Width \in Nat
  <2>1. NewRun.starts \in [Nodes -> Nat]
    BY DEF NewRun
  <2> QED
    BY <2>1, AttemptsFinite, SizeTyped DEF Width
<1>2. BeforeRounds = (u + 1) * (Size + 1) * Width + 4
  BY DEF BeforeRounds
<1> HIDE DEF u
<1>3. (u + 1) * (Size + 1) \in Nat
  BY <1>1
<1>4. (u + 1) * (Size + 1) * Width \in Nat
  BY <1>1, <1>3
<1> QED
  BY <1>2, <1>4

LEMMA RemainingTyped ==
  ASSUME NEW s \in RunState
  PROVE  Remaining(s) \in Nat
<1>1. s.pc \in Pcs
  BY DEF RunState
<1> QED
  BY <1>1, RemainingAt, InRoundsTyped, BeforeRoundsTyped DEF Pcs

\* A visit that skips leaves a shorter list.
LEMMA SkipDescends ==
  ASSUME NEW s \in RunState, NEW t \in RunState, NEW n \in Nodes, Skips(s, t, n)
  PROVE  InRounds(t) < InRounds(s)
<1>1. AttemptsLeft(t) = AttemptsLeft(s)
  BY DEF Skips, AttemptsLeft
<1>2. Area(t) = Area(s)
  BY DEF Skips, Visits, Visiting, Area
<1>3. Turns(t) < Turns(s)
  <2>1. LaunchedNow(t) = LaunchedNow(s)
    BY DEF Skips, Visits, LaunchedNow
  <2>2. Cardinality(t.todo) < Cardinality(s.todo)
    <3>1. s.todo \in SUBSET Nodes /\ t.todo \subseteq s.todo /\ t.todo # s.todo
      BY DEF Skips, Visits, RunState
    <3> QED
      BY <3>1, NodesCounted, StrictlyFewer
  <2>3. t.inflight = s.inflight /\ s.pc # "loop" /\ t.pc # "loop"
    BY DEF Skips, Visits, Visiting
  <2>4. /\ Cardinality(s.todo) \in Nat /\ Cardinality(t.todo) \in Nat
        /\ Cardinality(s.inflight) \in Nat
    BY NodesCounted DEF RunState
  <2> QED
    BY <2>1, <2>2, <2>3, <2>4, SizeTyped DEF Turns
<1> QED
  BY <1>1, <1>2, <1>3, Descends

\* A return leaves fewer handlers at work.
LEMMA ReturnDescends ==
  ASSUME NEW s \in RunState, NEW t \in RunState, NEW n \in Nodes, Returns(s, t, n)
  PROVE  InRounds(t) < InRounds(s)
<1>1. AttemptsLeft(t) = AttemptsLeft(s)
  BY DEF Returns, AttemptsLeft
<1>2. Area(t) = Area(s)
  BY DEF Returns, Visiting, Area
<1>3. Turns(t) < Turns(s)
  <2>1. LaunchedNow(t) = LaunchedNow(s)
    BY DEF Returns, LaunchedNow
  <2>2. Cardinality(t.inflight) < Cardinality(s.inflight)
    <3>1. s.inflight \in SUBSET Nodes /\ t.inflight \subseteq s.inflight /\ t.inflight # s.inflight
      BY DEF Returns, RunState
    <3> QED
      BY <3>1, NodesCounted, StrictlyFewer
  <2>3. t.todo = s.todo /\ s.pc # "loop" /\ t.pc # "loop"
    BY DEF Returns, Visiting
  <2>4. /\ Cardinality(s.todo) \in Nat
        /\ Cardinality(s.inflight) \in Nat /\ Cardinality(t.inflight) \in Nat
    BY NodesCounted DEF RunState
  <2> QED
    BY <2>1, <2>2, <2>3, <2>4, SizeTyped DEF Turns
<1> QED
  BY <1>1, <1>2, <1>3, Descends

\* A launch uses up a handler call.
LEMMA LaunchDescends ==
  ASSUME NEW s \in RunState, NEW t \in RunState, NEW n \in Nodes,
         RunSound(s), Launches(s, t, n)
  PROVE  InRounds(t) < InRounds(s)
<1>1. /\ s.starts \in [Nodes -> Nat] /\ s.retries \in [Nodes -> Nat]
      /\ MaxAttempts \in [Nodes -> Nat]
      /\ t.starts = [s.starts EXCEPT ![n] = @ + 1]
  BY GraphAssumption DEF RunState, Launches
<1>2. s.starts[n] <= MaxAttempts[n]
  <2>1. n \in s.todo
    BY DEF Launches, Visits
  <2>2. s.starts[n] <= s.retries[n] /\ s.retries[n] <= MaxAttempts[n]
    BY <2>1 DEF RunSound, StartsCounted
  <2> QED
    BY <1>1, <2>2
<1>3. AttemptsLeft(t) \subseteq AttemptsLeft(s)
  <2> SUFFICES ASSUME NEW m \in Nodes, NEW k \in t.starts[m] .. MaxAttempts[m]
               PROVE  k \in s.starts[m] .. MaxAttempts[m]
    BY DEF AttemptsLeft
  <2>1. s.starts[m] <= t.starts[m] /\ s.starts[m] \in Nat /\ t.starts[m] \in Nat
    BY <1>1
  <2> QED
    BY <1>1, <2>1
<1>4. <<n, s.starts[n]>> \in AttemptsLeft(s)
  <2>1. s.starts[n] \in s.starts[n] .. MaxAttempts[n]
    BY <1>1, <1>2
  <2> QED
    BY <2>1 DEF AttemptsLeft
<1>5. <<n, s.starts[n]>> \notin AttemptsLeft(t)
  <2>1. t.starts[n] = s.starts[n] + 1
    BY <1>1
  <2>2. s.starts[n] \notin t.starts[n] .. MaxAttempts[n]
    BY <1>1, <2>1
  <2> QED
    BY <2>2 DEF AttemptsLeft
<1> QED
  BY <1>3, <1>4, <1>5, Descends

\* A round begins over what the loop had listed.
LEMMA BeginDescends ==
  ASSUME NEW s \in RunState, NEW t \in RunState, RunSound(s), Begins(s, t)
  PROVE  InRounds(t) < InRounds(s)
<1>1. AttemptsLeft(t) = AttemptsLeft(s)
  BY DEF Begins, SameMaps, AttemptsLeft
<1>2. Area(t) = Area(s)
  BY DEF Begins, Area
<1>3. Turns(t) < Turns(s)
  <2>1. ~LaunchedNow(t) /\ s.pc = "loop" /\ t.pc # "loop"
    BY DEF Begins, LaunchedNow
  <2>2. /\ Cardinality(t.todo) \in Nat /\ Cardinality(t.todo) <= Size
        /\ Cardinality(t.inflight) \in Nat /\ Cardinality(t.inflight) <= Size
    BY NodesCounted DEF RunState
  <2> QED
    BY <2>1, <2>2, SizeTyped DEF Turns
<1> QED
  BY <1>1, <1>2, <1>3, Descends

\* A round that launched something is followed by one over no more than itself,
\* and any other by one over less.
LEMMA SettleDescends ==
  ASSUME NEW s \in RunState, NEW t \in RunState, RunSound(s), RoundGrounded(s), Settles(s, t)
  PROVE  InRounds(t) < InRounds(s)
<1>1. AttemptsLeft(t) = AttemptsLeft(s)
  BY DEF Settles, SameMaps, AttemptsLeft
<1>2. Area(s) = Downstream(s.batch) \cap Grounded /\ Area(t) = Downstream(t.ready) \cap Grounded
  BY DEF Settles, Area
<1>3. /\ s.batch # {} /\ s.batch \subseteq Grounded /\ s.ready \subseteq s.failed
      /\ s.ready \subseteq s.batch /\ s.todo = {} /\ s.inflight = {}
  BY DEF Settles, RoundGrounded, RunSound, WorkShape, Visiting, Pending
<1>4. \A n \in t.ready : n \in s.ready \/ Preds(n) \cap s.batch # {}
  BY DEF Settles, Collected
<1>5. s.batch \in SUBSET Nodes /\ t.ready \in SUBSET Nodes
  BY DEF RunState
<1>6. CASE LaunchedNow(s)
  <2>1. Area(t) \subseteq Area(s)
    BY <1>2, <1>3, <1>4, <1>5, AreaKept
  <2>2. Turns(t) < Turns(s)
    <3>1. Cardinality(s.todo) \in Nat /\ Cardinality(s.inflight) \in Nat
      BY <1>3, FS_EmptySet
    <3> QED
      BY <1>6, <3>1, SizeTyped DEF Turns, Settles
  <2> QED
    BY <1>1, <2>1, <2>2, Descends
<1>7. CASE ~LaunchedNow(s)
  <2>1. s.batch \subseteq s.skipped
    BY <1>3, <1>7 DEF LaunchedNow
  <2>2. s.ready = {}
    <3> SUFFICES ASSUME NEW n \in s.ready PROVE FALSE
      OBVIOUS
    <3>1. n \in s.skipped \cap Pending(s) /\ n \in Launched(s)
      BY <1>3, <2>1 DEF Pending, Launched
    <3> QED
      BY <3>1 DEF RunSound, SkippedStay, PredsFrozen
  <2>3. Area(t) \subseteq Area(s) /\ Area(t) # Area(s)
    BY <1>2, <1>3, <1>4, <1>5, <2>2, AreaShrinks
  <2> QED
    BY <1>1, <2>3, Descends
<1> QED
  BY <1>6, <1>7

LEMMA RoundDescends ==
  ASSUME NEW s \in RunState, NEW t \in RunState, RunSound(s), RoundGrounded(s),
         RoundMove(s, t)
  PROVE  Remaining(t) < Remaining(s)
<1>1. CASE Loads(s, t)
  <2>1. t.starts = NewRun.starts
    BY <1>1 DEF Loads, SameMaps, RunSound, WorkShape, BeforeLoop, NewRun
  <2>2. Remaining(s) = BeforeRounds /\ Remaining(t) = InRounds(t)
    BY <1>1, RemainingAt DEF Loads
  <2> QED
    BY <2>1, <2>2, RoundsBounded
<1>2. CASE Leaves(s, t)
  <2>1. Remaining(s) = InRounds(s) /\ Remaining(t) = 3
    BY <1>2, RemainingAt DEF Leaves
  <2> QED
    BY <2>1, InRoundsTyped
<1>3. CASE Begins(s, t) \/ Settles(s, t)
  <2>1. Remaining(s) = InRounds(s) /\ Remaining(t) = InRounds(t)
    BY <1>3, RemainingAt DEF Begins, Settles
  <2> QED
    BY <1>3, <2>1, BeginDescends, SettleDescends
<1>4. ASSUME NEW n \in Nodes,
             Skips(s, t, n) \/ Launches(s, t, n) \/ Succeeds(s, t, n) \/ Fails(s, t, n)
      PROVE  Remaining(t) < Remaining(s)
  <2>1. Remaining(s) = InRounds(s) /\ Remaining(t) = InRounds(t)
    BY <1>4, RemainingAt DEF Skips, Launches, Succeeds, Fails, Visits, Returns, Visiting
  <2> QED
    BY <1>4, <2>1, SkipDescends, LaunchDescends, ReturnDescends DEF Succeeds, Fails
<1> QED
  BY <1>1, <1>2, <1>3, <1>4 DEF RoundMove

\* Before and after the rounds an execution moves on, too.
LEMMA EdgeDescends ==
  ASSUME TypeOK, NEW r \in Runs,
         \/ \E p \in Processes : Execute(p, r)
         \/ MarkRunning(r) \/ Release(r) \/ LoadFails(r)
         \/ DropEntry(r) \/ Finalize(r) \/ Announce(r)
  PROVE  Remaining(run'[r]) < Remaining(run[r])
<1>1. run[r] \in RunState /\ run \in [Runs -> RunState]
  BY DEF TypeOK
<1>2. ASSUME NEW s, run' = [run EXCEPT ![r] = s],
             \/ run[r].pc = "idle" /\ s.pc = "claimed"
             \/ run[r].pc = "claimed" /\ s.pc \in {"spawned", "releasing"}
             \/ run[r].pc = "spawned" /\ s.pc = "done"
             \/ run[r].pc = "releasing" /\ s.pc = "refused"
             \/ run[r].pc = "dropping" /\ s.pc = "finalizing"
             \/ run[r].pc = "finalizing" /\ s.pc = "announcing"
             \/ run[r].pc = "announcing" /\ s.pc = "done"
      PROVE  Remaining(run'[r]) < Remaining(run[r])
  <2>1. run'[r] = s
    BY <1>1, <1>2
  <2> QED
    BY <1>2, <2>1, RemainingAt, BeforeRoundsTyped
<1>3. ASSUME NEW p \in Processes, Execute(p, r)
      PROVE  Remaining(run'[r]) < Remaining(run[r])
  <2>1. [run[r] EXCEPT !.pc = "claimed", !.home = p].pc = "claimed"
    BY <1>1 DEF RunState
  <2> QED
    BY <1>2, <1>3, <2>1 DEF Execute, Becomes
<1>4. ASSUME NEW pc PROVE [run[r] EXCEPT !.pc = pc].pc = pc
  BY <1>1 DEF RunState
<1>5. CASE MarkRunning(r)
  <2>1. PICK ok \in BOOLEAN :
          Becomes(r, [run[r] EXCEPT !.pc = IF ok THEN "spawned" ELSE "releasing"])
    BY <1>5 DEF MarkRunning
  <2> QED
    BY <1>2, <1>4, <1>5, <2>1 DEF MarkRunning, Becomes
<1>6. CASE Release(r) \/ LoadFails(r) \/ DropEntry(r) \/ Finalize(r) \/ Announce(r)
  BY <1>2, <1>4, <1>6 DEF Release, LoadFails, DropEntry, Finalize, Announce, Becomes
<1> QED
  BY <1>3, <1>5, <1>6

\* Requests and processes do not prolong an execution.
LEMMA EnvironmentDescends ==
  ASSUME TypeOK, NEW q \in Runs,
         \/ Pause \/ Resume \/ Cancel \/ UNCHANGED vars
         \/ \E p \in Processes : Stop(p) \/ Boot(p) \/ Kill(p)
  PROVE  Remaining(run'[q]) <= Remaining(run[q])
<1>1. run[q] \in RunState
  BY DEF TypeOK
<1>2. Remaining(run[q]) \in Nat
  BY <1>1, RemainingTyped
<1>3. CASE run' = run
  BY <1>2, <1>3
<1>4. ASSUME NEW p \in Processes, Kill(p)
      PROVE  Remaining(run'[q]) <= Remaining(run[q])
  <2>1. CASE run'[q] = run[q]
    BY <1>2, <2>1
  <2>2. CASE run'[q] = [run[q] EXCEPT !.pc = "killed"]
    <3>1. run'[q].pc = "killed"
      BY <1>1, <2>2 DEF RunState
    <3> QED
      BY <1>2, <3>1, RemainingAt
  <2> QED
    BY <1>4, <2>1, <2>2 DEF Kill
<1>5. ASSUME NEW p \in Processes, Stop(p)
      PROVE  Remaining(run'[q]) <= Remaining(run[q])
  <2>1. owner[p] \in Runs
    BY <1>5 DEF Stop, TypeOK
  <2>2. CASE run'[q] = run[q]
    BY <1>2, <2>2
  <2>3. CASE run'[q] = [run[q] EXCEPT !.cancelled = TRUE]
    <3> DEFINE s == run[q]
               t == run'[q]
    <3>1. /\ t.pc = s.pc /\ t.ready = s.ready /\ t.batch = s.batch /\ t.todo = s.todo
          /\ t.inflight = s.inflight /\ t.skipped = s.skipped /\ t.starts = s.starts
      BY <1>1, <2>3 DEF RunState
    <3> HIDE DEF s, t
    <3>2. InRounds(t) = InRounds(s)
      BY <3>1 DEF InRounds, AttemptsLeft, Area, Turns, LaunchedNow
    <3>3. Remaining(t) = Remaining(s)
      BY <3>1, <3>2 DEF Remaining
    <3> QED
      BY <1>2, <3>3 DEF s, t
  <2> QED
    BY <1>5, <2>1, <2>2, <2>3 DEF Stop, Becomes, TypeOK
<1> QED
  BY <1>3, <1>4, <1>5 DEF Pause, Resume, Cancel, Boot, vars

\* On every graph, cyclic ones included, each step of an execution lowers a
\* natural number that nothing raises: it cannot take more steps than that
\* number at its start, which depends on the graph and its retry policy only.
THEOREM RunsAlwaysDescend == Spec => RunsDescend
<1>1. ASSUME Inv, TypeOK', GroundedInv, [Next]_vars, NEW q \in Runs
      PROVE  /\ Remaining(run'[q]) <= Remaining(run[q])
             /\ (EngineStep(q) \/ \E n \in Nodes : NodeReturns(q, n))
                  => Remaining(run'[q]) < Remaining(run[q])
  <2>1. /\ TypeOK /\ run[q] \in RunState /\ run'[q] \in RunState
        /\ RunSound(run[q]) /\ RoundGrounded(run[q])
    BY <1>1 DEF Inv, TypeOK, RoundsInv, GroundedInv
  <2>2. Remaining(run[q]) \in Nat /\ Remaining(run'[q]) \in Nat
    BY <2>1, RemainingTyped
  <2>3. ASSUME NEW r \in Runs,
               \/ LoadGraph(r) \/ BeginRound(r) \/ LeaveLoop(r) \/ Settle(r)
               \/ \E n \in Nodes :
                    SkipBlocked(r, n) \/ SkipUnmet(r, n) \/ Launch(r, n) \/ NodeReturns(r, n)
        PROVE  (r = q => Remaining(run'[q]) < Remaining(run[q])) /\ Others(r)
    BY <2>1, <2>3, RoundEffect, RoundDescends
  <2>4. ASSUME NEW r \in Runs,
               \/ \E p \in Processes : Execute(p, r)
               \/ MarkRunning(r) \/ Release(r) \/ LoadFails(r)
               \/ DropEntry(r) \/ Finalize(r) \/ Announce(r)
        PROVE  (r = q => Remaining(run'[q]) < Remaining(run[q])) /\ Others(r)
    BY <2>1, <2>4, MoveEffect, EdgeDescends
  <2>5. (EngineStep(q) \/ \E n \in Nodes : NodeReturns(q, n))
          => Remaining(run'[q]) < Remaining(run[q])
    BY <2>3, <2>4 DEF EngineStep, RoundStep
  <2>6. ASSUME NEW r \in Runs, Others(r), r = q => Remaining(run'[q]) < Remaining(run[q])
        PROVE  Remaining(run'[q]) <= Remaining(run[q])
    BY <2>2, <2>6 DEF Others
  <2>7. Remaining(run'[q]) <= Remaining(run[q])
    BY <1>1, <2>1, <2>3, <2>4, <2>6, EnvironmentDescends DEF Next, EngineStep, RoundStep
  <2> QED
    BY <2>5, <2>7
<1>2. Inv /\ TypeOK' /\ GroundedInv /\ [Next]_vars =>
        [\A r \in Runs :
           /\ Remaining(run'[r]) <= Remaining(run[r])
           /\ EngineStep(r) \/ (\E n \in Nodes : NodeReturns(r, n))
                => Remaining(run'[r]) < Remaining(run[r])]_vars
  BY <1>1
<1> QED
  BY <1>2, EngineInvariant, TypeCorrect, GroundedInvariant, PTL DEF Spec, RunsDescend
=============================================================================
