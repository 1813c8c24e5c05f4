----------------------- MODULE CapabilityFunnelProofs -----------------------
(***************************************************************************)
(* The engine decides by priority, and the funnel performs nothing that    *)
(* recent policies and the seat's rank do not cover, for every set of      *)
(* policies, lifetime of cache entries, duration of evaluations, and       *)
(* number of callers.                                                      *)
(***************************************************************************)
EXTENDS CapabilityFunnelInv, DataInduction

-----------------------------------------------------------------------------
(* Types. *)

\* A caller at work holds an evaluation.
LEMMA BusyTyped ==
  ASSUME TypeOK, NEW c \in Callers, Busy(c) \/ eval[c].pc # "idle"
  PROVE  eval[c] \in Evaluations
BY DEF TypeOK, Busy, Idle

\* An idle caller is not at any step of an evaluation.
LEMMA IdleNotAt ==
  ASSUME NEW c \in Callers, eval[c] = Idle
  PROVE  eval[c].pc = "idle"
BY DEF Idle

\* Bounds are numbers.
LEMMA BoundsTyped == TTL \in Nat /\ MaxEval \in Nat /\ StaleBound \in Nat
BY EngineAssumption DEF StaleBound

LEMMA TypeInit == Init => TypeOK
<1> SUFFICES ASSUME Init PROVE TypeOK
  OBVIOUS
<1> USE DEF Init, EngineInit
<1>1. NoEntry \in Entries
  BY DEF Entries
<1>2. 0 \in 0 .. StaleBound + 1
  BY BoundsTyped
<1>3. \A c \in Callers : inv[c] \in Stages /\ record[c] \in Statuses
  BY DEF Stages, Statuses
<1> QED
  BY <1>1, <1>2, <1>3 DEF TypeOK, Stages, Statuses

\* A question starts an evaluation.
LEMMA AskTyped ==
  ASSUME TypeOK, NEW c \in Callers, NEW r \in Requests, Ask(c, r)
  PROVE  eval' \in [Callers -> {Idle} \cup Evaluations]
<1>1. Evaluation("get", r, {}, "none", 0) \in Evaluations
  BY BoundsTyped DEF Evaluation, Evaluations
<1> QED
  BY <1>1 DEF Ask, TypeOK

\* So do the steps of an evaluation keep its type, and that of the cache.
LEMMA EvalTyped ==
  ASSUME TypeOK, NEW c \in Callers, EvalStep(c)
  PROVE  /\ eval' \in [Callers -> {Idle} \cup Evaluations]
         /\ cache' \in [Requests -> Entries]
<1>1. CASE CacheGet(c)
  <2>1. eval[c] \in Evaluations
    BY <1>1, BusyTyped DEF CacheGet
  <2>2. cache[eval[c].of] \in Entries
    BY <2>1 DEF TypeOK, Evaluations
  <2>3. cache[eval[c].of].verdict \in Verdicts \cup {"none", "error"}
    BY <2>2 DEF Entries, NoEntry
  <2> DEFINE new == [eval[c] EXCEPT !.pc = IF cache[eval[c].of] = NoEntry THEN "read" ELSE "answered",
                                    !.answer = cache[eval[c].of].verdict]
  <2>4. new \in Evaluations
    BY <2>1, <2>3 DEF Evaluations
  <2>5. eval' = [eval EXCEPT ![c] = new]
    BY <1>1 DEF CacheGet, TypeOK
  <2> QED
    BY <1>1, <2>4, <2>5 DEF CacheGet, TypeOK
<1>2. CASE ListActive(c)
  <2>1. eval[c] \in Evaluations
    BY <1>2, BusyTyped DEF ListActive
  <2>2. \A first \in Listed(active) :
          [eval[c] EXCEPT !.pc = "decide", !.read = first] \in Evaluations
    BY <2>1 DEF Listed, Evaluations, TypeOK
  <2>3. [eval[c] EXCEPT !.pc = "answered", !.answer = "error"] \in Evaluations
    BY <2>1 DEF Evaluations
  <2> QED
    BY <1>2, <2>2, <2>3 DEF ListActive, TypeOK
<1>3. CASE Decide(c)
  <2>1. eval[c] \in Evaluations
    BY <1>3, BusyTyped DEF Decide
  <2>2. PICK verdict \in Verdicts :
          /\ cache' = [cache EXCEPT ![eval[c].of] = [verdict |-> verdict, left |-> TTL]]
          /\ eval' = [eval EXCEPT ![c].pc = "answered", ![c].answer = verdict]
    BY <1>3 DEF Decide, Outcomes, Lifetime
  <2>3. [eval[c] EXCEPT !.pc = "answered", !.answer = verdict] \in Evaluations
    BY <2>1 DEF Evaluations
  <2>4. [verdict |-> verdict, left |-> TTL] \in Entries
    BY BoundsTyped DEF Entries
  <2> QED
    BY <2>2, <2>3, <2>4 DEF TypeOK
<1> QED
  BY <1>1, <1>2, <1>3 DEF EvalStep

\* A tick keeps the types of entries, evaluations and ages.
LEMMA TickTyped ==
  ASSUME TypeOK, EngineTick
  PROVE  /\ eval' \in [Callers -> {Idle} \cup Evaluations]
         /\ cache' \in [Requests -> Entries]
         /\ deniedFor' \in [Requests -> 0 .. StaleBound + 1]
<1>1. eval' \in [Callers -> {Idle} \cup Evaluations]
  <2>1. ASSUME NEW c \in Callers, Busy(c)
        PROVE  [eval[c] EXCEPT !.age = @ + 1] \in Evaluations
    <3>1. eval[c] \in Evaluations /\ eval[c].age < MaxEval
      BY <2>1, BusyTyped DEF EngineTick
    <3>2. eval[c].age + 1 \in 0 .. MaxEval
      BY <3>1, BoundsTyped DEF Evaluations
    <3> QED
      BY <3>1, <3>2 DEF Evaluations
  <2> QED
    BY <2>1 DEF EngineTick
<1>2. cache' \in [Requests -> Entries]
  <2>1. ASSUME NEW e \in Entries PROVE Older(e) \in Entries
    BY BoundsTyped DEF Older, Entries, NoEntry
  <2> QED
    BY <2>1 DEF EngineTick, TypeOK
<1>3. deniedFor' \in [Requests -> 0 .. StaleBound + 1]
  BY BoundsTyped DEF EngineTick, Since, OneOlder, TypeOK
<1> QED
  BY <1>1, <1>2, <1>3

LEMMA TypeStep ==
  ASSUME TypeOK, [Next]_vars
  PROVE  TypeOK'
<1> USE DEF TypeOK
<1>1. ASSUME NEW c \in Callers, NEW r \in Requests, Submit(c, r) PROVE TypeOK'
  <2>1. eval' \in [Callers -> {Idle} \cup Evaluations]
    BY <1>1, AskTyped DEF Submit, engine
  <2> QED
    BY <1>1, <2>1 DEF Submit, Ask, Refuse, Stage, WriteRecord, engine, Stages, Statuses
<1>2. ASSUME NEW c \in Callers, PolicyAnswer(c) PROVE TypeOK'
  BY <1>2 DEF PolicyAnswer, Refuse, Stage, WriteRecord, Stages, Statuses
<1>3. ASSUME NEW c \in Callers, PolicyTimesOut(c) PROVE TypeOK'
  BY <1>3 DEF PolicyTimesOut, Refuse, Stage, WriteRecord, engine, Stages, Statuses
<1>4. ASSUME NEW c \in Callers, Unclaimed(c) PROVE TypeOK'
  BY <1>4 DEF Unclaimed, funnel
<1>5. ASSUME NEW c \in Callers, Authority(c) PROVE TypeOK'
  BY <1>5 DEF Authority, Refuse, Stage, WriteRecord, Stages, Statuses
<1>6. ASSUME NEW c \in Callers, Dispatch(c) PROVE TypeOK'
  BY <1>6 DEF Dispatch, Refuse, Stage, WriteRecord, Stages, Statuses
<1>7. ASSUME NEW c \in Callers, AppendRecord(c) PROVE TypeOK'
  BY <1>7 DEF AppendRecord, Recorded, Stage, WriteRecord, engine, Stages, Statuses
<1>8. ASSUME NEW c \in Callers, EvalStep(c), UNCHANGED funnel PROVE TypeOK'
  <2>1. UNCHANGED <<active, deniedFor>>
    BY <1>8 DEF EvalStep, CacheGet, ListActive, Decide
  <2> QED
    BY <1>8, <2>1, EvalTyped DEF funnel
<1>9. ASSUME NEW policies \in SUBSET Policies, ChangePolicies(policies), UNCHANGED funnel
      PROVE  TypeOK'
  BY <1>9, BoundsTyped DEF ChangePolicies, Since, funnel
<1>10. ASSUME EngineTick, UNCHANGED funnel PROVE TypeOK'
  <2>1. UNCHANGED active
    BY <1>10 DEF EngineTick
  <2> QED
    BY <1>10, <2>1, TickTyped DEF funnel
<1>11. ASSUME EngineRestart, UNCHANGED funnel PROVE TypeOK'
  <2>1. \A c \in Callers : Busy(c) =>
          [eval[c] EXCEPT !.pc = "answered", !.answer = "error"] \in Evaluations
    BY BusyTyped DEF Evaluations
  <2>2. NoEntry \in Entries
    BY DEF Entries
  <2> QED
    BY <1>11, <2>1, <2>2 DEF EngineRestart, funnel
<1>12. ASSUME NEW new \in Ranks, SetRank(new) PROVE TypeOK'
  BY <1>12 DEF SetRank, engine
<1>13. ASSUME Restart PROVE TypeOK'
  BY <1>13 DEF Restart, engine, Stages, Statuses
<1>14. ASSUME UNCHANGED vars PROVE TypeOK'
  BY <1>14 DEF vars, engine, funnel
<1> QED
  BY <1>1, <1>2, <1>3, <1>4, <1>5, <1>6, <1>7, <1>8, <1>9, <1>10, <1>11, <1>12,
     <1>13, <1>14 DEF Next, InvokeStep
-----------------------------------------------------------------------------
(* The decision: the loop over the ordered policies against the policies' priorities. *)

\* The decision before the loop, and a run of its first n turns.
Start == [over |-> FALSE, verdict |-> "deny"]
Turns(ordered, r, f, n) ==
  f = [i \in 0 .. n |-> IF i = 0 THEN Start ELSE Weigh(f[i - 1], ordered[i], r)]

\* The loop can be run for any number of turns.
LEMMA LoopRuns ==
  ASSUME NEW ordered, NEW r, NEW n \in Nat
  PROVE  \E f : Turns(ordered, r, f, n)
<1> DEFINE Bad == {k \in Nat : ~ \E f : Turns(ordered, r, f, k)}
<1> SUFFICES ASSUME Bad # {} PROVE FALSE
  OBVIOUS
<1>1. PICK m \in Bad : \A k \in Bad : m <= k
  BY LeastNatural
<1>2. m # 0
  <2> DEFINE g == [i \in 0 .. 0 |-> Start]
  <2>1. Turns(ordered, r, g, 0)
    BY DEF Turns
  <2> QED
    BY <2>1
<1>3. PICK f : Turns(ordered, r, f, m - 1)
  <2>1. m - 1 \in Nat /\ m - 1 < m
    BY <1>2
  <2> QED
    BY <1>1, <2>1
<1> DEFINE g == [i \in 0 .. m |-> IF i < m THEN f[i] ELSE Weigh(f[m - 1], ordered[m], r)]
<1>4. ASSUME NEW i \in 0 .. m
      PROVE  g[i] = IF i = 0 THEN Start ELSE Weigh(g[i - 1], ordered[i], r)
  <2>1. CASE i = 0
    BY <1>2, <1>3, <2>1 DEF Turns
  <2>2. CASE i # 0 /\ i < m
    BY <1>3, <2>2 DEF Turns
  <2>3. CASE i = m
    BY <1>2, <2>3
  <2> QED
    BY <2>1, <2>2, <2>3
<1>5. Turns(ordered, r, g, m)
  BY <1>4 DEF Turns
<1> QED
  BY <1>5

\* So Loop is such a run, for as many turns as there are policies.
LEMMA LoopTurns ==
  ASSUME NEW ordered, NEW r, Len(ordered) \in Nat
  PROVE  Turns(ordered, r, Loop(ordered, r), Len(ordered))
<1>1. \E f : Turns(ordered, r, f, Len(ordered))
  BY LoopRuns
<1> QED
  BY <1>1, Zenon DEF Turns, Loop, Start

\* A policy has a say on a request, and one that ends the loop.
Voice(p, r) == Applies(p, r) /\ r \in p.agents /\ p.effect = "enforce"
Decides(p, r) == Voice(p, r) /\ p.action # "proxy"

\* What the loop knows after n turns.
SoFar(ordered, r, n) ==
  LET d == Loop(ordered, r)[n] IN
  /\ d.over =>
       \E i \in 1 .. n :
         /\ Decides(ordered[i], r) /\ d.verdict = ordered[i].action
         /\ \A k \in 1 .. i - 1 : ~Decides(ordered[k], r)
  /\ ~d.over => \A i \in 1 .. n : ~Decides(ordered[i], r)
  /\ ~d.over /\ (\E i \in 1 .. n : Voice(ordered[i], r)) => d.verdict = "proxy"
  /\ (\A i \in 1 .. n : ~Voice(ordered[i], r)) => d.verdict = "deny"

\* A turn keeps it.
LEMMA SoFarStep ==
  ASSUME NEW ordered, NEW r, NEW n \in Nat,
         Loop(ordered, r)[n + 1] = Weigh(Loop(ordered, r)[n], ordered[n + 1], r),
         SoFar(ordered, r, n)
  PROVE  SoFar(ordered, r, n + 1)
<1> DEFINE d == Loop(ordered, r)[n]
           e == Loop(ordered, r)[n + 1]
           p == ordered[n + 1]
<1>1. e = Weigh(d, p, r)
  OBVIOUS
<1>2. /\ d.over =>
           \E i \in 1 .. n :
             /\ Decides(ordered[i], r) /\ d.verdict = ordered[i].action
             /\ \A k \in 1 .. i - 1 : ~Decides(ordered[k], r)
      /\ ~d.over => \A i \in 1 .. n : ~Decides(ordered[i], r)
      /\ ~d.over /\ (\E i \in 1 .. n : Voice(ordered[i], r)) => d.verdict = "proxy"
      /\ (\A i \in 1 .. n : ~Voice(ordered[i], r)) => d.verdict = "deny"
  BY DEF SoFar
<1>3. 1 .. n + 1 = 1 .. n \cup {n + 1}
  OBVIOUS
<1>4. SUFFICES
      /\ e.over =>
           \E i \in 1 .. n + 1 :
             /\ Decides(ordered[i], r) /\ e.verdict = ordered[i].action
             /\ \A k \in 1 .. i - 1 : ~Decides(ordered[k], r)
      /\ ~e.over => \A i \in 1 .. n + 1 : ~Decides(ordered[i], r)
      /\ ~e.over /\ (\E i \in 1 .. n + 1 : Voice(ordered[i], r)) => e.verdict = "proxy"
      /\ (\A i \in 1 .. n + 1 : ~Voice(ordered[i], r)) => e.verdict = "deny"
  BY DEF SoFar
<1> HIDE DEF d, e
<1>5. CASE d.over
  <2>1. e = d
    BY <1>1, <1>5 DEF Weigh
  <2>2. ~(\A i \in 1 .. n : ~Voice(ordered[i], r))
    BY <1>2, <1>5 DEF Decides
  <2> QED
    BY <1>2, <1>3, <1>5, <2>1, <2>2
<1>6. CASE ~d.over /\ ~Voice(p, r)
  <2>1. e = d /\ ~Decides(p, r)
    BY <1>1, <1>6 DEF Weigh, Voice, Decides
  <2> QED
    BY <1>2, <1>3, <1>6, <2>1
<1>7. CASE ~d.over /\ Voice(p, r)
  <2>1. e = [over |-> p.action # "proxy", verdict |-> p.action]
    BY <1>1, <1>7 DEF Weigh, Voice
  <2>2. e.over = Decides(p, r) /\ e.verdict = p.action
    BY <1>7, <2>1 DEF Decides
  <2>3. n + 1 \in 1 .. n + 1 /\ 1 .. (n + 1) - 1 = 1 .. n
    OBVIOUS
  <2>4. CASE Decides(p, r)
    BY <1>2, <1>7, <2>2, <2>3, <2>4
  <2>5. CASE ~Decides(p, r)
    <3>1. e.verdict = "proxy"
      BY <1>7, <2>2, <2>5 DEF Decides
    <3> QED
      BY <1>2, <1>3, <1>7, <2>2, <2>3, <2>5, <3>1
  <2> QED
    BY <2>4, <2>5
<1> QED
  BY <1>5, <1>6, <1>7

\* The whole loop keeps it.
LEMMA LoopSoFar ==
  ASSUME NEW ordered, NEW r, Len(ordered) \in Nat
  PROVE  SoFar(ordered, r, Len(ordered))
<1> DEFINE Bad == {n \in 0 .. Len(ordered) : ~SoFar(ordered, r, n)}
<1> SUFFICES ASSUME Bad # {} PROVE FALSE
  OBVIOUS
<1>1. PICK m \in Bad : \A n \in Bad : m <= n
  <2>1. Bad \in SUBSET Nat
    OBVIOUS
  <2> HIDE DEF Bad
  <2> QED
    BY <2>1, LeastNatural
<1>2. Turns(ordered, r, Loop(ordered, r), Len(ordered))
  BY LoopTurns
<1>3. m # 0
  <2> SUFFICES ASSUME m = 0 PROVE FALSE
    OBVIOUS
  <2>1. Loop(ordered, r)[0] = Start
    BY <1>2 DEF Turns
  <2>2. SoFar(ordered, r, 0)
    BY <2>1 DEF SoFar, Start
  <2> QED
    BY <2>2
<1>4. m - 1 \in Nat /\ SoFar(ordered, r, m - 1)
  BY <1>1, <1>3
<1>5. Loop(ordered, r)[m] = Weigh(Loop(ordered, r)[m - 1], ordered[m], r)
  <2>1. m \in 0 .. Len(ordered)
    OBVIOUS
  <2> HIDE DEF Bad
  <2> QED
    BY <1>2, <1>3, <2>1, Zenon DEF Turns
<1>6. SoFar(ordered, r, m)
  <2>1. (m - 1) + 1 = m
    BY <1>4
  <2>2. Loop(ordered, r)[(m - 1) + 1] = Weigh(Loop(ordered, r)[m - 1], ordered[(m - 1) + 1], r)
    BY <1>5, <2>1
  <2>3. SoFar(ordered, r, (m - 1) + 1)
    BY <1>4, <2>2, SoFarStep
  <2> QED
    BY <2>1, <2>3
<1> QED
  BY <1>6

\* An order in which the database may return the policies lists all of them.
LEMMA OrderLists ==
  ASSUME NEW P, IsFiniteSet(P), NEW s \in Orders(P)
  PROVE  /\ Cardinality(P) \in Nat
         /\ s \in [1 .. Cardinality(P) -> P]
         /\ Len(s) = Cardinality(P)
         /\ \A i, k \in 1 .. Cardinality(P) :
              i < k => s[i] # s[k] /\ s[i].priority >= s[k].priority
         /\ \A p \in P : \E i \in 1 .. Cardinality(P) : s[i] = p
<1>1. Cardinality(P) \in Nat
  BY FS_CardinalityType
<1>2. /\ s \in [1 .. Cardinality(P) -> P]
      /\ \A i, k \in 1 .. Cardinality(P) :
           i < k => s[i] # s[k] /\ s[i].priority >= s[k].priority
  BY DEF Orders
<1>3. Len(s) = Cardinality(P)
  BY <1>1, <1>2
<1>4. \A p \in P : \E i \in 1 .. Cardinality(P) : s[i] = p
  BY <1>2, RankingOnto, ZenonT(30)
<1> QED
  BY <1>1, <1>2, <1>3, <1>4

\* An order exists in which one chosen policy precedes its equals.
LEMMA OrderWithFirst ==
  ASSUME NEW P, IsFiniteSet(P), P \subseteq Policy, NEW p
  PROVE  \E s \in Orders(P) :
           \A i, k \in 1 .. Cardinality(P) :
             i < k /\ s[k] = p => s[i].priority > p.priority
<1> DEFINE w == [q \in P |-> 2 * q.priority + (IF q = p THEN 1 ELSE 0)]
<1>1. \A q \in P : q.priority \in Int
  BY DEF Policy
<1>2. w \in [P -> Int]
  BY <1>1
<1>3. PICK s : Ranking(s, P, w)
  <2> HIDE DEF w
  <2> QED
    BY <1>2, RankingExists
<1> DEFINE n == Cardinality(P)
<1>4. /\ s \in [1 .. n -> P]
      /\ \A i, k \in 1 .. n : i < k => s[i] # s[k] /\ w[s[i]] >= w[s[k]]
  BY <1>3 DEF Ranking
<1> HIDE DEF n
<1>5. ASSUME NEW i \in 1 .. n, NEW k \in 1 .. n, i < k
      PROVE  /\ s[i] # s[k] /\ s[i].priority >= s[k].priority
             /\ s[k] = p => s[i].priority > p.priority
  <2>1. s[i] \in P /\ s[k] \in P /\ s[i] # s[k] /\ w[s[i]] >= w[s[k]]
    BY <1>4, <1>5
  <2>2. s[i].priority \in Int /\ s[k].priority \in Int
    BY <1>1, <2>1
  <2>3. /\ w[s[i]] = 2 * s[i].priority + (IF s[i] = p THEN 1 ELSE 0)
        /\ w[s[k]] = 2 * s[k].priority + (IF s[k] = p THEN 1 ELSE 0)
    BY <2>1
  <2> HIDE DEF w
  <2>4. CASE s[i] = p
    BY <2>1, <2>2, <2>3, <2>4
  <2>5. CASE s[i] # p /\ s[k] = p
    BY <2>1, <2>2, <2>3, <2>5
  <2>6. CASE s[i] # p /\ s[k] # p
    BY <2>1, <2>2, <2>3, <2>6
  <2> QED
    BY <2>4, <2>5, <2>6
<1>6. s \in Orders(P)
  <2>1. DOMAIN s = 1 .. n
    BY <1>4
  <2> QED
    BY <1>4, <1>5, <2>1 DEF Orders, n
<1> QED
  BY <1>5, <1>6 DEF n

\* What the loop decides over an order.
LEMMA EvaluateSays ==
  ASSUME NEW P, IsFiniteSet(P), NEW s \in Orders(P), NEW r
  PROVE  \/ \E i \in 1 .. Cardinality(P) :
              /\ Decides(s[i], r) /\ Evaluate(s, r) = s[i].action
              /\ \A k \in 1 .. i - 1 : ~Decides(s[k], r)
         \/ /\ \A p \in P : ~Decides(p, r)
            /\ (\E p \in P : Voice(p, r)) => Evaluate(s, r) = "proxy"
            /\ (\A p \in P : ~Voice(p, r)) => Evaluate(s, r) = "deny"
<1> DEFINE n == Cardinality(P)
<1>1. /\ n \in Nat /\ s \in [1 .. n -> P] /\ Len(s) = n
      /\ \A p \in P : \E i \in 1 .. n : s[i] = p
  BY OrderLists
<1>2. SoFar(s, r, n)
  <2>1. Len(s) \in Nat
    BY <1>1
  <2> QED
    BY <1>1, <2>1, LoopSoFar
<1> DEFINE d == Loop(s, r)[n]
<1>3. Evaluate(s, r) = d.verdict
  BY <1>1 DEF Evaluate
<1>4. /\ d.over =>
           \E i \in 1 .. n :
             /\ Decides(s[i], r) /\ d.verdict = s[i].action
             /\ \A k \in 1 .. i - 1 : ~Decides(s[k], r)
      /\ ~d.over => \A i \in 1 .. n : ~Decides(s[i], r)
      /\ ~d.over /\ (\E i \in 1 .. n : Voice(s[i], r)) => d.verdict = "proxy"
      /\ (\A i \in 1 .. n : ~Voice(s[i], r)) => d.verdict = "deny"
  BY <1>2 DEF SoFar
<1> HIDE DEF d, n
<1>5. CASE d.over
  BY <1>3, <1>4, <1>5 DEF n
<1>6. CASE ~d.over
  BY <1>1, <1>3, <1>4, <1>6
<1> QED
  BY <1>5, <1>6

\* It goes by priority.
LEMMA EvaluateByPriority ==
  ASSUME NEW P, IsFiniteSet(P), P \subseteq Policy, NEW s \in Orders(P), NEW r
  PROVE  Evaluate(s, r) \in ByPriority(P, r)
<1> DEFINE decisive == {p \in Voices(P, r) : p.action # "proxy"}
           top == {p \in decisive : \A q \in decisive : q.priority <= p.priority}
           n == Cardinality(P)
<1>1. /\ n \in Nat /\ s \in [1 .. n -> P]
      /\ \A i, k \in 1 .. n : i < k => s[i] # s[k] /\ s[i].priority >= s[k].priority
      /\ \A p \in P : \E i \in 1 .. n : s[i] = p
  BY OrderLists
<1>2. decisive = {p \in P : Decides(p, r)} /\ Voices(P, r) = {p \in P : Voice(p, r)}
  BY DEF Voices, Voice, Decides
<1>3. \A p \in P : p.priority \in Int
  BY DEF Policy
<1>4. ASSUME NEW i \in 1 .. n, Decides(s[i], r),
             \A k \in 1 .. i - 1 : ~Decides(s[k], r)
      PROVE  s[i] \in top
  <2>1. s[i] \in decisive
    BY <1>1, <1>2, <1>4
  <2>2. ASSUME NEW q \in decisive PROVE q.priority <= s[i].priority
    <3>1. PICK k \in 1 .. n : s[k] = q
      BY <1>1, <1>2
    <3>2. i <= k
      BY <1>1, <1>2, <1>4, <2>2, <3>1
    <3>3. s[i].priority \in Int /\ s[k].priority \in Int
      BY <1>1, <1>3
    <3> QED
      BY <1>1, <3>1, <3>2, <3>3
  <2> QED
    BY <2>1, <2>2
<1>5. \/ \E i \in 1 .. n :
            /\ Decides(s[i], r) /\ Evaluate(s, r) = s[i].action
            /\ \A k \in 1 .. i - 1 : ~Decides(s[k], r)
      \/ /\ \A p \in P : ~Decides(p, r)
         /\ (\E p \in P : Voice(p, r)) => Evaluate(s, r) = "proxy"
         /\ (\A p \in P : ~Voice(p, r)) => Evaluate(s, r) = "deny"
  BY EvaluateSays
<1>6. ByPriority(P, r) = IF top # {} THEN {p.action : p \in top}
                       ELSE IF Voices(P, r) # {} THEN {"proxy"} ELSE {"deny"}
  BY DEF ByPriority, Highest
<1> HIDE DEF top, n
<1>7. CASE \E i \in 1 .. n :
             /\ Decides(s[i], r) /\ Evaluate(s, r) = s[i].action
             /\ \A k \in 1 .. i - 1 : ~Decides(s[k], r)
  BY <1>4, <1>6, <1>7
<1>8. CASE /\ \A p \in P : ~Decides(p, r)
           /\ (\E p \in P : Voice(p, r)) => Evaluate(s, r) = "proxy"
           /\ (\A p \in P : ~Voice(p, r)) => Evaluate(s, r) = "deny"
  <2>1. top = {}
    BY <1>2, <1>8 DEF top
  <2> QED
    BY <1>2, <1>6, <1>8, <2>1
<1> QED
  BY <1>5, <1>7, <1>8

\* Over every finite set of policies the loop can decide what the priorities say,
\* and nothing else.
LEMMA DecidesByPriorityOver ==
  ASSUME NEW P, IsFiniteSet(P), P \subseteq Policy, NEW r
  PROVE  Outcomes(P, r) = ByPriority(P, r)
<1> DEFINE decisive == {p \in Voices(P, r) : p.action # "proxy"}
           top == {p \in decisive : \A q \in decisive : q.priority <= p.priority}
           n == Cardinality(P)
<1>1. decisive = {p \in P : Decides(p, r)} /\ top \subseteq P
  BY DEF Voices, Voice, Decides
<1>2. \A p \in P : p.priority \in Int /\ p.action \in Verdicts
  BY DEF Policy
<1>3. ByPriority(P, r) = IF top # {} THEN {p.action : p \in top}
                       ELSE IF Voices(P, r) # {} THEN {"proxy"} ELSE {"deny"}
  BY DEF ByPriority, Highest
<1>4. ByPriority(P, r) \subseteq Verdicts
  <2> HIDE DEF top
  <2> QED
    BY <1>1, <1>2, <1>3 DEF Verdicts
<1>5. Outcomes(P, r) \subseteq ByPriority(P, r)
  BY EvaluateByPriority DEF Outcomes
<1>6. ASSUME NEW v \in ByPriority(P, r)
      PROVE  \E s \in Orders(P) : Evaluate(s, r) = v
  <2>1. CASE top # {}
    <3>1. PICK p \in top : v = p.action
      <4> HIDE DEF top
      <4> QED
        BY <1>3, <1>6, <2>1
    <3>2. PICK s \in Orders(P) :
            \A i, k \in 1 .. n : i < k /\ s[k] = p => s[i].priority > p.priority
      BY OrderWithFirst
    <3>3. /\ n \in Nat /\ s \in [1 .. n -> P]
          /\ \A q \in P : \E i \in 1 .. n : s[i] = q
      BY OrderLists
    <3>4. PICK k \in 1 .. n : s[k] = p
      BY <1>1, <3>3
    <3>5. Decides(p, r)
      BY <1>1, <3>1
    <3>6. PICK i \in 1 .. n :
            /\ Decides(s[i], r) /\ Evaluate(s, r) = s[i].action
            /\ \A j \in 1 .. i - 1 : ~Decides(s[j], r)
      BY <1>1, <3>1, <3>5, EvaluateSays
    <3>7. i <= k
      BY <3>3, <3>4, <3>5, <3>6
    <3>8. s[i].priority <= p.priority
      BY <1>1, <3>1, <3>3, <3>6
    <3>9. i = k
      <4>1. s[i].priority \in Int /\ p.priority \in Int
        BY <1>1, <1>2, <3>1, <3>3
      <4>2. ~(i < k)
        BY <3>2, <3>4, <3>8, <4>1
      <4> QED
        BY <3>3, <3>7, <4>2
    <3> QED
      BY <3>1, <3>4, <3>6, <3>9
  <2>2. CASE top = {}
    <3>1. PICK s \in Orders(P) : TRUE
      BY OrderWithFirst
    <3>2. Evaluate(s, r) \in ByPriority(P, r)
      BY EvaluateByPriority
    <3> HIDE DEF top
    <3> QED
      BY <1>3, <1>6, <2>2, <3>1, <3>2
  <2> QED
    BY <2>1, <2>2
<1> QED
  BY <1>4, <1>5, <1>6 DEF Outcomes

\* A list that ends early allows nothing that the whole does not.
LEMMA ShortListAllows ==
  ASSUME NEW P, IsFiniteSet(P), P \subseteq Policy, NEW r,
         NEW first \in Listed(P), Allowable(first, r)
  PROVE  Allowable(P, r)
<1> DEFINE Decisive(Q) == {p \in Voices(Q, r) : p.action # "proxy"}
<1>1. first \subseteq P /\ \A p \in first, q \in P \ first : p.priority >= q.priority
  BY DEF Listed
<1>2. Outcomes(P, r) = ByPriority(P, r) /\ Outcomes(first, r) = ByPriority(first, r)
  BY <1>1, FS_Subset, DecidesByPriorityOver
<1>3. \A Q : ByPriority(Q, r) =
        IF Highest(Decisive(Q)) # {} THEN {p.action : p \in Highest(Decisive(Q))}
        ELSE IF Voices(Q, r) # {} THEN {"proxy"} ELSE {"deny"}
  BY DEF ByPriority
<1>4. "allow" \in ByPriority(first, r)
  BY <1>2 DEF Allowable
<1> HIDE DEF Decisive
<1>5. PICK p \in Highest(Decisive(first)) : p.action = "allow"
  BY <1>3, <1>4
<1>6. p \in first /\ p \in Decisive(first) /\ \A q \in Decisive(first) : q.priority <= p.priority
  BY <1>5 DEF Highest, Decisive, Voices
<1>7. p \in Decisive(P)
  BY <1>1, <1>6 DEF Decisive, Voices
<1>8. ASSUME NEW q \in Decisive(P) PROVE q.priority <= p.priority
  <2>1. q \in P /\ q.priority \in Int /\ p.priority \in Int
    BY <1>1, <1>6, <1>8 DEF Decisive, Voices, Policy
  <2>2. q \in first => q \in Decisive(first)
    BY <1>8 DEF Decisive, Voices
  <2> QED
    BY <1>1, <1>6, <2>1, <2>2
<1>9. p \in Highest(Decisive(P))
  BY <1>7, <1>8 DEF Highest
<1> QED
  BY <1>2, <1>3, <1>5, <1>9 DEF Allowable

-----------------------------------------------------------------------------
(* How recent the grounds of an answer are. *)

\* Taking an evaluation back, or ending it with an error, leaves no new answer.
LEMMA RecentKept ==
  ASSUME Inv, TypeOK', UNCHANGED <<active, deniedFor>>,
         \A r \in Requests : cache'[r] \in {cache[r], NoEntry},
         \A c \in Callers :
           \/ eval'[c] = eval[c]
           \/ eval'[c].pc \notin {"decide", "answered"}
           \/ eval'[c].pc = "answered" /\ eval'[c].answer = "error"
  PROVE  AllowedNow' /\ ReadIsRecent' /\ EntryIsRecent' /\ AnswerIsRecent'
<1>1. AllowedNow'
  BY DEF Inv, AllowedNow
<1>2. ReadIsRecent'
  BY DEF Inv, ReadIsRecent
<1>3. EntryIsRecent'
  BY DEF Inv, EntryIsRecent, NoEntry
<1>4. AnswerIsRecent'
  BY DEF Inv, AnswerIsRecent
<1> QED
  BY <1>1, <1>2, <1>3, <1>4

\* The steps of an evaluation hand the bounds on.
LEMMA RecentEval ==
  ASSUME Inv, TypeOK', NEW c \in Callers, EvalStep(c)
  PROVE  AllowedNow' /\ ReadIsRecent' /\ EntryIsRecent' /\ AnswerIsRecent'
<1>t. TypeOK
  BY DEF Inv
<1>u. UNCHANGED <<active, deniedFor>>
  BY DEF EvalStep, CacheGet, ListActive, Decide
<1>a. AllowedNow'
  BY <1>u DEF Inv, AllowedNow
<1>e. eval[c] \in Evaluations
  BY <1>t, BusyTyped DEF EvalStep, CacheGet, ListActive, Decide
<1>r. eval[c].of \in Requests /\ eval[c].age \in 0 .. MaxEval
  BY <1>e DEF Evaluations
<1>d. deniedFor[eval[c].of] \in Nat
  BY <1>r, <1>t, BoundsTyped DEF TypeOK
<1>1. CASE CacheGet(c)
  <2> DEFINE entry == cache[eval[c].of]
  <2>1. UNCHANGED cache
    BY <1>1 DEF CacheGet
  <2>2. \A d \in Callers : d # c => eval'[d] = eval[d]
    BY <1>1, <1>t DEF CacheGet, TypeOK
  <2>3. /\ eval'[c].pc = IF entry = NoEntry THEN "read" ELSE "answered"
        /\ eval'[c].answer = entry.verdict
        /\ eval'[c].of = eval[c].of /\ eval'[c].age = eval[c].age
    BY <1>1, <1>t, <1>e DEF CacheGet, TypeOK, Evaluations
  <2>4. entry.left \in Nat
    BY <1>t, <1>r, BoundsTyped DEF TypeOK, Entries, NoEntry
  <2>5. entry.verdict = "allow" => deniedFor[eval[c].of] + entry.left <= TTL + MaxEval
    BY <1>r DEF Inv, EntryIsRecent
  <2>6. AnswerIsRecent'
    BY <1>u, <1>r, <1>d, <2>2, <2>3, <2>4, <2>5, BoundsTyped DEF Inv, AnswerIsRecent
  <2>7. ReadIsRecent'
    BY <1>u, <2>2, <2>3 DEF Inv, ReadIsRecent
  <2> QED
    BY <1>a, <1>u, <2>1, <2>6, <2>7 DEF Inv, EntryIsRecent
<1>2. CASE ListActive(c)
  <2>1. UNCHANGED cache
    BY <1>2 DEF ListActive
  <2>2. \A d \in Callers : d # c => eval'[d] = eval[d]
    BY <1>2, <1>t DEF ListActive, TypeOK
  <2>3. /\ eval'[c].of = eval[c].of /\ eval'[c].age = eval[c].age
        /\ \/ eval'[c].pc = "decide" /\ eval'[c].read \in Listed(active)
           \/ eval'[c].pc = "answered" /\ eval'[c].answer = "error"
    BY <1>2, <1>t, <1>e DEF ListActive, TypeOK, Evaluations
  <2>4. \A first \in Listed(active) :
          Allowable(first, eval[c].of) => deniedFor[eval[c].of] = 0
    <3>1. IsFiniteSet(active) /\ active \subseteq Policy
      BY <1>t, PolicyAssumption, FS_Subset DEF TypeOK
    <3> QED
      BY <1>r, <3>1, ShortListAllows DEF Inv, AllowedNow
  <2>5. ReadIsRecent'
    BY <1>u, <1>r, <2>2, <2>3, <2>4 DEF Inv, ReadIsRecent
  <2>6. AnswerIsRecent'
    BY <1>u, <2>2, <2>3 DEF Inv, AnswerIsRecent
  <2> QED
    BY <1>a, <1>u, <2>1, <2>5, <2>6 DEF Inv, EntryIsRecent
<1>3. CASE Decide(c)
  <2>1. PICK verdict \in Outcomes(eval[c].read, eval[c].of) :
          /\ cache' = [cache EXCEPT ![eval[c].of] = [verdict |-> verdict, left |-> TTL]]
          /\ eval' = [eval EXCEPT ![c].pc = "answered", ![c].answer = verdict]
    BY <1>3 DEF Decide, Lifetime
  <2>2. \A d \in Callers : d # c => eval'[d] = eval[d]
    BY <2>1, <1>t DEF TypeOK
  <2>3. /\ eval'[c].of = eval[c].of /\ eval'[c].age = eval[c].age
        /\ eval'[c].pc = "answered" /\ eval'[c].answer = verdict
    BY <2>1, <1>t, <1>e DEF TypeOK, Evaluations
  <2>4. verdict = "allow" => deniedFor[eval[c].of] <= eval[c].age
    BY <1>3 DEF Decide, Inv, ReadIsRecent, Allowable
  <2>5. AnswerIsRecent'
    BY <1>u, <1>r, <1>d, <2>2, <2>3, <2>4, BoundsTyped DEF Inv, AnswerIsRecent
  <2>6. ReadIsRecent'
    BY <1>u, <2>2, <2>3 DEF Inv, ReadIsRecent
  <2>7. /\ \A r \in Requests : r # eval[c].of => cache'[r] = cache[r]
        /\ cache'[eval[c].of] = [verdict |-> verdict, left |-> TTL]
    BY <2>1, <1>t, <1>r DEF TypeOK
  <2>8. EntryIsRecent'
    BY <1>u, <1>r, <1>d, <2>4, <2>7, BoundsTyped DEF Inv, EntryIsRecent
  <2> QED
    BY <1>a, <2>5, <2>6, <2>8
<1> QED
  BY <1>1, <1>2, <1>3 DEF EvalStep

\* A change of policies can only end a denial.
LEMMA RecentChange ==
  ASSUME Inv, NEW policies \in SUBSET Policies, ChangePolicies(policies)
  PROVE  AllowedNow' /\ ReadIsRecent' /\ EntryIsRecent' /\ AnswerIsRecent'
<1>t. TypeOK
  BY DEF Inv
<1>1. \A r \in Requests : deniedFor[r] \in Nat
  BY <1>t, BoundsTyped DEF TypeOK
<1>2. \A r \in Requests : deniedFor'[r] = IF Allowable(policies, r) THEN 0 ELSE deniedFor[r]
  BY DEF ChangePolicies, Since
<1>3. \A r \in Requests : deniedFor'[r] \in Nat /\ deniedFor'[r] <= deniedFor[r]
  BY <1>1, <1>2
<1>4. active' = policies /\ UNCHANGED <<cache, eval>>
  BY DEF ChangePolicies
<1>5. AllowedNow'
  BY <1>2, <1>4 DEF AllowedNow
<1>6. \A c \in Callers : eval[c].pc \in {"decide", "answered"} =>
        eval[c].of \in Requests /\ eval[c].age \in Nat
  BY <1>t, BusyTyped, BoundsTyped DEF Evaluations
<1>7. ReadIsRecent'
  BY <1>1, <1>3, <1>4, <1>6 DEF Inv, ReadIsRecent
<1>8. \A r \in Requests : cache[r].left \in Nat
  BY <1>t, BoundsTyped DEF TypeOK, Entries, NoEntry
<1>9. EntryIsRecent'
  BY <1>1, <1>3, <1>4, <1>8, BoundsTyped DEF Inv, EntryIsRecent
<1>10. AnswerIsRecent'
  BY <1>1, <1>3, <1>4, <1>6, BoundsTyped DEF Inv, AnswerIsRecent
<1> QED
  BY <1>5, <1>7, <1>9, <1>10

\* A tick moves the denials and the clocks that bound them alike.
LEMMA RecentTick ==
  ASSUME Inv, EngineTick
  PROVE  AllowedNow' /\ ReadIsRecent' /\ EntryIsRecent' /\ AnswerIsRecent'
<1>t. TypeOK
  BY DEF Inv
<1>1. \A r \in Requests : deniedFor[r] \in Nat
  BY <1>t, BoundsTyped DEF TypeOK
<1>2. \A r \in Requests :
        deniedFor'[r] = IF Allowable(active, r) THEN 0 ELSE OneOlder(deniedFor[r])
  BY DEF EngineTick, Since
<1>3. \A r \in Requests : deniedFor'[r] \in Nat /\ deniedFor'[r] <= deniedFor[r] + 1
  BY <1>1, <1>2, BoundsTyped DEF OneOlder
<1>4. UNCHANGED active
  BY DEF EngineTick
<1>5. AllowedNow'
  BY <1>2, <1>4 DEF AllowedNow
<1>6. \A c \in Callers : eval[c].pc \in {"decide", "answered"} =>
        eval[c] \in Evaluations /\ eval[c].of \in Requests /\ eval[c].age \in Nat
  BY <1>t, BusyTyped, BoundsTyped DEF Evaluations
<1>7. \A c \in Callers : eval'[c].pc \in {"decide", "answered"} =>
        /\ eval[c].pc = eval'[c].pc /\ eval'[c].of = eval[c].of
        /\ eval'[c].read = eval[c].read /\ eval'[c].answer = eval[c].answer
        /\ eval'[c].age = eval[c].age + 1
  <2> SUFFICES ASSUME NEW c \in Callers, eval'[c].pc \in {"decide", "answered"}
               PROVE  /\ eval[c].pc = eval'[c].pc /\ eval'[c].of = eval[c].of
                      /\ eval'[c].read = eval[c].read /\ eval'[c].answer = eval[c].answer
                      /\ eval'[c].age = eval[c].age + 1
    OBVIOUS
  <2>1. eval'[c] = IF Busy(c) THEN [eval[c] EXCEPT !.age = @ + 1] ELSE Idle
    BY DEF EngineTick
  <2>2. Busy(c)
    BY <2>1 DEF Idle
  <2>3. eval[c] \in Evaluations
    BY <1>t, <2>2, BusyTyped
  <2> QED
    BY <2>1, <2>2, <2>3 DEF Evaluations
<1>8. ReadIsRecent'
  BY <1>1, <1>3, <1>6, <1>7 DEF Inv, ReadIsRecent
<1>9. AnswerIsRecent'
  BY <1>1, <1>3, <1>6, <1>7, BoundsTyped DEF Inv, AnswerIsRecent
<1>10. \A r \in Requests : cache'[r].verdict = "allow" =>
         /\ cache[r].verdict = "allow"
         /\ cache[r].left \in Nat /\ cache'[r].left = cache[r].left - 1
  <2> SUFFICES ASSUME NEW r \in Requests, cache'[r].verdict = "allow"
               PROVE  /\ cache[r].verdict = "allow"
                      /\ cache[r].left \in Nat /\ cache'[r].left = cache[r].left - 1
    OBVIOUS
  <2>1. cache'[r] = Older(cache[r]) /\ cache[r] \in Entries
    BY <1>t DEF EngineTick, TypeOK
  <2>2. cache[r] # NoEntry /\ cache[r].left # 0
    BY <2>1 DEF Older, NoEntry
  <2> QED
    BY <2>1, <2>2, BoundsTyped DEF Older, Entries
<1>11. EntryIsRecent'
  BY <1>1, <1>3, <1>10, BoundsTyped DEF Inv, EntryIsRecent
<1> QED
  BY <1>5, <1>8, <1>9, <1>11

LEMMA RecentStep ==
  ASSUME Inv, TypeOK', [Next]_vars
  PROVE  AllowedNow' /\ ReadIsRecent' /\ EntryIsRecent' /\ AnswerIsRecent'
<1> DEFINE Goal == AllowedNow' /\ ReadIsRecent' /\ EntryIsRecent' /\ AnswerIsRecent'
<1>t. TypeOK
  BY DEF Inv
<1>a. ASSUME UNCHANGED <<active, deniedFor, cache>>,
             NEW c \in Callers, NEW e,
             eval' = [eval EXCEPT ![c] = e], e.pc \notin {"decide", "answered"}
      PROVE  Goal
  BY <1>a, <1>t, RecentKept DEF TypeOK
<1>b. ASSUME UNCHANGED engine PROVE Goal
  BY <1>b, RecentKept DEF engine
<1>c. Idle.pc \notin {"decide", "answered"}
  BY DEF Idle
<1>1. ASSUME NEW c \in Callers, NEW r \in Requests, Submit(c, r) PROVE Goal
  <2>1. CASE Ask(c, r)
    <3>1. Evaluation("get", r, {}, "none", 0).pc = "get"
      BY DEF Evaluation
    <3> QED
      BY <2>1, <3>1, <1>a DEF Ask
  <2> QED
    BY <1>1, <2>1, <1>b DEF Submit
<1>2. ASSUME NEW c \in Callers, PolicyAnswer(c) PROVE Goal
  <2>1. UNCHANGED engine \/ (eval' = [eval EXCEPT ![c] = Idle] /\ UNCHANGED <<active, cache, deniedFor>>)
    BY <1>2 DEF PolicyAnswer, engine
  <2> QED
    BY <2>1, <1>a, <1>b, <1>c
<1>3. ASSUME NEW c \in Callers, PolicyTimesOut(c) PROVE Goal
  BY <1>3, <1>b DEF PolicyTimesOut
<1>4. ASSUME NEW c \in Callers, Unclaimed(c) PROVE Goal
  BY <1>4, <1>a, <1>c DEF Unclaimed
<1>5. ASSUME NEW c \in Callers, Authority(c) PROVE Goal
  <2>1. UNCHANGED engine \/ (eval' = [eval EXCEPT ![c] = Idle] /\ UNCHANGED <<active, cache, deniedFor>>)
    BY <1>5 DEF Authority, engine
  <2> QED
    BY <2>1, <1>a, <1>b, <1>c
<1>6. ASSUME NEW c \in Callers, Dispatch(c) PROVE Goal
  BY <1>6, <1>a, <1>c DEF Dispatch
<1>7. ASSUME NEW c \in Callers, AppendRecord(c) PROVE Goal
  BY <1>7, <1>b DEF AppendRecord
<1>8. ASSUME NEW c \in Callers, EvalStep(c) PROVE Goal
  BY <1>8, RecentEval
<1>9. ASSUME NEW policies \in SUBSET Policies, ChangePolicies(policies) PROVE Goal
  BY <1>9, RecentChange
<1>10. ASSUME EngineTick PROVE Goal
  BY <1>10, RecentTick
<1>11. ASSUME EngineRestart PROVE Goal
  <2>1. \A c \in Callers :
          eval'[c] = IF Busy(c) /\ eval[c].pc # "answered"
                     THEN [eval[c] EXCEPT !.pc = "answered", !.answer = "error"] ELSE eval[c]
    BY <1>11 DEF EngineRestart
  <2>2. \A c \in Callers : Busy(c) =>
          LET e == [eval[c] EXCEPT !.pc = "answered", !.answer = "error"]
          IN e.pc = "answered" /\ e.answer = "error"
    BY <1>t, BusyTyped DEF Evaluations
  <2> QED
    BY <1>11, <2>1, <2>2, RecentKept DEF EngineRestart
<1>12. ASSUME NEW new \in Ranks, SetRank(new) PROVE Goal
  BY <1>12, <1>b DEF SetRank
<1>13. ASSUME Restart PROVE Goal
  BY <1>13, <1>b DEF Restart
<1>14. ASSUME UNCHANGED vars PROVE Goal
  BY <1>14, <1>b DEF vars
<1> HIDE DEF Goal
<1> QED
  <2>1. Goal
    BY <1>1, <1>2, <1>3, <1>4, <1>5, <1>6, <1>7, <1>8, <1>9, <1>10, <1>11, <1>12,
       <1>13, <1>14 DEF Next, InvokeStep
  <2> QED BY <2>1 DEF Goal

-----------------------------------------------------------------------------
(* The stages of an invocation. *)

\* Nothing but its own steps moves a caller's invocation on.
LEMMA StageStep ==
  ASSUME Inv, TypeOK', [Next]_vars
  PROVE  StageFitsEval' /\ StageFitsRecord' /\ SeatSeen' /\ TrailTruthful'
<1> DEFINE Goal == StageFitsEval' /\ StageFitsRecord' /\ SeatSeen' /\ TrailTruthful'
<1> USE DEF StageFitsEval, StageFitsRecord, SeatSeen, TrailTruthful
<1>t. TypeOK
  BY DEF Inv
<1>s. StageFitsEval /\ StageFitsRecord /\ SeatSeen /\ TrailTruthful
  BY DEF Inv
<1>i. ~(Idle # Idle)
  OBVIOUS
\* Steps that leave the funnel alone keep what it waits for.
<1>e. ASSUME UNCHANGED funnel,
             \A c \in Callers : Busy(c)' <=> Busy(c),
             \A c \in Callers : eval[c].pc = "answered" =>
               eval'[c].pc = "answered" /\ eval'[c].answer = eval[c].answer
      PROVE  Goal
  BY <1>e, <1>s DEF funnel
<1>1. ASSUME NEW c \in Callers, NEW r \in Requests, Submit(c, r) PROVE Goal
  <2>1. CASE Refuse(c) /\ UNCHANGED engine
    BY <1>1, <2>1, <1>t, <1>s DEF Submit, Refuse, Stage, WriteRecord, engine, TypeOK, Busy
  <2>2. CASE ~(Refuse(c) /\ UNCHANGED engine)
    <3>1. /\ Ask(c, r) /\ Stage(c, "policy") /\ inv[c] = "new"
          /\ ranked' = IF rank >= MinRank THEN ranked \cup {c} ELSE ranked
          /\ UNCHANGED <<record, trail, rank, performed>>
      BY <1>1, <2>2 DEF Submit
    <3>2. /\ eval'[c] = Evaluation("get", r, {}, "none", 0)
          /\ \A d \in Callers : d # c => eval'[d] = eval[d]
      BY <3>1, <1>t DEF Ask, TypeOK
    <3>3. Busy(c)'
      <4>1. eval'[c].pc = "get" /\ Idle.pc = "idle"
        BY <3>2 DEF Evaluation, Idle
      <4> QED BY <4>1 DEF Busy
    <3>4. \A d \in Callers : d # c => (Busy(d)' <=> Busy(d))
      BY <3>2 DEF Busy
    <3> QED
      BY <3>1, <3>2, <3>3, <3>4, <1>t, <1>s DEF Stage, TypeOK
  <2> QED
    BY <2>1, <2>2
\* A refused caller, whose evaluation may be taken back.
<1>r. ASSUME NEW c \in Callers, Refuse(c), UNCHANGED <<rank, performed>>,
             inv[c] \in {"policy", "authority", "dispatch"},
             eval' \in {eval, [eval EXCEPT ![c] = Idle]}
      PROVE  Goal
  <2>1. \A d \in Callers : d # c => eval'[d] = eval[d]
    BY <1>r, <1>t DEF TypeOK
  <2>2. \A d \in Callers : d # c => (Busy(d)' <=> Busy(d))
    BY <2>1 DEF Busy
  <2> QED
    BY <1>r, <2>1, <2>2, <1>t, <1>s DEF Refuse, Stage, WriteRecord, TypeOK
<1>2. ASSUME NEW c \in Callers, PolicyAnswer(c) PROVE Goal
  <2>1. CASE Permits(eval[c].answer)
    BY <1>2, <2>1, <1>t, <1>s DEF PolicyAnswer, Permits, Stage, TypeOK, Busy
  <2>2. CASE ~Permits(eval[c].answer)
    BY <1>2, <2>2, <1>r DEF PolicyAnswer
  <2> QED BY <2>1, <2>2
<1>3. ASSUME NEW c \in Callers, PolicyTimesOut(c) PROVE Goal
  BY <1>3, <1>r DEF PolicyTimesOut, engine
<1>4. ASSUME NEW c \in Callers, Unclaimed(c) PROVE Goal
  <2>1. \A d \in Callers : d # c => eval'[d] = eval[d]
    BY <1>4, <1>t DEF Unclaimed, TypeOK
  <2>2. \A d \in Callers : d # c => (Busy(d)' <=> Busy(d))
    BY <2>1 DEF Busy
  <2> QED
    BY <1>4, <2>1, <2>2, <1>s DEF Unclaimed, funnel
<1>5. ASSUME NEW c \in Callers, Authority(c) PROVE Goal
  <2>1. PICK seat \in Seats :
          IF seat < MinRank
          THEN Refuse(c) /\ eval' = [eval EXCEPT ![c] = Idle]
          ELSE Stage(c, "dispatch") /\ UNCHANGED <<eval, record, trail, ranked>>
    BY <1>5 DEF Authority
  <2>2. CASE seat < MinRank
    BY <1>5, <2>1, <2>2, <1>r DEF Authority
  <2>3. CASE ~(seat < MinRank)
    <3>1. rank \in Nat /\ MinRank \in Nat /\ seat \in {0, rank}
      BY <1>t, FunnelAssumption DEF TypeOK, Seats
    <3>2. rank >= MinRank
      BY <2>3, <3>1
    <3>3. c \in ranked
      BY <1>5, <3>2, <1>s DEF Authority
    <3> QED
      BY <1>5, <2>1, <2>3, <3>3, <1>t, <1>s DEF Authority, Stage, TypeOK, Busy
  <2> QED BY <2>2, <2>3
<1>6. ASSUME NEW c \in Callers, Dispatch(c) PROVE Goal
  <2>1. CASE Refuse(c) /\ UNCHANGED performed
    BY <1>6, <2>1, <1>r DEF Dispatch
  <2>2. CASE ~(Refuse(c) /\ UNCHANGED performed)
    <3>1. /\ Stage(c, "append") /\ performed' = performed \cup {c}
          /\ ranked' = ranked \ {c} /\ UNCHANGED <<record, trail, rank>>
          /\ eval' = [eval EXCEPT ![c] = Idle] /\ inv[c] = "dispatch"
      BY <1>6, <2>2 DEF Dispatch
    <3>2. eval'[c] = Idle /\ \A d \in Callers : d # c => eval'[d] = eval[d]
      BY <3>1, <1>t DEF TypeOK
    <3>3. ~Busy(c)' /\ \A d \in Callers : d # c => (Busy(d)' <=> Busy(d))
      BY <3>2 DEF Busy
    <3> QED
      BY <3>1, <3>2, <3>3, <1>t, <1>s DEF Stage, TypeOK
  <2> QED BY <2>1, <2>2
<1>7. ASSUME NEW c \in Callers, AppendRecord(c) PROVE Goal
  BY <1>7, <1>t, <1>s DEF AppendRecord, Recorded, Stage, WriteRecord, engine, TypeOK, Busy
<1>8. ASSUME NEW c \in Callers, EvalStep(c), UNCHANGED funnel PROVE Goal
  <2>1. eval[c] \in Evaluations /\ eval[c].pc \in {"get", "read", "decide"}
    BY <1>8, <1>t, BusyTyped DEF EvalStep, CacheGet, ListActive, Decide
  <2>2. \A d \in Callers : d # c => eval'[d] = eval[d]
    BY <1>8, <1>t DEF EvalStep, CacheGet, ListActive, Decide, TypeOK
  <2>3. eval'[c].pc \in {"read", "decide", "answered"}
    BY <1>8, <2>1, <1>t DEF EvalStep, CacheGet, ListActive, Decide, TypeOK, Evaluations
  <2>4. Busy(c) /\ Busy(c)'
    BY <2>1, <2>3 DEF Busy, Idle
  <2>5. \A d \in Callers : d # c => (Busy(d)' <=> Busy(d))
    BY <2>2 DEF Busy
  <2> QED
    BY <1>8, <1>e, <2>1, <2>2, <2>4, <2>5
<1>9. ASSUME NEW policies \in SUBSET Policies, ChangePolicies(policies), UNCHANGED funnel
      PROVE  Goal
  BY <1>9, <1>e DEF ChangePolicies, Busy
<1>10. ASSUME EngineTick, UNCHANGED funnel PROVE Goal
  <2>1. \A c \in Callers :
          eval'[c] = IF Busy(c) THEN [eval[c] EXCEPT !.age = @ + 1] ELSE Idle
    BY <1>10 DEF EngineTick
  <2>2. \A c \in Callers : Busy(c) => eval'[c].pc = eval[c].pc /\ eval'[c].answer = eval[c].answer
                                     /\ eval[c].pc # "idle"
    BY <2>1, <1>t, BusyTyped DEF Evaluations
  <2>3. \A c \in Callers : Busy(c)' <=> Busy(c)
    BY <2>1, <2>2 DEF Busy, Idle
  <2>4. \A c \in Callers : eval[c].pc = "answered" => Busy(c)
    BY DEF Busy, Idle
  <2> QED
    BY <1>10, <1>e, <2>2, <2>3, <2>4
<1>11. ASSUME EngineRestart, UNCHANGED funnel PROVE Goal
  <2>1. \A c \in Callers :
          eval'[c] = IF Busy(c) /\ eval[c].pc # "answered"
                     THEN [eval[c] EXCEPT !.pc = "answered", !.answer = "error"] ELSE eval[c]
    BY <1>11 DEF EngineRestart
  <2>2. \A c \in Callers : Busy(c) => eval'[c].pc = "answered"
    BY <2>1, <1>t, BusyTyped DEF Evaluations
  <2>3. \A c \in Callers : Busy(c)' <=> Busy(c)
    <3>1. \A c \in Callers : ~Busy(c) => eval'[c] = Idle
      BY <2>1 DEF Busy
    <3> QED
      BY <2>2, <3>1 DEF Busy, Idle
  <2>4. \A c \in Callers : eval[c].pc = "answered" =>
          eval'[c].pc = "answered" /\ eval'[c].answer = eval[c].answer
    BY <2>1
  <2> QED
    BY <1>11, <1>e, <2>3, <2>4
<1>12. ASSUME NEW new \in Ranks, SetRank(new) PROVE Goal
  BY <1>12, <1>s DEF SetRank, engine, Busy
<1>13. ASSUME Restart PROVE Goal
  BY <1>13, <1>t, <1>s DEF Restart, engine, Busy, TypeOK
<1>14. ASSUME UNCHANGED vars PROVE Goal
  BY <1>14, <1>e DEF vars, engine, Busy
<1> HIDE DEF Goal
<1> QED
  <2>1. Goal
    BY <1>1, <1>2, <1>3, <1>4, <1>5, <1>6, <1>7, <1>8, <1>9, <1>10, <1>11, <1>12,
       <1>13, <1>14 DEF Next, InvokeStep
  <2> QED BY <2>1 DEF Goal

-----------------------------------------------------------------------------
(* The theorems. *)

\* The inductive invariant of the funnel and the engine holds for every set of
\* policies, lifetime of entries, duration of evaluations and set of callers.
THEOREM FunnelInvariant == Spec => []Inv
<1>1. Init => Inv
  <2> SUFFICES ASSUME Init PROVE Inv
    OBVIOUS
  <2>1. TypeOK
    BY TypeInit
  <2>2. AllowedNow /\ ReadIsRecent /\ EntryIsRecent /\ AnswerIsRecent
    BY DEF Init, EngineInit, AllowedNow, ReadIsRecent, EntryIsRecent, AnswerIsRecent,
           NoEntry, Idle
  <2>3. StageFitsEval /\ StageFitsRecord /\ SeatSeen /\ TrailTruthful
    BY DEF Init, EngineInit, StageFitsEval, StageFitsRecord, SeatSeen, TrailTruthful, Busy
  <2> QED
    BY <2>1, <2>2, <2>3 DEF Inv
<1>2. Inv /\ [Next]_vars => Inv'
  <2> SUFFICES ASSUME Inv, [Next]_vars PROVE Inv'
    OBVIOUS
  <2>1. TypeOK'
    BY TypeStep DEF Inv
  <2> QED
    BY <2>1, RecentStep, StageStep DEF Inv
<1> QED
  BY <1>1, <1>2, PTL DEF Spec

\* Every variable of the engine and the funnel keeps its type.
THEOREM FunnelTypeCorrect == Spec => []TypeOK
<1>1. Inv => TypeOK
  BY DEF Inv
<1> QED
  BY FunnelInvariant, <1>1, PTL

\* No answer "allow" rests on policies older than a lifetime of a cache entry
\* and two evaluations.
THEOREM AllowAlwaysFresh == Spec => []FreshAllow
<1>1. Inv => FreshAllow
  <2> SUFFICES ASSUME Inv, NEW c \in Callers,
                      Busy(c), eval[c].pc = "answered", eval[c].answer = "allow"
               PROVE  deniedFor[eval[c].of] <= StaleBound
    BY DEF FreshAllow
  <2>1. eval[c] \in Evaluations
    BY BusyTyped DEF Inv
  <2>2. eval[c].age \in 0 .. MaxEval /\ deniedFor[eval[c].of] \in Nat
    BY <2>1, BoundsTyped DEF Evaluations, Inv, TypeOK
  <2> QED
    BY <2>2, BoundsTyped DEF Inv, AnswerIsRecent, StaleBound
<1> QED
  BY FunnelInvariant, <1>1, PTL

\* The trail never claims what was not performed, nor leaves out what a living
\* process performed.
THEOREM TrailAlwaysTruthful == Spec => []TrailTruthful
<1>1. Inv => TrailTruthful
  BY DEF Inv
<1> QED
  BY FunnelInvariant, <1>1, PTL

-----------------------------------------------------------------------------
(* An invocation implements InvocationContract. *)

\* Steps that tell nobody anything and perform nothing only change what is known.
LEMMA LearnRefines ==
  ASSUME NEW c \in Callers,
         inv'[c] \notin {"new", "over"} <=> inv[c] \notin {"new", "over"},
         record'[c] = record[c],
         c \in performed' <=> c \in performed,
         c \in trail' <=> c \in trail
  PROVE  IC(c)!Next
<1>1. /\ (inv'[c] \notin {"new", "over"}) = (inv[c] \notin {"new", "over"})
      /\ (c \in performed') = (c \in performed)
      /\ (c \in trail') = (c \in trail)
  OBVIOUS
<1>2. IC(c)!Learn
  BY <1>1 DEF IC!Learn
<1> QED
  BY <1>2 DEF IC!Next

\* The caller gets its answer.
LEMMA TellRefines ==
  ASSUME NEW c \in Callers, TypeOK, record[c] = "none",
         record'[c] = IF c \in performed THEN "completed" ELSE "refused",
         inv'[c] = "over",
         c \in performed' <=> c \in performed
  PROVE  IC(c)!Next
<1>1. /\ (inv'[c] \notin {"new", "over"}) = FALSE
      /\ (c \in performed') = (c \in performed)
      /\ (c \in trail') \in BOOLEAN
  OBVIOUS
<1>2. IC(c)!Tell
  BY <1>1 DEF IC!Tell
<1> QED
  BY <1>2 DEF IC!Next

LEMMA RefuseRefines ==
  ASSUME Inv, NEW c \in Callers, Refuse(c), inv[c] \in {"new", "policy", "authority", "dispatch"},
         performed' = performed
  PROVE  IC(c)!Next
<1>1. record[c] = "none" /\ c \notin performed
  BY DEF Inv, StageFitsRecord
<1>2. inv'[c] = "over" /\ record'[c] = "refused"
  BY DEF Refuse, Stage, WriteRecord, Inv, TypeOK
<1> QED
  BY <1>1, <1>2, TellRefines DEF Inv

\* An action is performed under a licence.
LEMMA DispatchLicensed ==
  ASSUME Inv, NEW c \in Callers, inv[c] = "dispatch"
  PROVE  Licensed(c)
<1>1. eval[c].pc = "answered" /\ eval[c].answer = "allow" /\ c \in ranked
  BY DEF Inv, StageFitsEval, SeatSeen
<1>2. eval[c] \in Evaluations
  BY <1>1, BusyTyped DEF Inv
<1>3. eval[c].age \in 0 .. MaxEval /\ deniedFor[eval[c].of] \in Nat
  BY <1>2, BoundsTyped DEF Evaluations, Inv, TypeOK
<1>4. deniedFor[eval[c].of] <= TTL + MaxEval + eval[c].age
  BY <1>1 DEF Inv, AnswerIsRecent
<1> QED
  BY <1>1, <1>3, <1>4, BoundsTyped DEF StaleBound, Licensed

\* A step of another caller's invocation.
LEMMA OtherCaller ==
  ASSUME TypeOK, NEW c \in Callers, NEW d \in Callers, c # d,
         \/ \E r \in Requests : Submit(d, r)
         \/ InvokeStep(d)
  PROVE  /\ inv'[c] = inv[c] /\ record'[c] = record[c]
         /\ c \in performed' <=> c \in performed
         /\ c \in trail' <=> c \in trail
<1>1. ASSUME NEW r \in Requests, Submit(d, r)
      PROVE  /\ inv'[c] = inv[c] /\ record'[c] = record[c]
             /\ performed' = performed /\ trail' \in {trail, trail \cup {d}}
  BY <1>1 DEF Submit, Refuse, WriteRecord, Stage, TypeOK
<1>2. ASSUME InvokeStep(d)
      PROVE  /\ inv'[c] = inv[c] /\ record'[c] = record[c]
             /\ performed' \in {performed, performed \cup {d}}
             /\ trail' \in {trail, trail \cup {d}}
  BY <1>2
  DEF InvokeStep, PolicyAnswer, PolicyTimesOut, Unclaimed, Authority, Dispatch, AppendRecord,
      Recorded, Refuse, WriteRecord, Stage, TypeOK, funnel
<1> QED
  BY <1>1, <1>2

\* A step of the caller's own invocation.
LEMMA OwnStepRefines ==
  ASSUME Inv, NEW c \in Callers,
         \/ \E r \in Requests : Submit(c, r)
         \/ InvokeStep(c)
  PROVE  IC(c)!Next
<1>t. inv \in [Callers -> Stages] /\ record \in [Callers -> Statuses]
  BY DEF Inv, TypeOK
<1>1. ASSUME NEW r \in Requests, Submit(c, r)
      PROVE  IC(c)!Next
  <2>1. CASE Refuse(c)
    BY <1>1, <2>1, RefuseRefines DEF Submit
  <2>2. CASE ~Refuse(c)
    <3>1. inv[c] = "new" /\ inv'[c] = "policy" /\ UNCHANGED <<record, trail, performed>>
      BY <1>1, <1>t, <2>2 DEF Submit, Stage
    <3>2. record[c] = "none"
      BY <3>1 DEF Inv, StageFitsRecord
    <3>3. /\ (inv[c] \notin {"new", "over"}) = FALSE
          /\ (inv'[c] \notin {"new", "over"}) = TRUE
      BY <3>1
    <3>4. IC(c)!Submit
      BY <3>1, <3>2, <3>3 DEF IC!Submit
    <3> QED BY <3>4 DEF IC!Next
  <2> QED BY <2>1, <2>2
<1>2. CASE PolicyAnswer(c)
  <2>1. CASE Refuse(c)
    BY <1>2, <2>1, RefuseRefines DEF PolicyAnswer
  <2>2. CASE ~Refuse(c)
    <3>1. inv[c] = "policy" /\ inv'[c] = "authority" /\ UNCHANGED <<record, trail, performed>>
      BY <1>2, <1>t, <2>2 DEF PolicyAnswer, Stage
    <3> QED BY <3>1, LearnRefines
  <2> QED BY <2>1, <2>2
<1>3. CASE PolicyTimesOut(c)
  BY <1>3, RefuseRefines DEF PolicyTimesOut
<1>4. CASE Unclaimed(c)
  BY <1>4, LearnRefines DEF Unclaimed, funnel
<1>5. CASE Authority(c)
  <2>1. CASE Refuse(c)
    BY <1>5, <2>1, RefuseRefines DEF Authority
  <2>2. CASE ~Refuse(c)
    <3>1. inv[c] = "authority" /\ inv'[c] = "dispatch" /\ UNCHANGED <<record, trail, performed>>
      BY <1>5, <1>t, <2>2 DEF Authority, Stage
    <3> QED BY <3>1, LearnRefines
  <2> QED BY <2>1, <2>2
<1>6. CASE Dispatch(c)
  <2>1. CASE Refuse(c) /\ UNCHANGED performed
    BY <1>6, <2>1, RefuseRefines DEF Dispatch
  <2>2. CASE ~(Refuse(c) /\ UNCHANGED performed)
    <3>1. /\ inv[c] = "dispatch" /\ inv'[c] = "append" /\ UNCHANGED <<record, trail>>
          /\ c \in performed'
      BY <1>6, <1>t, <2>2 DEF Dispatch, Stage
    <3>2. c \notin performed
      BY <3>1 DEF Inv, StageFitsRecord
    <3>3. /\ (inv'[c] \notin {"new", "over"}) = (inv[c] \notin {"new", "over"})
          /\ (c \in performed') = TRUE
      BY <3>1
    <3>4. IC(c)!Perform
      BY <3>1, <3>2, <3>3, DispatchLicensed DEF IC!Perform
    <3> QED BY <3>4 DEF IC!Next
  <2> QED BY <2>1, <2>2
<1>7. CASE AppendRecord(c)
  <2>1. inv[c] = "append" /\ inv'[c] = "over" /\ record'[c] = "completed" /\ performed' = performed
    BY <1>7, <1>t DEF AppendRecord, Recorded, WriteRecord, Stage
  <2>2. c \in performed /\ record[c] = "none"
    BY <2>1 DEF Inv, StageFitsRecord
  <2> QED BY <2>1, <2>2, TellRefines DEF Inv
<1> QED
  BY <1>1, <1>2, <1>3, <1>4, <1>5, <1>6, <1>7 DEF InvokeStep

\* The funnel's process dies.
LEMMA RestartRefines ==
  ASSUME Inv, NEW c \in Callers, Restart
  PROVE  IC(c)!Next
<1>1. /\ inv'[c] = IF inv[c] = "new" THEN "new" ELSE "over"
      /\ record'[c] = IF inv[c] = "new" \/ c \in trail THEN record[c] ELSE "lost"
      /\ UNCHANGED <<trail, performed>>
  BY DEF Restart
<1>2. CASE inv[c] = "new" \/ c \in trail
  <2>1. inv[c] = "new" \/ inv[c] = "over"
    BY <1>2 DEF Inv, StageFitsRecord
  <2> QED BY <1>1, <1>2, <2>1, LearnRefines
<1>3. CASE inv[c] # "new" /\ c \notin trail
  <2>1. inv[c] \notin {"new", "over"} \/ record[c] # "none"
    BY <1>3 DEF Inv, TrailTruthful
  <2>2. (inv'[c] \notin {"new", "over"}) = FALSE
    BY <1>1, <1>3
  <2>3. IC(c)!Lose
    BY <1>1, <1>3, <2>1, <2>2 DEF IC!Lose
  <2> QED BY <2>3 DEF IC!Next
<1> QED
  BY <1>2, <1>3

\* Every invocation implements InvocationContract, for every set of policies,
\* lifetime of entries, duration of evaluations, rank and set of callers: its
\* action is performed at most once, under a licence and before its caller has an
\* answer, and what the caller is told is what was done.
THEOREM InvocationsImplementContract == Spec => ImplementsInvocationContract
<1>1. Init => \A c \in Callers : IC(c)!Init
  BY DEF Init, IC!Init
<1>2. ASSUME Inv, [Next]_vars
      PROVE  \A c \in Callers : [IC(c)!Next]_(IC(c)!view)
  <2> SUFFICES ASSUME NEW c \in Callers PROVE IC(c)!Next
    OBVIOUS
  <2>1. ASSUME NEW d \in Callers,
               (\E r \in Requests : Submit(d, r)) \/ InvokeStep(d)
        PROVE  IC(c)!Next
    <3>1. CASE d = c
      BY <1>2, <2>1, <3>1, OwnStepRefines
    <3>2. CASE d # c
      BY <1>2, <2>1, <3>2, OtherCaller, LearnRefines DEF Inv
    <3> QED BY <3>1, <3>2
  <2>2. CASE UNCHANGED funnel \/ \E new \in Ranks : SetRank(new)
    BY <2>2, LearnRefines DEF funnel, SetRank
  <2>3. CASE Restart
    BY <1>2, <2>3, RestartRefines
  <2>4. CASE UNCHANGED vars
    BY <2>2, <2>4 DEF vars
  <2> QED BY <1>2, <2>1, <2>2, <2>3, <2>4 DEF Next
<1>3. ASSUME Inv, [Next]_vars
      PROVE  [\A c \in Callers : [IC(c)!Next]_(IC(c)!view)]_vars
  BY <1>2, <1>3
<1> QED
  BY <1>1, <1>3, FunnelInvariant, PTL DEF Spec, ImplementsInvocationContract

-----------------------------------------------------------------------------
(* The decision. *)

\* Evaluate's loop over the rows in the order of their priorities (the order of
\* equal ones is open) decides by the highest allow or deny policy, for every finite set
\* of policies, every priority and whatever policies come into force.
THEOREM DecisionByPriority == Spec => []DecidesByPriority
<1>1. TypeOK => DecidesByPriority
  <2> SUFFICES ASSUME TypeOK, NEW r \in Requests
               PROVE  Outcomes(active, r) = ByPriority(active, r)
    BY DEF DecidesByPriority
  <2>1. active \subseteq Policy /\ IsFiniteSet(active)
    BY PolicyAssumption, FS_Subset DEF TypeOK
  <2> QED
    BY <2>1, DecidesByPriorityOver
<1> QED
  BY <1>1, FunnelTypeCorrect, PTL
=============================================================================
