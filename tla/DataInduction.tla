--------------------------- MODULE DataInduction ---------------------------
(***************************************************************************)
(* Induction without an operator for the hypothesis: a set of exceptions   *)
(* that is not empty has a smallest member, which is then refuted.  Sets   *)
(* of finite sets are ordered by inclusion, which the library shows to be  *)
(* well founded.                                                           *)
(***************************************************************************)
EXTENDS Integers, FiniteSets, Sequences, Functions, WellFoundedInduction,
        FiniteSetTheorems, TLAPS

\* Every nonempty set of finite sets has a minimal element.
LEMMA MinimalSet ==
  ASSUME NEW S, NEW T, T # {}, T \subseteq FiniteSubsetsOf(S)
  PROVE  \E m \in T : \A t \in T : t \subseteq m => t = m
<1>1. \E m \in T : \A t \in T : <<t, m>> \notin StrictSubsetOrdering(S)
  BY FS_StrictSubsetOrderingWellFounded, WFMin
<1> QED
  BY <1>1 DEF StrictSubsetOrdering, FiniteSubsetsOf

\* Every nonempty set of natural numbers has a least element.
LEMMA LeastNatural ==
  ASSUME NEW T \in SUBSET Nat, T # {}
  PROVE  \E m \in T : \A k \in T : m <= k
<1> DEFINE Below == {0 .. k : k \in T}
<1>1. \A k \in T : 0 .. k \in FiniteSubsetsOf(Nat)
  BY FS_Interval DEF FiniteSubsetsOf
<1>2. PICK b \in Below : \A t \in Below : t \subseteq b => t = b
  <2>1. Below # {} /\ Below \subseteq FiniteSubsetsOf(Nat)
    BY <1>1
  <2> HIDE DEF Below
  <2> QED
    BY <2>1, MinimalSet
<1>3. PICK m \in T : b = 0 .. m
  OBVIOUS
<1>4. ASSUME NEW k \in T, k < m PROVE FALSE
  <2>1. 0 .. k \in Below /\ 0 .. k \subseteq b /\ 0 .. k # b
    <3>1. 0 .. k \subseteq b /\ m \in b /\ m \notin 0 .. k
      BY <1>3, <1>4
    <3> QED
      BY <3>1
  <2> QED
    BY <1>2, <2>1
<1> QED
  BY <1>4

\* Among finitely many elements one has the least weight.
LEMMA LeastWeight ==
  ASSUME NEW S, IsFiniteSet(S), NEW w \in [S -> Int], S # {}
  PROVE  \E m \in S : \A x \in S : w[m] <= w[x]
<1> DEFINE Bad == {X \in SUBSET S : X # {} /\ ~ \E m \in X : \A x \in X : w[m] <= w[x]}
<1> SUFFICES ASSUME Bad # {} PROVE FALSE
  OBVIOUS
<1>1. PICK X \in Bad : \A Y \in Bad : Y \subseteq X => Y = X
  <2>1. Bad \subseteq FiniteSubsetsOf(S)
    BY FS_Subset DEF FiniteSubsetsOf
  <2> HIDE DEF Bad
  <2> QED
    BY <2>1, MinimalSet
<1>2. PICK x \in X : TRUE
  OBVIOUS
<1>3. X \ {x} \notin Bad
  BY <1>1, <1>2
<1>4. CASE X \ {x} = {}
  <2>1. X = {x} /\ w[x] \in Int
    BY <1>4
  <2> QED
    BY <2>1
<1>5. CASE X \ {x} # {}
  <2>1. PICK m \in X \ {x} : \A y \in X \ {x} : w[m] <= w[y]
    BY <1>3, <1>5
  <2>2. w[m] \in Int /\ w[x] \in Int /\ \A y \in X : w[y] \in Int
    OBVIOUS
  <2>3. CASE w[m] <= w[x]
    BY <2>1, <2>2, <2>3
  <2>4. CASE w[x] < w[m]
    BY <2>1, <2>2, <2>4
  <2> QED
    BY <2>2, <2>3, <2>4
<1> QED
  BY <1>4, <1>5

\* s lists the elements of X, each once, by decreasing weight.
Ranking(s, X, w) ==
  /\ s \in [1 .. Cardinality(X) -> X]
  /\ \A i, k \in 1 .. Cardinality(X) : i < k => s[i] # s[k] /\ w[s[i]] >= w[s[k]]

\* Every finite set can be listed so.
LEMMA RankingExists ==
  ASSUME NEW S, IsFiniteSet(S), NEW w \in [S -> Int]
  PROVE  \E s : Ranking(s, S, w)
<1> DEFINE Bad == {X \in SUBSET S : ~ \E s : Ranking(s, X, w)}
<1> SUFFICES ASSUME Bad # {} PROVE FALSE
  OBVIOUS
<1>1. PICK X \in Bad : \A Y \in Bad : Y \subseteq X => Y = X
  <2>1. Bad \subseteq FiniteSubsetsOf(S)
    BY FS_Subset DEF FiniteSubsetsOf
  <2> HIDE DEF Bad
  <2> QED
    BY <2>1, MinimalSet
<1>2. IsFiniteSet(X) /\ X \subseteq S
  BY FS_Subset
<1>3. X # {}
  <2> SUFFICES ASSUME X = {} PROVE FALSE
    OBVIOUS
  <2>1. Cardinality(X) = 0
    BY FS_EmptySet
  <2>2. [i \in {} |-> i] \in [1 .. Cardinality(X) -> X] /\ 1 .. Cardinality(X) = {}
    BY <2>1
  <2>3. Ranking([i \in {} |-> i], X, w)
    BY <2>2 DEF Ranking
  <2> QED
    BY <2>3
<1>4. PICK m \in X : \A x \in X : w[m] <= w[x]
  <2>1. [x \in X |-> w[x]] \in [X -> Int]
    BY <1>2
  <2>2. \E m \in X : \A x \in X : [y \in X |-> w[y]][m] <= [y \in X |-> w[y]][x]
    BY <1>2, <1>3, <2>1, LeastWeight
  <2> QED
    BY <2>2
<1> DEFINE Y == X \ {m}
           n == Cardinality(Y)
<1>5. PICK s : Ranking(s, Y, w)
  BY <1>1
<1>6. n \in Nat /\ Cardinality(X) = n + 1
  <2>1. IsFiniteSet(Y) /\ n = Cardinality(X) - 1
    BY <1>2, FS_RemoveElement
  <2>2. n \in Nat /\ Cardinality(X) \in Nat
    BY <1>2, <2>1, FS_CardinalityType
  <2> QED
    BY <2>1, <2>2
<1> HIDE DEF n
<1>7. /\ s \in [1 .. n -> Y]
      /\ \A i, k \in 1 .. n : i < k => s[i] # s[k] /\ w[s[i]] >= w[s[k]]
  BY <1>5 DEF Ranking, n
<1> DEFINE g == [i \in 1 .. n + 1 |-> IF i <= n THEN s[i] ELSE m]
<1>8. g \in [1 .. n + 1 -> X]
  BY <1>6, <1>7
<1>9. ASSUME NEW i \in 1 .. n + 1, NEW k \in 1 .. n + 1, i < k
      PROVE  g[i] # g[k] /\ w[g[i]] >= w[g[k]]
  <2>1. i \in 1 .. n /\ g[i] = s[i] /\ s[i] \in Y
    BY <1>6, <1>7, <1>9
  <2>2. CASE k <= n
    <3>1. k \in 1 .. n /\ g[k] = s[k]
      BY <1>6, <2>2
    <3> QED
      BY <1>7, <1>9, <2>1, <3>1
  <2>3. CASE k = n + 1
    <3>1. g[k] = m
      BY <1>6, <2>3
    <3>2. w[s[i]] \in Int /\ w[m] \in Int
      BY <1>2, <2>1
    <3> QED
      BY <1>4, <2>1, <3>1, <3>2
  <2> QED
    BY <1>6, <2>2, <2>3
<1>10. Ranking(g, X, w)
  <2> HIDE DEF g
  <2> QED
    BY <1>6, <1>8, <1>9 DEF Ranking
<1> QED
  BY <1>10

\* A list without repetition as long as the set contains every element of it.
LEMMA RankingOnto ==
  ASSUME NEW X, IsFiniteSet(X), NEW s \in [1 .. Cardinality(X) -> X],
         \A i, k \in 1 .. Cardinality(X) : i < k => s[i] # s[k]
  PROVE  \A x \in X : \E i \in 1 .. Cardinality(X) : s[i] = x
<1> DEFINE n == Cardinality(X)
<1>1. n \in Nat
  BY FS_CardinalityType
<1>2. IsFiniteSet(1 .. n) /\ Cardinality(1 .. n) = n
  BY <1>1, FS_Interval
<1>3. s \in Injection(1 .. n, X)
  <2>1. \A i, k \in 1 .. n : s[i] = s[k] => i = k
    BY <1>1
  <2> QED
    BY <2>1 DEF Injection, IsInjective
<1>4. s \in Surjection(1 .. n, X)
  BY <1>2, <1>3, FS_Injection
<1> QED
  BY <1>4 DEF Surjection
=============================================================================
