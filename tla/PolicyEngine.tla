---------------------------- MODULE PolicyEngine ----------------------------
(***************************************************************************)
(* The policy engine (module 10): how policies decide a request, the cache *)
(* of decisions, and evaluations that run while policies change.           *)
(*                                                                         *)
(* Time is counted in ticks.  Instead of instants the model keeps ages: of *)
(* evaluations, of cache entries, and of the time for which the policies   *)
(* in force have not allowed a request.                                    *)
(***************************************************************************)
EXTENDS Integers, Sequences, FiniteSets

CONSTANTS
  Policies,   \* every policy an administrator may activate
  Requests,   \* what callers ask: an agent, a resource and an action
  Callers,    \* concurrent callers of POST /policies/evaluate
  TTL,        \* lifetime of a cache entry, in ticks
  MaxEval     \* bound on the ticks from a question to the use of its answer

ASSUME EngineAssumption == TTL \in Nat /\ MaxEval \in Nat

VARIABLES
  active,     \* policies with is_active
  cache,      \* Engine.cache: request -> decision and ticks it has left
  eval,       \* caller -> its evaluation, until the answer has been used
  deniedFor   \* request -> ticks since the policies in force last allowed it

engine == <<active, cache, eval, deniedFor>>

Effects == {"enforce", "warn", "log"}
Verdicts == {"allow", "deny", "proxy"}

\* typed tells that resource_type is not "all": the handler passes no resource
\* type, so that such a policy never applies below the global scope.  agents
\* and target are the requests its condition and resource target accept.
Policy ==
  [priority : Int, effect : Effects, action : Verdicts,
   scope : {"global", "narrower"}, typed : BOOLEAN, target : SUBSET Requests,
   agents : SUBSET Requests]

\* Policies are rows of a table; priority is an INT column and may be negative.
ASSUME PolicyAssumption == Policies \subseteq Policy /\ IsFiniteSet(Policies)

-----------------------------------------------------------------------------
(* The decision. *)

Applies(p, r) ==
  \/ p.scope = "global"
  \/ ~p.typed /\ r \in p.target

\* One turn of the loop: an enforced allow or deny ends it, proxy does not.
Weigh(decision, p, r) ==
  IF decision.over \/ ~Applies(p, r) \/ r \notin p.agents \/ p.effect # "enforce"
  THEN decision
  ELSE [over |-> p.action # "proxy", verdict |-> p.action]

\* The decision after each turn of the loop over ordered policies.
Loop(ordered, r) ==
  LET after[i \in 0 .. Len(ordered)] ==
        IF i = 0 THEN [over |-> FALSE, verdict |-> "deny"]
        ELSE Weigh(after[i - 1], ordered[i], r)
  IN after

\* Evaluate over policies in the order the database returned them.
Evaluate(ordered, r) == Loop(ordered, r)[Len(ordered)].verdict

\* ORDER BY priority DESC leaves the order of equal priorities open.
Orders(policies) ==
  {s \in [1 .. Cardinality(policies) -> policies] :
     \A i, k \in DOMAIN s : i < k => s[i] # s[k] /\ s[i].priority >= s[k].priority}

Outcomes(policies, r) ==
  {v \in Verdicts : \E s \in Orders(policies) : Evaluate(s, r) = v}

Allowable(policies, r) == "allow" \in Outcomes(policies, r)

-----------------------------------------------------------------------------
(* Evaluations. *)

NoEntry == [verdict |-> "none", left |-> 0]
Entries == [verdict : Verdicts, left : 0 .. TTL] \cup {NoEntry}

\* request, policies and answer mean nothing before they are known.
Idle == [pc |-> "idle"]
Busy(c) == eval[c] # Idle
Evaluations ==
  [pc : {"get", "read", "decide", "answered"}, of : Requests,
   read : SUBSET Policies, answer : Verdicts \cup {"none", "error"},
   age : 0 .. MaxEval]
Evaluation(pc, r, read, answer, age) ==
  [pc |-> pc, of |-> r, read |-> read, answer |-> answer, age |-> age]

EngineInit ==
  /\ active \in SUBSET Policies
  /\ cache = [r \in Requests |-> NoEntry]
  /\ eval = [c \in Callers |-> Idle]
  /\ deniedFor = [r \in Requests |-> 0]

Ask(c, r) ==
  /\ ~Busy(c)
  /\ eval' = [eval EXCEPT ![c] = Evaluation("get", r, {}, "none", 0)]
  /\ UNCHANGED <<active, cache, deniedFor>>

\* The cache answers, or the policies must be read.
CacheGet(c) ==
  /\ eval[c].pc = "get"
  /\ LET entry == cache[eval[c].of] IN
     eval' = [eval EXCEPT
       ![c].pc = IF entry = NoEntry THEN "read" ELSE "answered",
       ![c].answer = entry.verdict]
  /\ UNCHANGED <<active, cache, deniedFor>>

\* Faulty: rows in no order.
FaultyListed(policies) == SUBSET policies

\* The rows come in by falling priority.  A connection that breaks meanwhile ends
\* the list early, and nobody looks at rows.Err.
Listed(policies) ==
  {first \in SUBSET policies :
     \A p \in first, q \in policies \ first : p.priority >= q.priority}

\* ListActiveForTenant; an error of the query answers 500.
ListActive(c) ==
  /\ eval[c].pc = "read"
  /\ \/ \E first \in Listed(active) :
          eval' = [eval EXCEPT ![c].pc = "decide", ![c].read = first]
     \/ eval' = [eval EXCEPT ![c].pc = "answered", ![c].answer = "error"]
  /\ UNCHANGED <<active, cache, deniedFor>>

\* Faulty: twice as long.
FaultyLifetime == 2 * TTL

Lifetime == TTL

\* The decision on what was read goes into the cache with a full lifetime.
Decide(c) ==
  /\ eval[c].pc = "decide"
  /\ \E verdict \in Outcomes(eval[c].read, eval[c].of) :
       /\ cache' = [cache EXCEPT ![eval[c].of] = [verdict |-> verdict, left |-> Lifetime]]
       /\ eval' = [eval EXCEPT ![c].pc = "answered", ![c].answer = verdict]
  /\ UNCHANGED <<active, deniedFor>>

EvalStep(c) == CacheGet(c) \/ ListActive(c) \/ Decide(c)

-----------------------------------------------------------------------------
(* Administrators, time, and restarts. *)

\* The oldest policies an answer in use may rest on: those an evaluation read
\* when it began, that put them into the cache when it ended, for an evaluation
\* that found them there at the end of their lifetime.
StaleBound == TTL + 2 * MaxEval

\* The age of a denial is counted up to one more than the bound.
OneOlder(age) == IF age > StaleBound THEN age ELSE age + 1

\* The ages when these policies are in force.
Since(policies, ages) ==
  [r \in Requests |-> IF Allowable(policies, r) THEN 0 ELSE ages[r]]

\* A policy is created, deleted or updated; no cache entry is invalidated.
ChangePolicies(policies) ==
  /\ policies # active
  /\ active' = policies
  /\ deniedFor' = Since(policies, deniedFor)
  /\ UNCHANGED <<cache, eval>>

Older(entry) ==
  IF entry = NoEntry \/ entry.left = 0 THEN NoEntry
  ELSE [entry EXCEPT !.left = @ - 1]

\* An evaluation that is not over yet has its ticks left.
EngineTick ==
  /\ \A c \in Callers : Busy(c) => eval[c].age < MaxEval
  /\ eval' = [c \in Callers |->
       IF Busy(c) THEN [eval[c] EXCEPT !.age = @ + 1] ELSE Idle]
  /\ cache' = [r \in Requests |-> Older(cache[r])]
  /\ deniedFor' = Since(active, [r \in Requests |-> OneOlder(deniedFor[r])])
  /\ UNCHANGED active

\* The engine's process restarts: the cache is gone, callers get an error.
EngineRestart ==
  /\ cache' = [r \in Requests |-> NoEntry]
  /\ eval' = [c \in Callers |->
       IF Busy(c) /\ eval[c].pc # "answered"
       THEN [eval[c] EXCEPT !.pc = "answered", !.answer = "error"] ELSE eval[c]]
  /\ UNCHANGED <<active, deniedFor>>
=============================================================================
