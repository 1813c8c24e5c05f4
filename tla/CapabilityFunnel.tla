-------------------------- MODULE CapabilityFunnel --------------------------
(***************************************************************************)
(* The capability funnel (module 08): the one path of every action an      *)
(* agent performs, over the policy engine of module 10 and the org chart   *)
(* of module 05, while tiers and policies change.  A caller may find any   *)
(* binding of its capability to a provider, as these change at any time.   *)
(*                                                                         *)
(* A caller is one POST /invoke; it asks the engine once.                  *)
(***************************************************************************)
EXTENDS PolicyEngine

CONSTANTS
  Ranks,    \* autonomy ranks a seat may have in an instance
  MinRank   \* rank of the capability's min_autonomy

ASSUME FunnelAssumption == Ranks \subseteq Nat /\ MinRank \in Nat

VARIABLES
  inv,        \* caller -> stage of its invocation
  rank,       \* rank of the seat in module 05
  record,     \* caller -> its invocation record
  trail,      \* callers whose record is in the database
  performed,  \* callers whose action was executed
  ranked      \* callers on their way whose seat has had the rank since they came

funnel == <<inv, rank, record, trail, performed, ranked>>
vars == <<engine, funnel>>

\* "refused" stands for blocked_no_binding, invalid_input, denied_policy,
\* denied_authority and failed; a "lost" record died with the process.
Statuses == {"none", "lost", "completed", "refused"}
Stages == {"new", "policy", "authority", "dispatch", "append", "over"}

Init ==
  /\ EngineInit
  /\ inv = [c \in Callers |-> "new"]
  /\ rank \in Ranks
  /\ record = [c \in Callers |-> "none"]
  /\ trail = {} /\ performed = {} /\ ranked = {}

-----------------------------------------------------------------------------
(* Invoke. *)

Stage(c, stage) == inv' = [inv EXCEPT ![c] = stage]

\* The record is appended in memory and inserted into the database, which may
\* fail.
WriteRecord(c, status) ==
  /\ record' = [record EXCEPT ![c] = status]
  /\ trail' \in {trail, trail \cup {c}}

Refuse(c) == Stage(c, "over") /\ WriteRecord(c, "refused") /\ ranked' = ranked \ {c}

\* Without an enabled binding to an active provider, or with invalid input, the
\* caller is refused; else the engine is asked.
Submit(c, r) ==
  /\ inv[c] = "new"
  /\ \/ Refuse(c) /\ UNCHANGED engine
     \/ /\ Ask(c, r)
        /\ Stage(c, "policy")
        /\ ranked' = IF rank >= MinRank THEN ranked \cup {c} ELSE ranked
        /\ UNCHANGED <<record, trail>>
  /\ UNCHANGED <<rank, performed>>

\* Faulty: an engine that fails to answer stops nothing.
FaultyPermits(answer) == answer \in {"allow", "error"}

Permits(answer) == answer = "allow"

PolicyAnswer(c) ==
  /\ inv[c] = "policy" /\ eval[c].pc = "answered"
  /\ IF Permits(eval[c].answer)
     THEN Stage(c, "authority") /\ UNCHANGED <<eval, record, trail, ranked>>
     ELSE Refuse(c) /\ eval' = [eval EXCEPT ![c] = Idle]
  /\ UNCHANGED <<active, cache, deniedFor, rank, performed>>

\* The client waits 5 s; the engine goes on and fills its cache.
PolicyTimesOut(c) ==
  /\ inv[c] = "policy"
  /\ Refuse(c)
  /\ UNCHANGED <<engine, rank, performed>>

\* The answer to a caller that has gone.
Unclaimed(c) ==
  /\ inv[c] = "over" /\ Busy(c) /\ eval[c].pc = "answered"
  /\ eval' = [eval EXCEPT ![c] = Idle]
  /\ UNCHANGED <<active, cache, deniedFor, funnel>>

\* A seat that module 05 does not resolve has rank 0.
Seats == {0, rank}

\* The seat is resolved live.
Authority(c) ==
  /\ inv[c] = "authority"
  /\ \E seat \in Seats :
       IF seat < MinRank
       THEN Refuse(c) /\ eval' = [eval EXCEPT ![c] = Idle]
       ELSE Stage(c, "dispatch") /\ UNCHANGED <<eval, record, trail, ranked>>
  /\ UNCHANGED <<active, cache, deniedFor, rank, performed>>

\* The provider executes, or fails: no provider but the simulated one executes.
Dispatch(c) ==
  /\ inv[c] = "dispatch"
  /\ \/ /\ Stage(c, "append")
        /\ performed' = performed \cup {c}
        /\ ranked' = ranked \ {c}
        /\ UNCHANGED <<record, trail>>
     \/ Refuse(c) /\ UNCHANGED performed
  /\ eval' = [eval EXCEPT ![c] = Idle]
  /\ UNCHANGED <<active, cache, deniedFor, rank>>

Recorded(c) == WriteRecord(c, "completed")

AppendRecord(c) ==
  /\ inv[c] = "append"
  /\ Stage(c, "over")
  /\ Recorded(c)
  /\ UNCHANGED <<engine, rank, performed, ranked>>

InvokeStep(c) ==
  \/ PolicyAnswer(c) \/ PolicyTimesOut(c) \/ Unclaimed(c) \/ Authority(c)
  \/ Dispatch(c) \/ AppendRecord(c)

-----------------------------------------------------------------------------
(* Changes from outside. *)

\* A PATCH of the department replaces its org chart in module 05, and with it a
\* seat's tier or holder.
SetRank(new) ==
  /\ rank # new
  /\ rank' = new
  /\ ranked' = IF new >= MinRank
               THEN ranked \cup {c \in Callers : inv[c] \in {"policy", "authority"}}
               ELSE ranked
  /\ UNCHANGED <<engine, inv, record, trail, performed>>

\* The funnel's process dies; what is in the database comes back.
Restart ==
  /\ inv' = [c \in Callers |-> IF inv[c] = "new" THEN "new" ELSE "over"]
  /\ record' = [c \in Callers |->
       IF inv[c] = "new" \/ c \in trail THEN record[c] ELSE "lost"]
  /\ ranked' = {}
  /\ UNCHANGED <<engine, rank, trail, performed>>

Next ==
  \/ \E c \in Callers :
       \/ (\E r \in Requests : Submit(c, r)) \/ InvokeStep(c)
       \/ EvalStep(c) /\ UNCHANGED funnel
  \/ (\E policies \in SUBSET Policies : ChangePolicies(policies)) /\ UNCHANGED funnel
  \/ EngineTick /\ UNCHANGED funnel
  \/ EngineRestart /\ UNCHANGED funnel
  \/ (\E new \in Ranks : SetRank(new))
  \/ Restart

Spec == Init /\ [][Next]_vars
=============================================================================
