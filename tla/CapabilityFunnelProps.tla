----------------------- MODULE CapabilityFunnelProps -----------------------
(***************************************************************************)
(* What the policy engine and the capability funnel promise together.      *)
(***************************************************************************)
EXTENDS CapabilityFunnel

TypeOK ==
  /\ active \subseteq Policies
  /\ cache \in [Requests -> Entries]
  /\ eval \in [Callers -> {Idle} \cup Evaluations]
  /\ deniedFor \in [Requests -> 0 .. StaleBound + 1]
  /\ inv \in [Callers -> Stages]
  /\ rank \in Ranks
  /\ record \in [Callers -> Statuses]
  /\ trail \subseteq Callers /\ performed \subseteq Callers /\ ranked \subseteq Callers

\* An answer "allow" rests on policies that allowed the request at most the
\* lifetime of a cache entry and two evaluations ago, although no change of
\* policies touches the cache and a slow evaluation may fill it after one.
FreshAllow ==
  \A c \in Callers :
    (Busy(c) /\ eval[c].pc = "answered" /\ eval[c].answer = "allow")
      => deniedFor[eval[c].of] <= StaleBound

\* The trail says completed of exactly the actions performed; a performed
\* action whose record is missing was performed by a process that has died.
TrailTruthful ==
  \A c \in Callers :
    /\ c \in performed =>
         record[c] \in {"completed", "lost"} \/ inv[c] = "append"
    /\ record[c] = "completed" => c \in performed
    /\ (inv[c] = "over") => record[c] # "none"

-----------------------------------------------------------------------------
(* An invocation implements InvocationContract. *)

\* Policies no older than the bound allow it, and its seat has had the rank.
Licensed(c) ==
  /\ eval[c].pc = "answered" /\ eval[c].answer = "allow"
  /\ deniedFor[eval[c].of] <= StaleBound
  /\ c \in ranked

IC(c) == INSTANCE InvocationContract
           WITH open <- inv[c] \notin {"new", "over"}, licensed <- Licensed(c),
                done <- c \in performed, told <- record[c], kept <- c \in trail

\* Each invocation behaves as InvocationContract allows: its action is performed
\* at most once, under a licence and before its caller has an answer; the answer
\* says what was done; and a restart forgets only records that the database lost.
ImplementsInvocationContract ==
  /\ \A c \in Callers : IC(c)!Init
  /\ [][\A c \in Callers : [IC(c)!Next]_(IC(c)!view)]_vars

-----------------------------------------------------------------------------
(* The decision and what is said of it. *)

\* The policies with a say on a request.
Voices(policies, r) == {p \in policies : Applies(p, r) /\ r \in p.agents /\ p.effect = "enforce"}

\* Those of the highest priority.
Highest(policies) == {p \in policies : \A q \in policies : q.priority <= p.priority}

\* The allow and deny policies of the highest priority decide, one of them if
\* there are several; without any, a proxy policy does, and else the default.
ByPriority(policies, r) ==
  LET top == Highest({p \in Voices(policies, r) : p.action # "proxy"})
  IN IF top # {} THEN {p.action : p \in top}
     ELSE IF Voices(policies, r) # {} THEN {"proxy"}
     ELSE {"deny"}

\* What the loop over the ordered policies comes to, for every set of policies
\* that comes into force.
DecidesByPriority == \A r \in Requests : Outcomes(active, r) = ByPriority(active, r)

=============================================================================
