------------------------- MODULE CapabilityFunnelInv -------------------------
(***************************************************************************)
(* The inductive invariant behind CapabilityFunnelProps.                   *)
(*                                                                         *)
(* What an answer rests on is followed through the three places it passes: *)
(* the policies an evaluation has read, the cache entry made of them, and  *)
(* the answer.  Each bounds the age of the denial by its own clock, and a  *)
(* tick moves both.                                                        *)
(***************************************************************************)
EXTENDS CapabilityFunnelProps

\* Requests that the policies in force allow are not being denied.
AllowedNow == \A r \in Requests : Allowable(active, r) => deniedFor[r] = 0

\* Policies that were read have been in force during the evaluation.
ReadIsRecent ==
  \A c \in Callers :
    eval[c].pc = "decide" /\ Allowable(eval[c].read, eval[c].of)
      => deniedFor[eval[c].of] <= eval[c].age

\* A cache entry is as old as the ticks it has lost and one evaluation.
EntryIsRecent ==
  \A r \in Requests :
    cache[r].verdict = "allow" => deniedFor[r] + cache[r].left <= TTL + MaxEval

\* An answer adds the evaluation that found it.
AnswerIsRecent ==
  \A c \in Callers :
    eval[c].pc = "answered" /\ eval[c].answer = "allow"
      => deniedFor[eval[c].of] <= TTL + MaxEval + eval[c].age

\* How far a caller's evaluation is at each stage of its invocation.
StageFitsEval ==
  \A c \in Callers :
    /\ inv[c] \in {"new", "append"} => ~Busy(c)
    /\ inv[c] = "policy" => Busy(c)
    /\ inv[c] \in {"authority", "dispatch"} =>
         eval[c].pc = "answered" /\ eval[c].answer = "allow"

\* What is on record, and what is done, at each stage.
StageFitsRecord ==
  \A c \in Callers :
    /\ inv[c] # "over" => record[c] = "none" /\ c \notin trail
    /\ inv[c] \in {"new", "policy", "authority", "dispatch"} => c \notin performed
    /\ inv[c] = "append" => c \in performed

\* A caller under way has been seen with the rank if the seat has it now, and
\* in any case once the authority check is behind it.
SeatSeen ==
  \A c \in Callers :
    /\ inv[c] \in {"policy", "authority"} /\ rank >= MinRank => c \in ranked
    /\ inv[c] = "dispatch" => c \in ranked

Inv ==
  /\ TypeOK
  /\ AllowedNow /\ ReadIsRecent /\ EntryIsRecent /\ AnswerIsRecent
  /\ StageFitsEval /\ StageFitsRecord /\ SeatSeen
  /\ TrailTruthful
=============================================================================
