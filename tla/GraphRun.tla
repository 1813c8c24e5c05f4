------------------------------ MODULE GraphRun ------------------------------
(***************************************************************************)
(* What one execution of a workflow graph promises, without rounds,        *)
(* goroutines, maps or a store: when a node may start, how often, and with *)
(* which verdict the execution may close.                                  *)
(***************************************************************************)
EXTENDS Integers

CONSTANTS Nodes, Edges, MaxAttempts

VARIABLES
  phase,     \* node -> "waiting", "running", "succeeded", "failed" or "skipped"
  attempts,  \* node -> how often its handler was called
  verdict    \* "none", then how the execution closed

view == <<phase, attempts, verdict>>

Before(n) == {m \in Nodes : <<m, n>> \in Edges}

\* A node starts when all its predecessors succeeded, and starts again only
\* after a failure, within its attempts.
Start(n) ==
  /\ verdict = "none"
  /\ phase[n] \in {"waiting", "failed"}
  /\ \A m \in Before(n) : phase[m] = "succeeded"
  /\ attempts[n] <= MaxAttempts[n]
  /\ phase' = [phase EXCEPT ![n] = "running"]
  /\ attempts' = [attempts EXCEPT ![n] = @ + 1]
  /\ UNCHANGED verdict

End(n) ==
  /\ verdict = "none"
  /\ phase[n] = "running"
  /\ \E result \in {"succeeded", "failed"} : phase' = [phase EXCEPT ![n] = result]
  /\ UNCHANGED <<attempts, verdict>>

\* A node is given up only once each predecessor was decided.
Skip(n) ==
  /\ verdict = "none"
  /\ phase[n] \in {"waiting", "failed"}
  /\ \A m \in Before(n) : phase[m] # "waiting"
  /\ phase' = [phase EXCEPT ![n] = "skipped"]
  /\ UNCHANGED <<attempts, verdict>>

\* Nothing is at work when the execution closes; it closes as completed only
\* when every node was decided, and as failed only when some node failed.
Close(v) ==
  /\ verdict = "none"
  /\ \A n \in Nodes : phase[n] # "running"
  /\ v = "completed" => \A n \in Nodes : phase[n] # "waiting"
  /\ v = "failed" => \E n \in Nodes : phase[n] = "failed"
  /\ verdict' = v
  /\ UNCHANGED <<phase, attempts>>

Init ==
  /\ phase = [n \in Nodes |-> "waiting"]
  /\ attempts = [n \in Nodes |-> 0]
  /\ verdict = "none"

Next ==
  \/ \E n \in Nodes : Start(n) \/ End(n) \/ Skip(n)
  \/ \E v \in {"completed", "failed", "cancelled"} : Close(v)

Spec == Init /\ [][Next]_view
=============================================================================
