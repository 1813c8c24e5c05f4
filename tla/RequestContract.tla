-------------------------- MODULE RequestContract --------------------------
(***************************************************************************)
(* What one service request promises, without dispatch calls, copies, a    *)
(* poller or misses: while a process lives it announces one end, the end   *)
(* the request then has unless it was cancelled, and never one its run has *)
(* not had; a restart takes the request back to what was kept of it.       *)
(***************************************************************************)
EXTENDS Integers, Sequences

CONSTANT drafts  \* whether its procedure drafts something before its sign-off

VARIABLES
  shown,  \* the request: its status and how often its timeline notes what
  told,   \* the ends announced since the process started
  kept,   \* the request as it was last saved
  ended   \* the ends its run has had

view == <<shown, told, kept, ended>>

Working == {"open", "in_progress", "awaiting_approval"}

\* An output and a breach are noted at most once and never taken back.
Notes ==
  /\ shown'.outputs \in {shown.outputs, 1}
  /\ shown'.breaches \in {shown.breaches, 1}

File ==
  /\ shown.status = "absent"
  /\ shown' = [shown EXCEPT !.status = "open"]
  /\ UNCHANGED <<told, kept, ended>>

\* Until an end is announced work goes on, even on a cancelled request.
Work ==
  /\ told = <<>>
  /\ shown.status \in Working \cup {"cancelled"}
  /\ shown'.status \in {shown.status} \cup Working
  /\ Notes
  /\ UNCHANGED <<told, kept, ended>>

Founded(outcome) ==
  /\ outcome = "completed" => "completed" \in ended
  /\ outcome = "rejected"  => ended \cap {"refused", "expired"} # {}
  /\ drafts /\ outcome # "failed" => shown'.outputs = 1

Conclude(outcome) ==
  /\ told = <<>>
  /\ shown.status \in Working \cup {"cancelled"}
  /\ shown'.status \in {outcome} \cup ({shown.status} \cap {"cancelled"})
  /\ Notes /\ Founded(outcome)
  /\ told' = <<outcome>>
  /\ UNCHANGED <<kept, ended>>

Cancel ==
  /\ shown.status # "absent"
  /\ shown' = [shown EXCEPT !.status = "cancelled"]
  /\ UNCHANGED <<told, kept, ended>>

Keep == kept' = shown /\ UNCHANGED <<shown, told, ended>>

Recover == shown' = kept /\ told' = <<>> /\ UNCHANGED <<kept, ended>>

RunEnds == ended \subseteq ended' /\ UNCHANGED <<shown, told, kept>>

Init ==
  /\ shown = [status |-> "absent", outputs |-> 0, breaches |-> 0]
  /\ kept = shown
  /\ told = <<>>
  /\ ended = {}

Next ==
  \/ File \/ Work \/ Cancel \/ Keep \/ Recover \/ RunEnds
  \/ \E outcome \in {"completed", "rejected", "failed"} : Conclude(outcome)

Spec == Init /\ [][Next]_view
=============================================================================
