------------------------- MODULE InvocationContract -------------------------
(***************************************************************************)
(* What one invocation promises, without an engine, a cache, an org chart  *)
(* or the stages of the funnel: its action is performed at most once, only *)
(* while it is open and under a licence; it is told once what became of    *)
(* it, and only what the database does not keep is forgotten.              *)
(***************************************************************************)
VARIABLES
  open,      \* the caller is waiting
  licensed,  \* what is known outside permits the action; any step may change it
  done,      \* the action has been performed
  told,      \* the record of the invocation
  kept       \* the database has the record

view == <<open, licensed, done, told, kept>>

Submit ==
  /\ ~open /\ told = "none"
  /\ open' = TRUE
  /\ UNCHANGED <<done, told, kept>>

Learn == UNCHANGED <<open, done, told, kept>>

Perform ==
  /\ open /\ licensed /\ ~done
  /\ done' = TRUE
  /\ UNCHANGED <<open, told, kept>>

\* Also of an invocation that is turned away when it is submitted.
Tell ==
  /\ told = "none"
  /\ told' = IF done THEN "completed" ELSE "refused"
  /\ kept' \in BOOLEAN
  /\ open' = FALSE
  /\ UNCHANGED done

Lose ==
  /\ open \/ told # "none"
  /\ ~kept
  /\ told' = "lost" /\ open' = FALSE
  /\ UNCHANGED <<done, kept>>

Init == ~open /\ ~done /\ told = "none" /\ ~kept

Next == Submit \/ Learn \/ Perform \/ Tell \/ Lose

Spec == Init /\ [][Next]_view
=============================================================================
