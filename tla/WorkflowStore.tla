--------------------------- MODULE WorkflowStore ---------------------------
(***************************************************************************)
(* The workflow record's status as the two stores of the orchestration     *)
(* engine (module 03) keep it.                                             *)
(*                                                                         *)
(* The in-memory store checks every write against a transition table; the  *)
(* PostgreSQL store, which the cluster manifest selects with               *)
(* DB_MODE=postgres, issues the UPDATE unconditionally and repairs         *)
(* records of a dead process when the next process boots.                  *)
(***************************************************************************)

StoreModes == {"memory", "postgres"}

Terminal == {"completed", "failed", "cancelled"}

\* "lost" is not a status of the code: it is the record of an in-memory store
\* whose process died.
Statuses == {"pending", "running", "paused", "lost"} \cup Terminal

ValidTransitions ==
  [pending   |-> {"running", "cancelled"},
   running   |-> {"paused", "completed", "failed", "cancelled"},
   paused    |-> {"running", "cancelled", "failed"},
   completed |-> {},
   failed    |-> {"running", "cancelled"},
   cancelled |-> {},
   lost      |-> {}]

\* Whether the store of this mode lets a record go from one status to another.
Accepts(mode, from, to) ==
  CASE mode = "memory"   -> to \in ValidTransitions[from]
    [] mode = "postgres" -> from # "lost"

\* Faulty: running records are left alone.
FaultyReconciled(mode, s) ==
  IF mode = "postgres" /\ s \in {"pending", "paused"} THEN "failed" ELSE s

\* What the boot-time reconciliation makes of a record left by a dead process.
Reconciled(mode, s) ==
  IF mode = "postgres" /\ s \in {"pending", "running", "paused"} THEN "failed" ELSE s
=============================================================================
