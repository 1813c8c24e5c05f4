--------------------------- MODULE IngestWorkerInv ---------------------------
(***************************************************************************)
(* The inductive invariant behind IngestWorkerProps: a run has accounted   *)
(* for the chunks it has passed, whatever the other runs of its job, which *)
(* make rows and vectors of the same chunks, do meanwhile.                 *)
(***************************************************************************)
EXTENDS IngestWorkerProps

\* How far a run is tells where it looks and what it holds.
RunFits(j, run, vectors) ==
  /\ run.batch \subseteq Chunks(j)
  /\ run.at \in Nat \ {0}
  /\ run.pc \in {"idle", "get", "extract", "return"} => run.at = 1 /\ run.batch = {}
  /\ run.pc \in {"check", "record"} => run.at <= LastChunk(j)
  /\ run.pc \in {"store", "complete"} => run.at > LastChunk(j)
  /\ run.pc = "complete" => {j} \X run.batch \subseteq vectors

RunsFit == \A j \in Jobs : \A n \in Slots(j) : RunFits(j, runs[j][n], stored)

\* The chunks that a run has passed are accounted for.
PassedAccounted ==
  \A j \in Jobs : \A n \in Slots(j) : \A i \in Chunks(j) :
    i < runs[j][n].at => Accounted(Content[j][i])

Inv ==
  /\ TypeOK /\ RunsFit /\ PassedAccounted
  /\ RowsAreOwed /\ CompletedIsWhole

\* How many calls a run may still make: two for a chunk it has not passed, the
\* one that stores its batch, the one that completes the job, and its return.
CallsLeft(j, run) ==
  LET ahead == LastChunk(j) + 1 - run.at
  IN CASE run.pc = "get"      -> 2 * LastChunk(j) + 5
       [] run.pc = "extract"  -> 2 * LastChunk(j) + 4
       [] run.pc = "check"    -> 2 * ahead + 3
       [] run.pc = "record"   -> 2 * ahead + 2
       [] run.pc = "store"    -> 3
       [] run.pc = "complete" -> 2
       [] run.pc = "return"   -> 1
       [] run.pc = "idle"     -> 0

\* Every call brings a run of a job nearer to its end, and nothing takes it
\* further away: not the other runs, nor the poller, nor a cancellation.  Only
\* a restart replaces it by a new run.
RunsDescend ==
  [][\A j \in Jobs : \A n \in Slots(j) :
       /\ RunStep(j, n) => CallsLeft(j, runs'[j][n]) < CallsLeft(j, runs[j][n])
       /\ Busy(j, n) /\ ~Restart =>
            CallsLeft(j, runs'[j][n]) <= CallsLeft(j, runs[j][n])]_vars
=============================================================================
