---------------------------- MODULE IngestWorker ----------------------------
(***************************************************************************)
(* The knowledge ingestion worker (module 06): the goroutines that run a   *)
(* job, what starts them (an ingest call, the boot scan, the poller of     *)
(* stuck jobs), the cancellers, and the rows and vectors a run leaves.     *)
(*                                                                         *)
(* A job's document is the sequence of the hashes of its non-empty chunks; *)
(* chunking is deterministic, so every run of a job sees the same one.     *)
(* The rows are in PostgreSQL, the vectors in module 07.                   *)
(***************************************************************************)
EXTENDS Naturals, Sequences

CONSTANTS
  Jobs, Hashes,
  Content,      \* job -> hashes of its chunks
  MaxRuns,      \* job -> bound on its goroutines at a time
  MaxTrouble    \* bound on failed database calls and restarts

ASSUME IngestAssumption ==
  /\ Content \in [Jobs -> Seq(Hashes)]
  /\ MaxRuns \in [Jobs -> Nat \ {0}]
  /\ MaxTrouble \in Nat

VARIABLES
  status,     \* ingestion_jobs.status
  rows,       \* ingestion_results: pairs of a job and a chunk index
  stored,     \* vectors in module 07, by the same pairs
  runs,       \* job -> its goroutines
  canceller,  \* Worker.cancellers: the run a job's entry belongs to, 0 if none
  stuck,      \* jobs the poller listed and has not requeued yet
  dropped,    \* hashes a batch lost, or whose duplicate check failed
  trouble

vars == <<status, rows, stored, runs, canceller, stuck, dropped, trouble>>

Slots(j) == 1 .. MaxRuns[j]
Statuses == {"absent", "pending", "extracting", "chunking", "completed", "failed"}
Final == {"completed", "failed"}

Chunks(j) == DOMAIN Content[j]
Pairs == {p \in Jobs \X Nat : p[2] \in Chunks(p[1])}
HashOf(p) == Content[p[1]][p[2]]

\* A run is at a call; at is the chunk it looks at, batch the chunks whose
\* vectors it will store, and live tells that its context is not cancelled.
Run ==
  [pc : {"idle", "get", "extract", "check", "record", "store", "complete", "return"},
   at : Nat, batch : SUBSET Nat, live : BOOLEAN]
Fresh == [pc |-> "get", at |-> 1, batch |-> {}, live |-> TRUE]
Over == [pc |-> "idle", at |-> 1, batch |-> {}, live |-> FALSE]

\* runJob has made its last call; its goroutine has still to delete the canceller.
Returning == [Over EXCEPT !.pc = "return"]

Busy(j, n) == runs[j][n].pc # "idle"
Batch(j, n) == {j} \X runs[j][n].batch

Init ==
  /\ status = [j \in Jobs |-> "absent"]
  /\ rows = {} /\ stored = {}
  /\ runs = [j \in Jobs |-> [n \in Slots(j) |-> Over]]
  /\ canceller = [j \in Jobs |-> 0]
  /\ stuck = {}
  /\ dropped = {}
  /\ trouble = 0

-----------------------------------------------------------------------------
(* Starting and cancelling runs. *)

Trouble == trouble < MaxTrouble /\ trouble' = trouble + 1

SetStatus(j, s) == status' = [status EXCEPT ![j] = s]
SetRun(j, n, run) == runs' = [runs EXCEPT ![j][n] = run]

\* The job's canceller becomes that of the new run, whatever runs already.
ProcessJob(j, n) ==
  /\ ~Busy(j, n)
  /\ SetRun(j, n, Fresh)
  /\ canceller' = [canceller EXCEPT ![j] = n]

IngestSource(j) ==
  /\ status[j] = "absent"
  /\ SetStatus(j, "pending")
  /\ ProcessJob(j, 1)
  /\ UNCHANGED <<rows, stored, stuck, dropped, trouble>>

\* Faulty: a job that died while chunking is nobody's.
FaultyStuckStatuses == {"extracting"}

\* Those that ListStuck selects and a run writes.
StuckStatuses == {"extracting", "chunking"}

\* A tick of the poller; which jobs are older than 30 minutes is left open.
ListStuck ==
  /\ stuck = {}
  /\ \E j \in Jobs : status[j] \in StuckStatuses
  /\ stuck' = {j \in Jobs : status[j] \in StuckStatuses}
  /\ UNCHANGED <<status, rows, stored, runs, canceller, dropped, trouble>>

\* The job is started once more, although it may be running or have ended.
Requeue(j) ==
  /\ j \in stuck
  /\ stuck' = stuck \ {j}
  /\ \/ \E n \in Slots(j) : ProcessJob(j, n)
     \/ (\A n \in Slots(j) : Busy(j, n)) /\ UNCHANGED <<runs, canceller>>
  /\ UNCHANGED <<status, rows, stored, dropped, trouble>>

\* The handler's check of the status came first and may be out of date.
CancelJob(j) ==
  /\ canceller[j] # 0
  /\ runs' = [runs EXCEPT ![j][canceller[j]].live = FALSE]
  /\ canceller' = [canceller EXCEPT ![j] = 0]
  /\ UNCHANGED <<status, rows, stored, stuck, dropped, trouble>>

-----------------------------------------------------------------------------
(* One run. *)

\* The run fails, with the vectors of kept in module 07 and the rest lost.
End(j, n, kept) ==
  /\ SetRun(j, n, Returning)
  /\ stored' = stored \cup kept
  /\ dropped' = dropped \cup {HashOf(p) : p \in Batch(j, n) \ (stored \cup kept)}

\* failJob after a call that failed while its context was good; its error is
\* ignored.
Fail(j) ==
  \/ SetStatus(j, "failed") /\ UNCHANGED trouble
  \/ UNCHANGED status /\ Trouble

Proceed(j, n, pc) == SetRun(j, n, [runs[j][n] EXCEPT !.pc = pc])

At(j, n, pc) == runs[j][n].pc = pc /\ runs[j][n].live

Begin(j, n) ==
  /\ At(j, n, "get")
  /\ \/ /\ SetStatus(j, "extracting")
        /\ Proceed(j, n, "extract")
        /\ UNCHANGED <<stored, dropped, trouble>>
     \/ Fail(j) /\ End(j, n, {})
  /\ UNCHANGED <<rows, canceller, stuck>>

\* Faulty: the last chunk is forgotten.
FaultyLastChunk(j) == IF Len(Content[j]) = 0 THEN 0 ELSE Len(Content[j]) - 1

LastChunk(j) == Len(Content[j])

\* The call after the chunks before at are done.
CallAt(j, at, batch) ==
  IF at <= LastChunk(j) THEN "check" ELSE IF batch # {} THEN "store" ELSE "complete"

Extract(j, n) ==
  /\ At(j, n, "extract")
  /\ \/ /\ SetStatus(j, "chunking")
        /\ Proceed(j, n, CallAt(j, 1, {}))
        /\ UNCHANGED <<stored, dropped, trouble>>
     \/ Fail(j) /\ End(j, n, {})
  /\ UNCHANGED <<rows, canceller, stuck>>

Recorded(h) == \E p \in rows : HashOf(p) = h

\* Faulty: a status that the table's CHECK does not know.
FaultyProgress(j) == SetStatus(j, "processing") /\ UNCHANGED trouble

\* Writing the progress sets the status as well; its error is logged.
Progress(j) ==
  \/ SetStatus(j, "chunking") /\ UNCHANGED trouble
  \/ UNCHANGED status /\ Trouble

Advance(j, n, batch) ==
  LET next == runs[j][n].at + 1 IN
  SetRun(j, n, [runs[j][n] EXCEPT
    !.pc = CallAt(j, next, batch), !.at = next, !.batch = batch])

\* A chunk the tenant has a row for is skipped, and so is one whose check fails.
Check(j, n) ==
  LET run == runs[j][n]
      h == Content[j][run.at]
  IN /\ At(j, n, "check")
     /\ \/ Recorded(h) /\ Progress(j) /\ Advance(j, n, run.batch) /\ UNCHANGED dropped
        \/ ~Recorded(h) /\ Proceed(j, n, "record") /\ UNCHANGED <<status, dropped, trouble>>
        \/ /\ Trouble /\ Advance(j, n, run.batch)
           /\ dropped' = dropped \cup {h}
           /\ UNCHANGED status
     /\ UNCHANGED <<rows, stored, canceller, stuck>>

Batched(j, n) == runs[j][n].batch \cup {runs[j][n].at}

\* The row comes before the vector.  An insert or a progress write that fails, as
\* all do once the 30 minutes of embedCtx are over, is logged and the loop goes on.
Record(j, n) ==
  /\ At(j, n, "record")
  /\ Advance(j, n, Batched(j, n))
  /\ rows' = rows \cup {<<j, runs[j][n].at>>} \/ UNCHANGED rows
  /\ SetStatus(j, "chunking") \/ UNCHANGED status
  /\ UNCHANGED <<stored, canceller, stuck, dropped, trouble>>

\* Faulty: a failed call is taken for a stored batch.
FaultyLosing(j, n) ==
  /\ Proceed(j, n, "complete")
  /\ UNCHANGED <<status, stored, dropped, trouble>>

\* The call fails: module 07 may have stored some of the batch.
Losing(j, n) ==
  /\ \E kept \in SUBSET Batch(j, n) : End(j, n, kept)
  /\ Fail(j)

StoreVectors(j, n) ==
  /\ At(j, n, "store")
  /\ \/ /\ stored' = stored \cup Batch(j, n)
        /\ Proceed(j, n, "complete")
        /\ UNCHANGED <<status, dropped, trouble>>
     \/ Losing(j, n)
  /\ UNCHANGED <<rows, canceller, stuck>>

Complete(j, n) ==
  /\ At(j, n, "complete")
  /\ \/ SetStatus(j, "completed") /\ UNCHANGED trouble
     \/ UNCHANGED status /\ Trouble
  /\ SetRun(j, n, Returning)
  /\ UNCHANGED <<rows, stored, canceller, stuck, dropped>>

\* A call ends because its context is done; so does failJob's write that should
\* say so, which has the same context.
Abandon(j, n) ==
  /\ \E kept \in SUBSET Batch(j, n) :
       /\ runs[j][n].pc # "store" => kept = {}
       /\ End(j, n, kept)
  /\ UNCHANGED <<status, rows, canceller, stuck, trouble>>

Cancelled(j, n) ==
  /\ runs[j][n].pc \notin {"idle", "return"}
  /\ ~runs[j][n].live
  /\ Abandon(j, n)

\* The calls with a deadline that ends the run: five minutes for those of the
\* extraction and of the vectors, thirty seconds for the last write.
Timed == {"get", "extract", "store", "complete"}

TimeOut(j, n) ==
  /\ runs[j][n].pc \in Timed
  /\ runs[j][n].live
  /\ Abandon(j, n)

\* The goroutine deletes the job's entry, whichever run it belongs to.
Return(j, n) ==
  /\ runs[j][n].pc = "return"
  /\ SetRun(j, n, Over)
  /\ canceller' = [canceller EXCEPT ![j] = 0]
  /\ UNCHANGED <<status, rows, stored, stuck, dropped, trouble>>

-----------------------------------------------------------------------------

\* Those that ListPending selects and a run writes.
PendingStatuses == {"pending", "extracting"}

\* The process dies, and the next one starts a run of every pending job.
Restart ==
  /\ Trouble
  /\ runs' = [j \in Jobs |-> [n \in Slots(j) |->
       IF n = 1 /\ status[j] \in PendingStatuses THEN Fresh ELSE Over]]
  /\ canceller' = [j \in Jobs |-> IF status[j] \in PendingStatuses THEN 1 ELSE 0]
  /\ stuck' = {}
  /\ dropped' = dropped \cup
       {HashOf(p) : p \in (UNION {UNION {Batch(j, n) : n \in Slots(j)} : j \in Jobs}) \ stored}
  /\ UNCHANGED <<status, rows, stored>>

RunStep(j, n) ==
  \/ Begin(j, n) \/ Extract(j, n) \/ Check(j, n) \/ Record(j, n)
  \/ StoreVectors(j, n) \/ Complete(j, n) \/ Cancelled(j, n) \/ TimeOut(j, n)
  \/ Return(j, n)

Poller == ListStuck \/ \E j \in Jobs : Requeue(j)

\* A tick of the poller that finds nothing.
EmptyTick ==
  /\ stuck = {}
  /\ \A j \in Jobs : status[j] \notin StuckStatuses
  /\ UNCHANGED vars

Next ==
  \/ \E j \in Jobs : IngestSource(j) \/ CancelJob(j)
  \/ \E j \in Jobs : \E n \in Slots(j) : RunStep(j, n)
  \/ Poller \/ EmptyTick \/ Restart

Spec == Init /\ [][Next]_vars

\* Every call returns or times out, and the poller's ticker goes on.
FairSpec ==
  /\ Spec
  /\ WF_vars(Poller)
  /\ \A j \in Jobs : \A n \in Slots(j) : WF_vars(RunStep(j, n))
=============================================================================
