-------------------------- MODULE IngestWorkerProps --------------------------
(***************************************************************************)
(* What the ingestion worker promises, and what it says of itself.         *)
(***************************************************************************)
EXTENDS IngestWorker

TypeOK ==
  /\ status \in [Jobs -> Statuses]
  /\ rows \subseteq Pairs
  /\ stored \subseteq Pairs
  /\ DOMAIN runs = Jobs /\ \A j \in Jobs : runs[j] \in [Slots(j) -> Run]
  /\ canceller \in [Jobs -> Nat] /\ \A j \in Jobs : canceller[j] <= MaxRuns[j]
  /\ stuck \subseteq Jobs
  /\ dropped \subseteq Hashes
  /\ trouble \in 0 .. MaxTrouble

Stored(h) == \E p \in stored : HashOf(p) = h
UnderWay(h) == \E j \in Jobs : \E n \in Slots(j) :
  \E p \in Batch(j, n) : HashOf(p) = h
Accounted(h) == Stored(h) \/ UnderWay(h) \/ h \in dropped

\* A content of the tenant with a row, which no job will embed again, has its
\* vector, or a run that still holds it, unless a batch with it was lost.
RowsAreOwed == \A p \in rows : Accounted(HashOf(p))

\* A completed job has left out no chunk of its document: each is in module 07
\* under some job, held by a run, or was lost by a failed call, a crash, a
\* cancellation or a failed check; duplicates, concurrent runs of one job and
\* reruns after a crash included.
CompletedIsWhole ==
  \A j \in Jobs : status[j] = "completed" =>
    \A i \in Chunks(j) : Accounted(Content[j][i])

\* What has become of a content: its vector, a run that holds it, or a loss.
FateOf(h) ==
  CASE Stored(h) -> "stored"
    [] ~Stored(h) /\ UnderWay(h) -> "held"
    [] ~Stored(h) /\ ~UnderWay(h) /\ h \in dropped -> "lost"
    [] OTHER -> "unknown"

Claims(h) == {j \in Jobs : status[j] = "completed" /\ \E i \in Chunks(j) : Content[j][i] = h}

CC(h) == INSTANCE ContentContract
           WITH fate <- FateOf(h), recorded <- Recorded(h), claims <- Claims(h)

\* Each content behaves as ContentContract allows: no run, crash, cancellation or
\* failed call makes the worker forget one it has met, a vector is never given
\* up, a row appears only with a run that holds the content, and a job completes
\* only when all of its document has been met.
ImplementsContentContract ==
  /\ \A h \in Hashes : CC(h)!Init
  /\ [][\A h \in Hashes : [CC(h)!Next]_(CC(h)!view)]_vars

TimesOut(j) == \E n \in Slots(j) : TimeOut(j, n)

\* A job that a run has begun ends as completed or failed, although runs die
\* with the process, are cancelled, time out or cannot write that they failed,
\* unless its runs are cancelled or time out for ever: then the poller starts one
\* after the other.
JobEnds ==
  \A j \in Jobs :
    \/ []<><<TimesOut(j)>>_vars
    \/ []<><<CancelJob(j)>>_vars
    \/ (status[j] \in StuckStatuses) ~> (status[j] \in Final)

\* "Losing the vectors IS a failed ingestion — never report success"
\* (ingest_worker.go).
NeverReportSuccess ==
  \A j \in Jobs : status[j] = "completed" =>
    \A i \in Chunks(j) : Stored(Content[j][i]) \/ UnderWay(Content[j][i])
=============================================================================
