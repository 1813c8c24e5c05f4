------------------------- MODULE IngestWorkerProofs -------------------------
(***************************************************************************)
(* The worker accounts for every chunk, for every set of jobs, documents   *)
(* and number of goroutines that run one job at a time.                    *)
(***************************************************************************)
EXTENDS IngestWorkerInv, TLAPS

-----------------------------------------------------------------------------
(* Data. *)

\* The chunks of a document are numbered from 1, and have hashes.
LEMMA ChunksTyped ==
  ASSUME NEW j \in Jobs
  PROVE  /\ Chunks(j) = 1 .. LastChunk(j)
         /\ LastChunk(j) \in Nat
         /\ \A i \in Chunks(j) : Content[j][i] \in Hashes /\ <<j, i>> \in Pairs
         /\ MaxRuns[j] \in Nat \ {0}
<1>1. Content[j] \in Seq(Hashes) /\ MaxRuns[j] \in Nat \ {0}
  BY IngestAssumption
<1>2. Chunks(j) = 1 .. LastChunk(j) /\ LastChunk(j) \in Nat
  BY <1>1 DEF Chunks, LastChunk
<1> QED
  BY <1>1, <1>2 DEF Pairs, Chunks

\* A pair is a chunk with its hash.
LEMMA PairsTyped ==
  ASSUME NEW p \in Pairs
  PROVE  /\ p[1] \in Jobs /\ p[2] \in Chunks(p[1]) /\ p = <<p[1], p[2]>>
         /\ HashOf(p) = Content[p[1]][p[2]] /\ HashOf(p) \in Hashes
<1>1. p[1] \in Jobs /\ p[2] \in Chunks(p[1]) /\ p = <<p[1], p[2]>>
  BY DEF Pairs
<1> QED
  BY <1>1, ChunksTyped DEF HashOf

\* What a run holds.
LEMMA RunTyped ==
  ASSUME TypeOK, NEW j \in Jobs, NEW n \in Slots(j)
  PROVE  runs[j][n] \in Run /\ n \in Nat \ {0} /\ n <= MaxRuns[j]
<1>1. MaxRuns[j] \in Nat \ {0}
  BY ChunksTyped
<1> QED
  BY <1>1 DEF TypeOK, Slots

\* One run of one job changes.
LEMMA OneRun ==
  ASSUME TypeOK, NEW j \in Jobs, NEW n \in Slots(j), NEW r \in Run, SetRun(j, n, r)
  PROVE  /\ runs'[j][n] = r
         /\ \A k \in Jobs : \A m \in Slots(k) : k # j \/ m # n => runs'[k][m] = runs[k][m]
         /\ DOMAIN runs' = Jobs /\ \A k \in Jobs : runs'[k] \in [Slots(k) -> Run]
<1> USE DEF TypeOK, SetRun
<1>1. runs' = [runs EXCEPT ![j] = [runs[j] EXCEPT ![n] = r]]
  OBVIOUS
<1>2. runs[j] \in [Slots(j) -> Run]
  OBVIOUS
<1>3. [runs[j] EXCEPT ![n] = r] \in [Slots(j) -> Run]
  BY <1>2
<1>4. DOMAIN runs' = Jobs /\ runs'[j] = [runs[j] EXCEPT ![n] = r]
  BY <1>1
<1>5. \A k \in Jobs : k # j => runs'[k] = runs[k]
  BY <1>1
<1> QED
  BY <1>2, <1>3, <1>4, <1>5

-----------------------------------------------------------------------------
(* Accounts are kept. *)

\* A content stays accounted for as long as vectors stay, losses are noted and
\* whatever leaves a batch is stored or noted.
LEMMA AccountKept ==
  ASSUME stored \subseteq stored', dropped \subseteq dropped',
         \A j \in Jobs : \A n \in Slots(j) : \A p \in Batch(j, n) :
           p \in Batch(j, n)' \/ p \in stored' \/ HashOf(p) \in dropped',
         NEW h, Accounted(h)
  PROVE  Accounted(h)'
<1>1. CASE Stored(h)
  BY <1>1 DEF Stored, Accounted, HashOf
<1>2. CASE UnderWay(h)
  <2>0. PICK j \in Jobs : \E n \in Slots(j) : \E p \in Batch(j, n) : HashOf(p) = h
    BY <1>2 DEF UnderWay
  <2>1. PICK n \in Slots(j) : \E p \in Batch(j, n) : HashOf(p) = h
    BY <2>0
  <2>2. PICK p \in Batch(j, n) : HashOf(p) = h
    BY <2>1
  <2>3. CASE p \in Batch(j, n)'
    BY <2>2, <2>3 DEF Accounted, UnderWay, HashOf, Slots
  <2>4. CASE p \in stored'
    BY <2>2, <2>4 DEF Accounted, Stored, HashOf
  <2>5. CASE HashOf(p) \in dropped'
    BY <2>2, <2>5 DEF Accounted
  <2> QED
    BY <2>2, <2>3, <2>4, <2>5
<1>3. CASE h \in dropped
  BY <1>3 DEF Accounted
<1> QED
  BY <1>1, <1>2, <1>3 DEF Accounted

\* A step of one run that drops nothing unnoticed, passes only chunks that it
\* accounts for, and completes the job only behind the last one, keeps all.
LEMMA RunStepKeeps ==
  ASSUME Inv, NEW j \in Jobs, NEW n \in Slots(j), NEW r \in Run,
         SetRun(j, n, r),
         stored \subseteq stored', dropped \subseteq dropped',
         RunFits(j, r, stored'),
         \A i \in runs[j][n].batch :
           i \in r.batch \/ <<j, i>> \in stored' \/ Content[j][i] \in dropped',
         \A i \in Chunks(j) : i < r.at =>
           \/ i < runs[j][n].at \/ i \in r.batch
           \/ Content[j][i] \in dropped' \/ Recorded(Content[j][i]),
         \A p \in rows' : p \in rows \/ p \in {j} \X r.batch,
         \A k \in Jobs : status'[k] = "completed" =>
           status[k] = "completed" \/ (k = j /\ runs[j][n].at > LastChunk(j))
  PROVE  RunsFit' /\ PassedAccounted' /\ RowsAreOwed' /\ CompletedIsWhole'
<1>t. TypeOK
  BY DEF Inv
<1>1. /\ runs'[j][n] = r
      /\ \A k \in Jobs : \A m \in Slots(k) : k # j \/ m # n => runs'[k][m] = runs[k][m]
  BY <1>t, OneRun
<1>2. RunsFit'
  <2> SUFFICES ASSUME NEW k \in Jobs, NEW m \in Slots(k)
               PROVE  RunFits(k, runs'[k][m], stored')
    BY DEF RunsFit, Slots, RunFits, Chunks, LastChunk
  <2>1. CASE k = j /\ m = n
    BY <2>1, <1>1
  <2>2. CASE k # j \/ m # n
    BY <2>2, <1>1 DEF Inv, RunsFit, RunFits
  <2> QED BY <2>1, <2>2
<1>3. ASSUME NEW h, Accounted(h) PROVE Accounted(h)'
  <2>1. ASSUME NEW k \in Jobs, NEW m \in Slots(k), NEW p \in Batch(k, m)
        PROVE  p \in Batch(k, m)' \/ p \in stored' \/ HashOf(p) \in dropped'
    <3>1. CASE k = j /\ m = n
      <4>1. PICK i \in runs[j][n].batch : p = <<j, i>>
        BY <3>1, <2>1 DEF Batch
      <4>2. HashOf(p) = Content[j][i]
        BY <4>1 DEF HashOf
      <4> QED
        BY <3>1, <4>1, <4>2, <1>1 DEF Batch
    <3>2. CASE k # j \/ m # n
      BY <3>2, <2>1, <1>1 DEF Batch
    <3> QED BY <3>1, <3>2
  <2> QED
    BY <2>1, <1>3, AccountKept
\* What the run holds now is accounted for.
<1>4. ASSUME NEW i \in r.batch PROVE Accounted(Content[j][i])'
  <2>1. <<j, i>> \in Batch(j, n)' /\ HashOf(<<j, i>>) = Content[j][i]
    BY <1>1, <1>4 DEF Batch, HashOf
  <2> QED
    BY <2>1 DEF Accounted, UnderWay, HashOf, Slots
<1>5. \A h : Recorded(h) => Accounted(h)
  BY DEF Inv, RowsAreOwed, Recorded
<1>6. PassedAccounted'
  <2> SUFFICES ASSUME NEW k \in Jobs, NEW m \in Slots(k), NEW i \in Chunks(k),
                      i < runs'[k][m].at
               PROVE  Accounted(Content[k][i])'
    BY DEF PassedAccounted, Slots, Chunks
  <2>1. CASE k = j /\ m = n
    <3>1. \/ i < runs[j][n].at \/ i \in r.batch
          \/ Content[j][i] \in dropped' \/ Recorded(Content[j][i])
      BY <2>1, <1>1
    <3>2. i < runs[j][n].at => Accounted(Content[j][i])
      BY <2>1 DEF Inv, PassedAccounted
    <3>3. Content[j][i] \in dropped' => Accounted(Content[j][i])'
      BY DEF Accounted
    <3> QED
      BY <2>1, <3>1, <3>2, <3>3, <1>3, <1>4, <1>5
  <2>2. CASE k # j \/ m # n
    BY <2>2, <1>1, <1>3 DEF Inv, PassedAccounted
  <2> QED BY <2>1, <2>2
<1>7. RowsAreOwed'
  <2> SUFFICES ASSUME NEW p \in rows' PROVE Accounted(HashOf(p))'
    BY DEF RowsAreOwed, HashOf
  <2>1. CASE p \in rows
    BY <2>1, <1>3 DEF Inv, RowsAreOwed
  <2>2. CASE p \in {j} \X r.batch
    <3>1. PICK i \in r.batch : p = <<j, i>>
      BY <2>2
    <3> QED
      BY <3>1, <1>4 DEF HashOf
  <2> QED BY <2>1, <2>2
<1>8. CompletedIsWhole'
  <2> SUFFICES ASSUME NEW k \in Jobs, status'[k] = "completed", NEW i \in Chunks(k)
               PROVE  Accounted(Content[k][i])'
    BY DEF CompletedIsWhole, Chunks
  <2>1. CASE status[k] = "completed"
    BY <2>1, <1>3 DEF Inv, CompletedIsWhole
  <2>2. CASE k = j /\ runs[j][n].at > LastChunk(j)
    <3>1. i <= LastChunk(j) /\ i \in Nat /\ LastChunk(j) \in Nat
      BY <2>2, ChunksTyped
    <3>2. runs[j][n].at \in Nat
      BY <1>t, RunTyped DEF Run
    <3>3. i < runs[j][n].at
      BY <2>2, <3>1, <3>2
    <3> QED
      BY <2>2, <3>3, <1>3 DEF Inv, PassedAccounted
  <2> QED BY <2>1, <2>2
<1> QED
  BY <1>2, <1>6, <1>7, <1>8

-----------------------------------------------------------------------------
(* The steps. *)

\* A step that completes no job and stays within its bound of trouble.
Quiet ==
  /\ status' \in [Jobs -> Statuses]
  /\ trouble' \in 0 .. MaxTrouble
  /\ \A k \in Jobs : status'[k] = "completed" => status[k] = "completed"

LEMMA TroubleTyped ==
  ASSUME TypeOK, Trouble
  PROVE  trouble' \in 0 .. MaxTrouble
BY IngestAssumption DEF TypeOK, Trouble

LEMMA FailQuiet == ASSUME TypeOK, NEW j \in Jobs, Fail(j) PROVE Quiet
BY TroubleTyped DEF TypeOK, Fail, SetStatus, Quiet, Statuses

LEMMA ProgressQuiet == ASSUME TypeOK, NEW j \in Jobs, Progress(j) PROVE Quiet
BY TroubleTyped DEF TypeOK, Progress, SetStatus, Quiet, Statuses

\* A step of one run keeps the types as far as it does what runs do.
LEMMA RunStepTyped ==
  ASSUME TypeOK, NEW j \in Jobs, NEW n \in Slots(j), NEW r \in Run, SetRun(j, n, r),
         status' \in [Jobs -> Statuses], trouble' \in 0 .. MaxTrouble,
         rows' \subseteq Pairs, stored' \subseteq Pairs,
         dropped' \subseteq Hashes, stuck' \subseteq Jobs,
         \/ UNCHANGED canceller
         \/ canceller' = [canceller EXCEPT ![j] = 0]
         \/ canceller' = [canceller EXCEPT ![j] = n]
  PROVE  TypeOK'
<1>1. DOMAIN runs' = Jobs /\ \A k \in Jobs : runs'[k] \in [Slots(k) -> Run]
  BY OneRun
<1>2. n \in Nat /\ n <= MaxRuns[j] /\ \A k \in Jobs : 0 <= MaxRuns[k]
  BY RunTyped, ChunksTyped
<1>3. canceller' \in [Jobs -> Nat] /\ \A k \in Jobs : canceller'[k] <= MaxRuns[k]
  BY <1>2 DEF TypeOK
<1> QED
  BY <1>1, <1>3 DEF TypeOK, Slots, Pairs, Chunks

\* The batch of a run is of its document.
LEMMA BatchTyped ==
  ASSUME Inv, NEW j \in Jobs, NEW n \in Slots(j)
  PROVE  /\ runs[j][n] \in Run /\ RunFits(j, runs[j][n], stored)
         /\ Batch(j, n) \subseteq Pairs
         /\ {HashOf(p) : p \in Batch(j, n)} \subseteq Hashes
         /\ \A i \in runs[j][n].batch : <<j, i>> \in Batch(j, n) /\ HashOf(<<j, i>>) = Content[j][i]
         /\ UNCHANGED stored => RunFits(j, runs[j][n], stored')
<1>1. runs[j][n] \in Run /\ RunFits(j, runs[j][n], stored)
  BY RunTyped DEF Inv, RunsFit
<1>2. Batch(j, n) \subseteq Pairs
  BY <1>1, ChunksTyped DEF Batch, RunFits
<1>3. {HashOf(p) : p \in Batch(j, n)} \subseteq Hashes
  BY <1>2, PairsTyped
<1> QED
  BY <1>1, <1>2, <1>3 DEF Batch, HashOf

\* The three runs that hold nothing: before the first call, behind the last, and
\* none at all.
LEMMA ReturningIs ==
  /\ Returning \in Run /\ Over \in Run /\ Fresh \in Run
  /\ Returning.pc = "return" /\ Returning.at = 1 /\ Returning.batch = {}
BY DEF Returning, Over, Fresh, Run

LEMMA FreshFits ==
  ASSUME NEW j \in Jobs, NEW vectors
  PROVE  /\ Fresh \in Run /\ Over \in Run /\ Returning \in Run
         /\ RunFits(j, Fresh, vectors) /\ RunFits(j, Over, vectors)
         /\ RunFits(j, Returning, vectors)
<1>1. RunFits(j, Returning, vectors)
  BY ReturningIs DEF RunFits
<1> QED
  BY <1>1, ReturningIs DEF Fresh, Over, RunFits

\* A run that ends without completing its job loses nothing unnoticed.
LEMMA EndKeeps ==
  ASSUME Inv, NEW j \in Jobs, NEW n \in Slots(j), NEW kept \in SUBSET Batch(j, n),
         End(j, n, kept), Quiet, UNCHANGED <<rows, canceller, stuck>>
  PROVE  Inv'
<1>1. TypeOK
  BY DEF Inv
<1>2. Returning \in Run /\ RunFits(j, Returning, stored')
  BY FreshFits
<1>3. /\ SetRun(j, n, Returning)
      /\ stored' = stored \cup kept
      /\ dropped' = dropped \cup {HashOf(p) : p \in Batch(j, n) \ (stored \cup kept)}
  BY DEF End
<1>4. \A i \in runs[j][n].batch : <<j, i>> \in stored' \/ Content[j][i] \in dropped'
  BY <1>3, BatchTyped
<1>5. Returning.at = 1 /\ \A i \in Chunks(j) : ~(i < 1)
  BY ChunksTyped, ReturningIs
<1>6. TypeOK'
  <2>1. stored' \subseteq Pairs /\ dropped' \subseteq Hashes
    BY <1>1, <1>3, BatchTyped DEF TypeOK
  <2> QED
    BY <1>1, <1>2, <1>3, <2>1, RunStepTyped DEF Quiet, TypeOK
<1>7. RunsFit' /\ PassedAccounted' /\ RowsAreOwed' /\ CompletedIsWhole'
  <2>1. stored \subseteq stored' /\ dropped \subseteq dropped' /\ rows' = rows
    BY <1>3
  <2>2. \A k \in Jobs : status'[k] = "completed" => status[k] = "completed"
    BY DEF Quiet
  <2>3. \A i \in Chunks(j) : ~(i < Returning.at)
    BY <1>5
  <2> QED
    BY <1>2, <1>3, <1>4, <2>1, <2>2, <2>3, RunStepKeeps
<1> QED
  BY <1>6, <1>7 DEF Inv

\* A step that starts a run, whoever asked for it.
LEMMA ProcessJobKeeps ==
  ASSUME Inv, NEW j \in Jobs, NEW n \in Slots(j), ProcessJob(j, n), Quiet,
         stuck' \subseteq Jobs, UNCHANGED <<rows, stored, dropped>>
  PROVE  Inv'
<1>1. TypeOK
  BY DEF Inv
<1>2. Fresh \in Run /\ RunFits(j, Fresh, stored')
  BY FreshFits
<1>3. SetRun(j, n, Fresh) /\ canceller' = [canceller EXCEPT ![j] = n]
  BY DEF ProcessJob
<1>4. runs[j][n].batch = {}
  BY BatchTyped DEF ProcessJob, Busy, RunFits
<1>5. Fresh.at = 1 /\ Fresh.pc # "idle" /\ Fresh.live /\ \A i \in Chunks(j) : ~(i < 1)
  BY ChunksTyped DEF Fresh
<1>6. TypeOK'
  BY <1>1, <1>2, <1>3, RunStepTyped DEF Quiet, TypeOK
<1>7. RunsFit' /\ PassedAccounted' /\ RowsAreOwed' /\ CompletedIsWhole'
  BY <1>2, <1>3, <1>4, <1>5, RunStepKeeps DEF Quiet
<1> QED
  BY <1>6, <1>7 DEF Inv

\* A run goes on, with its batch or a larger one, in a step that keeps the rest.
LEMMA GoOnKeeps ==
  ASSUME Inv, NEW j \in Jobs, NEW n \in Slots(j), NEW r \in Run, SetRun(j, n, r),
         RunFits(j, r, stored'), runs[j][n].batch \subseteq r.batch,
         Quiet, UNCHANGED <<canceller, stuck>>,
         stored \subseteq stored', dropped \subseteq dropped',
         stored' \subseteq Pairs, dropped' \subseteq Hashes,
         rows' \subseteq rows \cup ({j} \X r.batch),
         \A i \in Chunks(j) : i < r.at =>
           \/ i < runs[j][n].at \/ i \in r.batch
           \/ Content[j][i] \in dropped' \/ Recorded(Content[j][i])
  PROVE  Inv'
<1>1. TypeOK
  BY DEF Inv
<1>2. rows' \subseteq Pairs
  BY <1>1, ChunksTyped DEF TypeOK, RunFits
<1>3. TypeOK'
  BY <1>1, <1>2, RunStepTyped DEF Quiet, TypeOK
<1>4. RunsFit' /\ PassedAccounted' /\ RowsAreOwed' /\ CompletedIsWhole'
  BY RunStepKeeps DEF Quiet
<1> QED
  BY <1>3, <1>4 DEF Inv

\* Where a run stands behind the chunks before at.
LEMMA CallAtFits ==
  ASSUME NEW j \in Jobs, NEW at \in Nat \ {0}, NEW batch \in SUBSET Chunks(j),
         NEW r \in Run, r.at = at, r.batch = batch, r.pc = CallAt(j, at, batch), NEW vectors
  PROVE  RunFits(j, r, vectors) /\ r.pc \in {"check", "store", "complete"}
<1>1. LastChunk(j) \in Nat
  BY ChunksTyped
<1>2. CASE at <= LastChunk(j)
  BY <1>1, <1>2 DEF CallAt, RunFits
<1>3. CASE ~(at <= LastChunk(j)) /\ batch # {}
  BY <1>1, <1>3 DEF CallAt, RunFits
<1>4. CASE ~(at <= LastChunk(j)) /\ batch = {}
  BY <1>1, <1>4 DEF CallAt, RunFits
<1> QED
  BY <1>2, <1>3, <1>4

LEMMA BeginKeeps ==
  ASSUME Inv, NEW j \in Jobs, NEW n \in Slots(j), Begin(j, n) \/ Extract(j, n)
  PROVE  Inv'
<1>t. TypeOK
  BY DEF Inv
<1>1. CASE Fail(j) /\ End(j, n, {}) /\ UNCHANGED <<rows, canceller, stuck>>
  BY <1>t, <1>1, FailQuiet, EndKeeps
<1> DEFINE run == runs[j][n]
<1>r. run \in Run /\ RunFits(j, run, stored)
  BY BatchTyped
<1>2. CASE /\ Begin(j, n) /\ SetStatus(j, "extracting") /\ Proceed(j, n, "extract")
           /\ UNCHANGED <<rows, stored, canceller, stuck, dropped, trouble>>
  <2> DEFINE r == [run EXCEPT !.pc = "extract"]
  <2>1. r \in Run /\ r.pc = "extract" /\ r.at = run.at /\ r.batch = run.batch /\ r.live = run.live
    BY <1>r DEF Run
  <2>2. SetRun(j, n, r)
    BY <1>2 DEF Proceed
  <2>3. RunFits(j, r, stored')
    BY <1>2, <1>r, <2>1 DEF Begin, At, RunFits
  <2>4. Quiet
    BY <1>2, <1>t DEF SetStatus, Quiet, TypeOK, Statuses
  <2> HIDE DEF r
  <2> QED
    BY <1>2, <1>t, <2>1, <2>2, <2>3, <2>4, GoOnKeeps DEF TypeOK
<1>3. CASE /\ Extract(j, n) /\ SetStatus(j, "chunking") /\ Proceed(j, n, CallAt(j, 1, {}))
           /\ UNCHANGED <<rows, stored, canceller, stuck, dropped, trouble>>
  <2> DEFINE r == [run EXCEPT !.pc = CallAt(j, 1, {})]
  <2>0. CallAt(j, 1, {}) \in {"check", "store", "complete"}
    BY DEF CallAt
  <2>1. /\ r \in Run /\ r.pc = CallAt(j, 1, {})
        /\ r.at = run.at /\ r.batch = run.batch /\ r.live = run.live
    BY <1>r, <2>0 DEF Run
  <2>2. SetRun(j, n, r)
    BY <1>3 DEF Proceed
  <2>3. r.at = 1 /\ r.batch = {}
    BY <1>3, <1>r, <2>1 DEF Extract, At, RunFits
  <2> HIDE DEF r
  <2>4. RunFits(j, r, stored') /\ r.pc # "idle"
    <3>1. 1 \in Nat \ {0} /\ {} \in SUBSET Chunks(j)
      OBVIOUS
    <3>2. RunFits(j, r, stored') /\ r.pc \in {"check", "store", "complete"}
      BY <2>1, <2>3, <3>1, CallAtFits
    <3> QED BY <3>2
  <2>5. Quiet
    BY <1>3, <1>t DEF SetStatus, Quiet, TypeOK, Statuses
  <2> QED
    BY <1>3, <1>t, <2>1, <2>2, <2>4, <2>5, GoOnKeeps DEF TypeOK
<1> QED
  BY <1>1, <1>2, <1>3 DEF Begin, Extract

\* Passing a chunk, which is in the batch, recorded or dropped.
LEMMA AdvanceKeeps ==
  ASSUME Inv, NEW j \in Jobs, NEW n \in Slots(j), NEW batch \in SUBSET Chunks(j),
         At(j, n, "check") \/ At(j, n, "record"), Advance(j, n, batch),
         runs[j][n].batch \subseteq batch, Quiet,
         UNCHANGED <<stored, canceller, stuck>>,
         dropped \subseteq dropped', dropped' \subseteq Hashes,
         rows' \subseteq rows \cup ({j} \X batch),
         \/ runs[j][n].at \in batch
         \/ Content[j][runs[j][n].at] \in dropped'
         \/ Recorded(Content[j][runs[j][n].at])
  PROVE  Inv'
<1> DEFINE run == runs[j][n]
           next == run.at + 1
           r == [run EXCEPT !.pc = CallAt(j, next, batch), !.at = next, !.batch = batch]
<1>t. TypeOK
  BY DEF Inv
<1>1. run \in Run /\ run.at \in Nat \ {0}
  BY BatchTyped DEF RunFits
<1>2. next \in Nat \ {0}
  BY <1>1
<1>3. CallAt(j, next, batch) \in {"check", "store", "complete"}
  BY DEF CallAt
<1>4. batch \in SUBSET Nat
  BY ChunksTyped
<1>5. /\ r \in Run /\ r.pc = CallAt(j, next, batch) /\ r.at = next
      /\ r.batch = batch /\ r.live = run.live
  BY <1>1, <1>2, <1>3, <1>4 DEF Run
<1>6. SetRun(j, n, r)
  BY DEF Advance
<1> HIDE DEF r
<1>7. RunFits(j, r, stored') /\ r.pc # "idle"
  BY <1>2, <1>5, CallAtFits
<1>8. \A i \in Chunks(j) : i < r.at => i < run.at \/ i = run.at
  BY <1>1, <1>5, ChunksTyped
<1>9. \A i \in Chunks(j) : i < r.at =>
         \/ i < runs[j][n].at \/ i \in r.batch
         \/ Content[j][i] \in dropped' \/ Recorded(Content[j][i])
  BY <1>5, <1>8
<1> QED
  BY <1>t, <1>5, <1>6, <1>7, <1>9, GoOnKeeps DEF TypeOK

LEMMA CheckKeeps ==
  ASSUME Inv, NEW j \in Jobs, NEW n \in Slots(j), Check(j, n)
  PROVE  Inv'
<1> DEFINE run == runs[j][n]
           h == Content[j][run.at]
<1>t. TypeOK
  BY DEF Inv
<1>r. run \in Run /\ RunFits(j, run, stored) /\ run.batch \in SUBSET Chunks(j)
  BY BatchTyped DEF RunFits
<1>c. run.at \in Chunks(j) /\ h \in Hashes
  <2>1. run.at \in Nat \ {0} /\ run.at <= LastChunk(j)
    BY <1>r DEF Check, At, RunFits
  <2>2. run.at \in Chunks(j)
    BY <2>1, ChunksTyped
  <2> QED BY <2>2, ChunksTyped
<1>1. CASE Recorded(h) /\ Progress(j) /\ Advance(j, n, run.batch) /\ UNCHANGED dropped
  BY <1>1, <1>t, <1>r, ProgressQuiet, AdvanceKeeps DEF Check, TypeOK
<1>2. CASE ~Recorded(h) /\ Proceed(j, n, "record") /\ UNCHANGED <<status, dropped, trouble>>
  <2> DEFINE r == [run EXCEPT !.pc = "record"]
  <2>1. r \in Run /\ r.pc = "record" /\ r.at = run.at /\ r.batch = run.batch /\ r.live = run.live
    BY <1>r DEF Run
  <2>2. SetRun(j, n, r)
    BY <1>2 DEF Proceed
  <2>3. RunFits(j, r, stored')
    BY <1>r, <2>1 DEF Check, At, RunFits
  <2>4. Quiet
    BY <1>2, <1>t DEF Quiet, TypeOK
  <2> HIDE DEF r
  <2> QED
    BY <1>2, <1>t, <2>1, <2>2, <2>3, <2>4, GoOnKeeps DEF Check, TypeOK
<1>3. CASE /\ Trouble /\ Advance(j, n, run.batch)
           /\ dropped' = dropped \cup {h} /\ UNCHANGED status
  <2>1. Quiet
    BY <1>3, <1>t, TroubleTyped DEF Quiet, TypeOK
  <2>2. dropped' \subseteq Hashes /\ h \in dropped'
    BY <1>3, <1>c, <1>t DEF TypeOK
  <2> QED
    BY <1>3, <1>r, <2>1, <2>2, AdvanceKeeps DEF Check
<1> QED
  BY <1>1, <1>2, <1>3 DEF Check

LEMMA RecordKeeps ==
  ASSUME Inv, NEW j \in Jobs, NEW n \in Slots(j), Record(j, n)
  PROVE  Inv'
<1> DEFINE run == runs[j][n]
<1>t. TypeOK
  BY DEF Inv
<1>1. run.at \in Chunks(j) /\ run.batch \subseteq Chunks(j)
  BY BatchTyped, ChunksTyped DEF Record, At, RunFits
<1>2. Batched(j, n) \in SUBSET Chunks(j) /\ run.at \in Batched(j, n) /\ run.batch \subseteq Batched(j, n)
  BY <1>1 DEF Batched
<1>3. rows' \subseteq rows \cup ({j} \X Batched(j, n))
  BY <1>2 DEF Record
<1>4. Quiet
  BY <1>t DEF Record, Quiet, SetStatus, TypeOK, Statuses
<1> QED
  BY <1>t, <1>2, <1>3, <1>4, AdvanceKeeps DEF Record, TypeOK

LEMMA StoreKeeps ==
  ASSUME Inv, NEW j \in Jobs, NEW n \in Slots(j), StoreVectors(j, n)
  PROVE  Inv'
<1> DEFINE run == runs[j][n]
<1>t. TypeOK
  BY DEF Inv
<1>r. run \in Run /\ RunFits(j, run, stored)
  BY BatchTyped
<1>1. CASE /\ stored' = stored \cup Batch(j, n) /\ Proceed(j, n, "complete")
           /\ UNCHANGED <<status, canceller, dropped, trouble>>
  <2> DEFINE r == [run EXCEPT !.pc = "complete"]
  <2>1. r \in Run /\ r.pc = "complete" /\ r.at = run.at /\ r.batch = run.batch /\ r.live = run.live
    BY <1>r DEF Run
  <2>2. SetRun(j, n, r)
    BY <1>1 DEF Proceed
  <2>3. RunFits(j, r, stored')
    BY <1>1, <1>r, <2>1 DEF StoreVectors, At, RunFits, Batch
  <2>4. Quiet
    BY <1>1, <1>t DEF Quiet, TypeOK
  <2>5. stored' \subseteq Pairs
    BY <1>1, <1>t, BatchTyped DEF TypeOK
  <2> HIDE DEF r
  <2> QED
    BY <1>1, <1>t, <2>1, <2>2, <2>3, <2>4, <2>5, GoOnKeeps DEF StoreVectors, TypeOK
<1>2. CASE Losing(j, n)
  BY <1>t, <1>2, FailQuiet, EndKeeps DEF StoreVectors, Losing
<1> QED
  BY <1>1, <1>2 DEF StoreVectors

LEMMA CompleteKeeps ==
  ASSUME Inv, NEW j \in Jobs, NEW n \in Slots(j), Complete(j, n)
  PROVE  Inv'
<1> DEFINE run == runs[j][n]
<1>t. TypeOK
  BY DEF Inv
<1>r. run \in Run /\ RunFits(j, run, stored)
  BY BatchTyped
<1>1. Returning \in Run /\ RunFits(j, Returning, stored')
  BY FreshFits
<1>2. SetRun(j, n, Returning) /\ UNCHANGED <<rows, stored, canceller, stuck, dropped>>
  BY DEF Complete
<1>3. run.at > LastChunk(j) /\ \A i \in run.batch : <<j, i>> \in stored'
  BY <1>r, <1>2 DEF Complete, At, RunFits
<1>4. status' \in [Jobs -> Statuses] /\ trouble' \in 0 .. MaxTrouble
  BY <1>t, TroubleTyped DEF Complete, SetStatus, TypeOK, Statuses
<1>5. \A k \in Jobs : status'[k] = "completed" => status[k] = "completed" \/ k = j
  BY <1>t DEF Complete, SetStatus, TypeOK
<1>6. \A i \in Chunks(j) : ~(i < Returning.at)
  BY ChunksTyped, ReturningIs
<1>7. TypeOK'
  BY <1>t, <1>1, <1>2, <1>4, RunStepTyped DEF TypeOK
<1>8. RunsFit' /\ PassedAccounted' /\ RowsAreOwed' /\ CompletedIsWhole'
  BY <1>1, <1>2, <1>3, <1>5, <1>6, RunStepKeeps
<1> QED
  BY <1>7, <1>8 DEF Inv

\* A run that has made its last call holds nothing.
LEMMA ReturnKeeps ==
  ASSUME Inv, NEW j \in Jobs, NEW n \in Slots(j), Return(j, n)
  PROVE  Inv'
<1>t. TypeOK
  BY DEF Inv
<1>1. Over \in Run /\ RunFits(j, Over, stored')
  BY FreshFits
<1>2. /\ SetRun(j, n, Over) /\ canceller' = [canceller EXCEPT ![j] = 0]
      /\ UNCHANGED <<status, rows, stored, stuck, dropped, trouble>>
  BY DEF Return
<1>3. runs[j][n].batch = {}
  BY BatchTyped DEF Return, RunFits
<1>4. \A i \in Chunks(j) : ~(i < Over.at)
  BY ChunksTyped DEF Over
<1> HIDE DEF Over
<1>5. TypeOK'
  BY <1>t, <1>1, <1>2, RunStepTyped DEF TypeOK
<1>6. RunsFit' /\ PassedAccounted' /\ RowsAreOwed' /\ CompletedIsWhole'
  BY <1>1, <1>2, <1>3, <1>4, RunStepKeeps
<1> QED
  BY <1>5, <1>6 DEF Inv

LEMMA CancelKeeps ==
  ASSUME Inv, NEW j \in Jobs, CancelJob(j)
  PROVE  Inv'
<1> DEFINE n == canceller[j]
           run == runs[j][n]
           r == [run EXCEPT !.live = FALSE]
<1>t. TypeOK
  BY DEF Inv
<1>1. n \in Slots(j)
  BY <1>t, ChunksTyped DEF CancelJob, TypeOK, Slots
<1>2. run \in Run /\ RunFits(j, run, stored)
  BY <1>1, BatchTyped
<1>3. r \in Run /\ r.pc = run.pc /\ r.at = run.at /\ r.batch = run.batch
  BY <1>2, Zenon DEF Run
<1>4. SetRun(j, n, r)
  BY DEF CancelJob, SetRun
<1>5. RunFits(j, r, stored')
  BY <1>2, <1>3 DEF CancelJob, RunFits
<1>6. /\ canceller' = [canceller EXCEPT ![j] = 0]
      /\ UNCHANGED <<status, rows, stored, stuck, dropped, trouble>>
  BY DEF CancelJob
<1> HIDE DEF n, r
<1>7. TypeOK'
  BY <1>t, <1>1, <1>3, <1>4, <1>6, RunStepTyped DEF TypeOK
<1>8. RunsFit' /\ PassedAccounted' /\ RowsAreOwed' /\ CompletedIsWhole'
  BY <1>1, <1>3, <1>4, <1>5, <1>6, RunStepKeeps
<1> QED
  BY <1>7, <1>8 DEF Inv

\* The death of the process notes the batches that it loses.
LEMMA RestartKeeps ==
  ASSUME Inv, Restart
  PROVE  Inv'
<1>t. TypeOK
  BY DEF Inv
<1>1. /\ \A j \in Jobs : \A n \in Slots(j) :
            runs'[j][n] = IF n = 1 /\ status[j] \in PendingStatuses THEN Fresh ELSE Over
      /\ UNCHANGED <<status, rows, stored>>
  BY DEF Restart
<1>2. \A j \in Jobs : \A n \in Slots(j) : \A p \in Batch(j, n) :
        p \in stored \/ HashOf(p) \in dropped'
  <2> SUFFICES ASSUME NEW j \in Jobs, NEW n \in Slots(j), NEW p \in Batch(j, n),
                      p \notin stored
               PROVE  HashOf(p) \in dropped'
    OBVIOUS
  <2>1. p \in UNION {Batch(j, m) : m \in Slots(j)}
    OBVIOUS
  <2>2. p \in UNION {UNION {Batch(k, m) : m \in Slots(k)} : k \in Jobs}
    BY <2>1
  <2> QED
    BY <2>2 DEF Restart
<1>3. dropped \subseteq dropped'
  BY DEF Restart
<1>4. \A h : Accounted(h) => Accounted(h)'
  BY <1>1, <1>2, <1>3, AccountKept
<1>5. Fresh \in Run /\ Over \in Run
  BY DEF Fresh, Over, Run
<1>6. TypeOK'
  <2>1. dropped' \subseteq Hashes
    <3>1. \A j \in Jobs : \A n \in Slots(j) : Batch(j, n) \subseteq Pairs
      BY BatchTyped
    <3>2. UNION {UNION {Batch(j, n) : n \in Slots(j)} : j \in Jobs} \subseteq Pairs
      BY <3>1
    <3>3. \A p \in Pairs : HashOf(p) \in Hashes
      BY PairsTyped
    <3> QED
      BY <3>2, <3>3, <1>t DEF Restart, TypeOK
  <2>2. DOMAIN runs' = Jobs /\ \A j \in Jobs : runs'[j] \in [Slots(j) -> Run]
    BY <1>5 DEF Restart
  <2>3. canceller' \in [Jobs -> Nat] /\ \A j \in Jobs : canceller'[j] <= MaxRuns[j]
    BY ChunksTyped DEF Restart
  <2>4. trouble' \in 0 .. MaxTrouble /\ stuck' = {}
    BY <1>t, TroubleTyped DEF Restart
  <2> QED
    BY <1>1, <1>t, <2>1, <2>2, <2>3, <2>4 DEF TypeOK, Slots, Pairs, Chunks
<1>7. RunsFit'
  <2>1. \A j \in Jobs : RunFits(j, Fresh, stored') /\ RunFits(j, Over, stored')
    BY FreshFits
  <2> QED
    BY <1>1, <2>1 DEF RunsFit, RunFits, Slots, Chunks, LastChunk
<1>8. PassedAccounted'
  <2>1. \A j \in Jobs : \A n \in Slots(j) : runs'[j][n].at = 1
    BY <1>1 DEF Fresh, Over
  <2>2. \A j \in Jobs : \A i \in Chunks(j) : ~(i < 1)
    BY ChunksTyped
  <2> QED
    BY <2>1, <2>2 DEF PassedAccounted, Slots, Chunks
<1>9. RowsAreOwed' /\ CompletedIsWhole'
  BY <1>1, <1>4 DEF Inv, RowsAreOwed, CompletedIsWhole, HashOf, Chunks
<1> QED
  BY <1>6, <1>7, <1>8, <1>9 DEF Inv

-----------------------------------------------------------------------------
(* The theorems. *)

LEMMA InitKeeps == Init => Inv
<1> SUFFICES ASSUME Init PROVE Inv
  OBVIOUS
<1>1. TypeOK
  <2>1. DOMAIN runs = Jobs /\ \A j \in Jobs : runs[j] \in [Slots(j) -> Run]
    <3>1. Over \in Run
      BY DEF Over, Run
    <3> QED
      BY <3>1 DEF Init
  <2>2. ASSUME NEW j \in Jobs PROVE MaxRuns[j] \in Nat /\ 0 <= MaxRuns[j]
    <3>1. MaxRuns[j] \in Nat \ {0}
      BY ChunksTyped
    <3> QED BY <3>1
  <2>3. canceller \in [Jobs -> Nat] /\ \A j \in Jobs : canceller[j] <= MaxRuns[j]
    BY <2>2 DEF Init
  <2>4. trouble \in 0 .. MaxTrouble /\ status \in [Jobs -> Statuses]
    BY IngestAssumption DEF Init, Statuses
  <2> QED
    BY <2>1, <2>3, <2>4 DEF Init, TypeOK
<1>2. \A j \in Jobs : \A n \in Slots(j) : runs[j][n] = Over
  BY DEF Init
<1>3. RunsFit
  BY <1>2, FreshFits DEF RunsFit
<1>4. PassedAccounted
  <2>1. \A j \in Jobs : \A i \in Chunks(j) : ~(i < Over.at)
    BY ChunksTyped DEF Over
  <2> QED
    BY <1>2, <2>1 DEF PassedAccounted
<1>5. RowsAreOwed /\ CompletedIsWhole
  BY DEF Init, RowsAreOwed, CompletedIsWhole
<1> QED
  BY <1>1, <1>3, <1>4, <1>5 DEF Inv

\* What the poller lists says nothing of the runs.
LEMMA OthersKept ==
  ASSUME Inv, UNCHANGED <<status, rows, stored, runs, canceller, dropped, trouble>>,
         stuck' \subseteq Jobs
  PROVE  Inv'
<1>1. TypeOK'
  BY DEF Inv, TypeOK, Slots, Pairs, Chunks
<1>2. RunsFit'
  BY DEF Inv, RunsFit, RunFits, Slots, Chunks, LastChunk
<1>3. \A h : Accounted(h) => Accounted(h)'
  BY AccountKept DEF Batch
<1>4. PassedAccounted'
  BY <1>3 DEF Inv, PassedAccounted, Slots, Chunks
<1>5. RowsAreOwed' /\ CompletedIsWhole'
  BY <1>3 DEF Inv, RowsAreOwed, CompletedIsWhole, HashOf, Chunks
<1> QED
  BY <1>1, <1>2, <1>4, <1>5 DEF Inv

LEMMA NextKeeps ==
  ASSUME Inv, [Next]_vars
  PROVE  Inv'
<1>t. TypeOK
  BY DEF Inv
<1>1. ASSUME NEW j \in Jobs, IngestSource(j) PROVE Inv'
  <2>1. Quiet
    BY <1>1, <1>t DEF IngestSource, SetStatus, Quiet, TypeOK, Statuses
  <2>2. 1 \in Slots(j)
    BY ChunksTyped DEF Slots
  <2> QED
    BY <1>1, <1>t, <2>1, <2>2, ProcessJobKeeps DEF IngestSource, TypeOK
<1>2. ASSUME NEW j \in Jobs, Requeue(j) PROVE Inv'
  <2>1. Quiet /\ stuck' \subseteq Jobs
    BY <1>2, <1>t DEF Requeue, Quiet, TypeOK
  <2>2. CASE \E n \in Slots(j) : ProcessJob(j, n)
    BY <1>2, <2>1, <2>2, ProcessJobKeeps DEF Requeue
  <2>3. CASE UNCHANGED <<runs, canceller>>
    BY <1>2, <2>1, <2>3, OthersKept DEF Requeue
  <2> QED
    BY <1>2, <2>2, <2>3 DEF Requeue
<1>3. ASSUME ListStuck PROVE Inv'
  BY <1>3, <1>t, OthersKept DEF ListStuck, TypeOK
<1>4. ASSUME UNCHANGED vars PROVE Inv'
  BY <1>4, <1>t, OthersKept DEF vars, TypeOK
<1>5. ASSUME NEW j \in Jobs, NEW n \in Slots(j), Abandon(j, n) PROVE Inv'
  <2>1. Quiet
    BY <1>5, <1>t DEF Abandon, Quiet, TypeOK
  <2>2. PICK kept \in SUBSET Batch(j, n) : End(j, n, kept)
    BY <1>5 DEF Abandon
  <2> QED
    BY <1>5, <2>1, <2>2, EndKeeps DEF Abandon
<1>6. ASSUME NEW j \in Jobs, NEW n \in Slots(j), RunStep(j, n) PROVE Inv'
  BY <1>5, <1>6, BeginKeeps, CheckKeeps, RecordKeeps, StoreKeeps, CompleteKeeps, ReturnKeeps
  DEF RunStep, Cancelled, TimeOut
<1> QED
  BY <1>1, <1>2, <1>3, <1>4, <1>6, CancelKeeps, RestartKeeps DEF Next, Poller, EmptyTick

\* The inductive invariant of the worker holds for every set of jobs and
\* documents, whatever runs of one job overlap, are cancelled or die.
THEOREM WorkerInvariant == Spec => []Inv
<1>1. Inv /\ [Next]_vars => Inv'
  BY NextKeeps
<1> QED
  BY InitKeeps, <1>1, PTL DEF Spec

\* Every variable of the worker keeps its type.
THEOREM WorkerTypeCorrect == Spec => []TypeOK
<1>1. Inv => TypeOK
  BY DEF Inv
<1> QED
  BY WorkerInvariant, <1>1, PTL

\* A content with a row has its vector, is held by a run, or was lost noticeably.
THEOREM RowsAlwaysOwed == Spec => []RowsAreOwed
<1>1. Inv => RowsAreOwed
  BY DEF Inv
<1> QED
  BY WorkerInvariant, <1>1, PTL

\* No completed job has left out a chunk of its document.
THEOREM CompletedAlwaysWhole == Spec => []CompletedIsWhole
<1>1. Inv => CompletedIsWhole
  BY DEF Inv
<1> QED
  BY WorkerInvariant, <1>1, PTL

-----------------------------------------------------------------------------
(* Every run ends. *)

\* The number of calls left is a number, and it is positive for a busy run.
LEMMA CallsTyped ==
  ASSUME NEW j \in Jobs, NEW r \in Run, NEW vectors, RunFits(j, r, vectors)
  PROVE  /\ CallsLeft(j, r) \in Nat
         /\ r.pc # "idle" => CallsLeft(j, r) > 0
         /\ r.pc \notin {"idle", "return"} => CallsLeft(j, r) > 1
         /\ CallsLeft(j, Over) = 0 /\ CallsLeft(j, Returning) = 1
<1>1. /\ LastChunk(j) \in Nat /\ r.at \in Nat
      /\ r.pc \in {"idle", "get", "extract", "check", "record", "store", "complete", "return"}
  BY ChunksTyped DEF Run
<1>2. CallsLeft(j, Over) = 0 /\ CallsLeft(j, Returning) = 1
  BY ReturningIs DEF CallsLeft, Over
<1>3. CASE r.pc \in {"check", "record"}
  <2>1. r.at <= LastChunk(j)
    BY <1>3 DEF RunFits
  <2> DEFINE ahead == LastChunk(j) + 1 - r.at
  <2>2. ahead \in Nat \ {0}
    BY <1>1, <2>1
  <2>3. CallsLeft(j, r) = 2 * ahead + 3 \/ CallsLeft(j, r) = 2 * ahead + 2
    BY <1>3 DEF CallsLeft
  <2> HIDE DEF ahead
  <2> QED
    BY <1>2, <1>3, <2>2, <2>3
<1>4. CASE r.pc \notin {"check", "record"}
  <2>1. CallsLeft(j, r) \in
          {2 * LastChunk(j) + 5, 2 * LastChunk(j) + 4, 3, 2} \/ r.pc \in {"idle", "return"}
    BY <1>1, <1>4 DEF CallsLeft
  <2>2. r.pc = "idle" => CallsLeft(j, r) = 0
    BY DEF CallsLeft
  <2>3. r.pc = "return" => CallsLeft(j, r) = 1
    BY DEF CallsLeft
  <2> QED
    BY <1>1, <1>2, <2>1, <2>2, <2>3
<1> QED
  BY <1>3, <1>4

\* Passing a chunk takes the call that looked at it.
LEMMA CallAtDescends ==
  ASSUME NEW j \in Jobs, NEW at \in Nat \ {0}, NEW batch, NEW r \in Run,
         r.at = at, r.pc = CallAt(j, at, batch)
  PROVE  CallsLeft(j, r) \in Nat
         /\ CallsLeft(j, r) <= (IF at <= LastChunk(j) THEN 2 * (LastChunk(j) + 1 - at) + 3 ELSE 3)
<1>1. LastChunk(j) \in Nat
  BY ChunksTyped
<1> QED
  BY <1>1 DEF CallAt, CallsLeft

\* The step of a run leaves it fewer calls.
LEMMA RunDescends ==
  ASSUME Inv, NEW j \in Jobs, NEW n \in Slots(j), RunStep(j, n)
  PROVE  \E r \in Run : SetRun(j, n, r) /\ CallsLeft(j, r) < CallsLeft(j, runs[j][n])
<1> DEFINE run == runs[j][n]
           Goal == \E r \in Run : SetRun(j, n, r) /\ CallsLeft(j, r) < CallsLeft(j, run)
<1>1. run \in Run /\ RunFits(j, run, stored)
  BY BatchTyped
<1>2. LastChunk(j) \in Nat /\ Returning \in Run /\ Over \in Run
  BY ChunksTyped, FreshFits
<1>3. ASSUME SetRun(j, n, Returning), run.pc \notin {"idle", "return"} PROVE Goal
  <2>1. CallsLeft(j, Returning) < CallsLeft(j, run)
    BY <1>1, <1>3, CallsTyped
  <2> QED
    BY <1>2, <1>3, <2>1
<1>4. ASSUME NEW pc \in {"extract", "check", "record", "store", "complete"}, Proceed(j, n, pc)
      PROVE  /\ [run EXCEPT !.pc = pc] \in Run
             /\ [run EXCEPT !.pc = pc].pc = pc /\ [run EXCEPT !.pc = pc].at = run.at
             /\ SetRun(j, n, [run EXCEPT !.pc = pc])
  BY <1>1, <1>4 DEF Proceed, Run
<1>5. ASSUME Begin(j, n) PROVE Goal
  <2>1. run.pc = "get"
    BY <1>5 DEF Begin, At
  <2>2. CASE SetRun(j, n, Returning)
    BY <1>3, <2>1, <2>2
  <2>3. ASSUME Proceed(j, n, "extract") PROVE Goal
    <3> DEFINE r == [run EXCEPT !.pc = "extract"]
    <3>1. r \in Run /\ r.pc = "extract" /\ SetRun(j, n, r)
      BY <1>4, <2>3
    <3> HIDE DEF r
    <3>2. CallsLeft(j, r) < CallsLeft(j, run)
      BY <1>2, <2>1, <3>1 DEF CallsLeft
    <3> QED
      BY <3>1, <3>2
  <2> QED
    BY <1>5, <2>2, <2>3 DEF Begin, End
<1>6. ASSUME Extract(j, n) PROVE Goal
  <2>1. run.pc = "extract" /\ run.at = 1
    BY <1>1, <1>6 DEF Extract, At, RunFits
  <2>2. CASE SetRun(j, n, Returning)
    BY <1>3, <2>1, <2>2
  <2>3. ASSUME Proceed(j, n, CallAt(j, 1, {})) PROVE Goal
    <3> DEFINE r == [run EXCEPT !.pc = CallAt(j, 1, {})]
    <3>1. CallAt(j, 1, {}) \in {"extract", "check", "record", "store", "complete"}
      BY DEF CallAt
    <3>2. r \in Run /\ r.pc = CallAt(j, 1, {}) /\ r.at = 1 /\ SetRun(j, n, r)
      BY <1>4, <2>1, <2>3, <3>1
    <3> HIDE DEF r
    <3>3. /\ CallsLeft(j, r) \in Nat
          /\ CallsLeft(j, r) <= (IF 1 <= LastChunk(j) THEN 2 * (LastChunk(j) + 1 - 1) + 3 ELSE 3)
      BY <3>2, CallAtDescends
    <3>4. CallsLeft(j, run) = 2 * LastChunk(j) + 4
      BY <2>1 DEF CallsLeft
    <3> QED
      BY <1>2, <3>2, <3>3, <3>4
  <2> QED
    BY <1>6, <2>2, <2>3 DEF Extract, End
<1>7. ASSUME NEW batch \in SUBSET Nat, Advance(j, n, batch), run.pc \in {"check", "record"}
      PROVE  Goal
  <2> DEFINE next == run.at + 1
             r == [run EXCEPT !.pc = CallAt(j, next, batch), !.at = next, !.batch = batch]
  <2>1. next \in Nat \ {0} /\ run.at <= LastChunk(j)
    BY <1>1, <1>7 DEF RunFits
  <2>2. CallAt(j, next, batch) \in {"check", "store", "complete"}
    BY DEF CallAt
  <2>3. r \in Run /\ r.pc = CallAt(j, next, batch) /\ r.at = next
    BY <1>1, <2>1, <2>2 DEF Run
  <2>4. SetRun(j, n, r)
    BY <1>7 DEF Advance
  <2> HIDE DEF r
  <2>5. /\ CallsLeft(j, r) \in Nat
        /\ CallsLeft(j, r) <= (IF next <= LastChunk(j) THEN 2 * (LastChunk(j) + 1 - next) + 3 ELSE 3)
    BY <2>1, <2>3, CallAtDescends
  <2>6. CallsLeft(j, run) >= 2 * (LastChunk(j) + 1 - run.at) + 2
    BY <1>1, <1>2, <1>7 DEF CallsLeft, RunFits
  <2>7. CallsLeft(j, r) < CallsLeft(j, run)
    <3>1. run.at \in Nat /\ CallsLeft(j, run) \in Nat
      BY <1>1, CallsTyped DEF RunFits
    <3> QED
      BY <1>2, <2>1, <2>5, <2>6, <3>1
  <2> QED
    BY <2>3, <2>4, <2>7
<1>8. ASSUME Check(j, n) PROVE Goal
  <2>1. run.pc = "check" /\ run.batch \in SUBSET Nat /\ run.at <= LastChunk(j)
    BY <1>1, <1>8, ChunksTyped DEF Check, At, RunFits
  <2>2. CASE Advance(j, n, run.batch)
    BY <1>7, <2>1, <2>2
  <2>3. ASSUME Proceed(j, n, "record") PROVE Goal
    <3> DEFINE r == [run EXCEPT !.pc = "record"]
    <3>1. r \in Run /\ r.pc = "record" /\ r.at = run.at /\ SetRun(j, n, r)
      BY <1>4, <2>3
    <3> HIDE DEF r
    <3>2. run.at \in Nat
      BY <1>1 DEF RunFits
    <3>3. CallsLeft(j, r) < CallsLeft(j, run)
      BY <1>2, <2>1, <3>1, <3>2 DEF CallsLeft
    <3> QED
      BY <3>1, <3>3
  <2> QED
    BY <1>8, <2>2, <2>3 DEF Check
<1>9. ASSUME Record(j, n) PROVE Goal
  <2>1. run.pc = "record" /\ Advance(j, n, Batched(j, n))
    BY <1>9 DEF Record, At
  <2>2. Batched(j, n) \in SUBSET Nat
    BY <1>1, ChunksTyped DEF Batched, RunFits
  <2> QED
    BY <1>7, <2>1, <2>2
<1>10. ASSUME StoreVectors(j, n) PROVE Goal
  <2>1. run.pc = "store"
    BY <1>10 DEF StoreVectors, At
  <2>2. CASE SetRun(j, n, Returning)
    BY <1>3, <2>1, <2>2
  <2>3. ASSUME Proceed(j, n, "complete") PROVE Goal
    <3> DEFINE r == [run EXCEPT !.pc = "complete"]
    <3>1. r \in Run /\ r.pc = "complete" /\ SetRun(j, n, r)
      BY <1>4, <2>3
    <3> HIDE DEF r
    <3>2. CallsLeft(j, r) < CallsLeft(j, run)
      BY <2>1, <3>1 DEF CallsLeft
    <3> QED
      BY <3>1, <3>2
  <2> QED
    BY <1>10, <2>2, <2>3 DEF StoreVectors, Losing, End
<1>11. ASSUME Complete(j, n) \/ Cancelled(j, n) \/ TimeOut(j, n) PROVE Goal
  <2>1. run.pc \notin {"idle", "return"} /\ SetRun(j, n, Returning)
    BY <1>11 DEF Complete, Cancelled, TimeOut, Timed, Abandon, At, End
  <2> QED
    BY <1>3, <2>1
<1>12. ASSUME Return(j, n) PROVE Goal
  <2>1. CallsLeft(j, Over) < CallsLeft(j, run) /\ SetRun(j, n, Over)
    BY <1>1, <1>12, CallsTyped DEF Return
  <2> HIDE DEF Over
  <2> QED
    BY <1>2, <2>1
<1> HIDE DEF Goal
<1>13. Goal
  BY <1>5, <1>6, <1>8, <1>9, <1>10, <1>11, <1>12 DEF RunStep
<1> QED
  BY <1>13 DEF Goal

\* What happens to a busy run besides its own calls: at most a cancellation.
LEMMA OthersDescend ==
  ASSUME Inv, [Next]_vars, ~Restart, NEW j \in Jobs, NEW n \in Slots(j), Busy(j, n)
  PROVE  RunStep(j, n) \/ CallsLeft(j, runs'[j][n]) = CallsLeft(j, runs[j][n])
<1> DEFINE Same == CallsLeft(j, runs'[j][n]) = CallsLeft(j, runs[j][n])
<1>t. TypeOK
  BY DEF Inv
<1>1. ASSUME NEW k \in Jobs, NEW m \in Slots(k), ProcessJob(k, m) PROVE Same
  <2>1. k # j \/ m # n
    BY <1>1 DEF ProcessJob
  <2>2. Fresh \in Run /\ SetRun(k, m, Fresh)
    BY <1>1, FreshFits DEF ProcessJob
  <2> QED
    BY <1>t, <2>1, <2>2, OneRun
<1>2. ASSUME NEW k \in Jobs, IngestSource(k) PROVE Same
  <2>1. 1 \in Slots(k) /\ ProcessJob(k, 1)
    BY <1>2, ChunksTyped DEF IngestSource, Slots
  <2> QED
    BY <1>1, <2>1
<1>3. ASSUME NEW k \in Jobs, Requeue(k) PROVE Same
  BY <1>1, <1>3 DEF Requeue
<1>4. ASSUME NEW k \in Jobs, CancelJob(k) PROVE Same
  <2> DEFINE m == canceller[k]
             r == [runs[k][m] EXCEPT !.live = FALSE]
  <2>1. m \in Slots(k)
    BY <1>t, <1>4, ChunksTyped DEF CancelJob, TypeOK, Slots
  <2>2. runs[k][m] \in Run
    BY <1>t, <2>1, RunTyped
  <2>3. r \in Run /\ r.pc = runs[k][m].pc /\ r.at = runs[k][m].at
    BY <2>2, Zenon DEF Run
  <2>4. SetRun(k, m, r)
    BY <1>4 DEF CancelJob, SetRun
  <2> HIDE DEF m, r
  <2>5. /\ runs'[k][m] = r
        /\ \A i \in Jobs : \A q \in Slots(i) : i # k \/ q # m => runs'[i][q] = runs[i][q]
    BY <1>t, <2>1, <2>3, <2>4, OneRun
  <2>6. CASE k = j /\ m = n
    BY <2>3, <2>5, <2>6 DEF CallsLeft
  <2>7. CASE k # j \/ m # n
    BY <2>5, <2>7
  <2> QED
    BY <2>6, <2>7
<1>5. ASSUME NEW k \in Jobs, NEW m \in Slots(k), RunStep(k, m), k # j \/ m # n PROVE Same
  <2>1. PICK r \in Run : SetRun(k, m, r)
    BY <1>5, RunDescends
  <2> QED
    BY <1>t, <1>5, <2>1, OneRun
<1>6. ASSUME UNCHANGED runs PROVE Same
  BY <1>6
<1>7. ListStuck \/ EmptyTick \/ UNCHANGED vars => UNCHANGED runs
  BY DEF ListStuck, EmptyTick, vars
<1> HIDE DEF Same
<1>8. RunStep(j, n) \/ Same
  <2>1. \/ \E k \in Jobs : IngestSource(k) \/ CancelJob(k) \/ Requeue(k)
        \/ \E k \in Jobs : \E m \in Slots(k) : RunStep(k, m)
        \/ UNCHANGED runs
    BY <1>7, Zenon DEF Next, Poller
  <2>2. ASSUME NEW k \in Jobs, NEW m \in Slots(k), RunStep(k, m) PROVE RunStep(j, n) \/ Same
    BY <1>5, <2>2, Zenon
  <2> QED
    BY <1>2, <1>3, <1>4, <1>6, <2>1, <2>2, Zenon
<1> QED
  BY <1>8 DEF Same

\* Each run of a job ends after a number of its own calls that is fixed when it
\* starts, unless the process dies first: whatever other runs of the job, the
\* poller and cancellers do meanwhile, none of them gives it more to do.
THEOREM WorkersAlwaysDescend == Spec => RunsDescend
<1>1. ASSUME Inv, [Next]_vars, NEW j \in Jobs, NEW n \in Slots(j)
      PROVE  /\ RunStep(j, n) => CallsLeft(j, runs'[j][n]) < CallsLeft(j, runs[j][n])
             /\ Busy(j, n) /\ ~Restart =>
                  CallsLeft(j, runs'[j][n]) <= CallsLeft(j, runs[j][n])
  <2>1. TypeOK /\ runs[j][n] \in Run /\ RunFits(j, runs[j][n], stored)
    BY <1>1, BatchTyped DEF Inv
  <2>2. CallsLeft(j, runs[j][n]) \in Nat
    BY <2>1, CallsTyped
  <2>3. ASSUME RunStep(j, n) PROVE CallsLeft(j, runs'[j][n]) < CallsLeft(j, runs[j][n])
    <3>1. PICK r \in Run : SetRun(j, n, r) /\ CallsLeft(j, r) < CallsLeft(j, runs[j][n])
      BY <1>1, <2>3, RunDescends
    <3>2. runs'[j][n] = r
      BY <2>1, <3>1, OneRun
    <3> QED
      BY <3>1, <3>2
  <2>4. Inv'
    BY <1>1, NextKeeps
  <2>5. CallsLeft(j, runs'[j][n]) \in Nat
    <3>1. runs'[j][n] \in Run /\ RunFits(j, runs'[j][n], stored')
      BY <2>4 DEF Inv, TypeOK, RunsFit, RunFits, Slots, Chunks, LastChunk
    <3> QED
      BY <3>1, CallsTyped
  <2>6. ASSUME Busy(j, n), ~Restart
        PROVE  CallsLeft(j, runs'[j][n]) <= CallsLeft(j, runs[j][n])
    BY <1>1, <2>2, <2>3, <2>5, <2>6, OthersDescend
  <2> QED
    BY <2>3, <2>6
<1>2. Inv /\ [Next]_vars =>
        [\A j \in Jobs : \A n \in Slots(j) :
           /\ RunStep(j, n) => CallsLeft(j, runs'[j][n]) < CallsLeft(j, runs[j][n])
           /\ Busy(j, n) /\ ~Restart =>
                CallsLeft(j, runs'[j][n]) <= CallsLeft(j, runs[j][n])]_vars
  BY <1>1
<1> QED
  BY <1>2, WorkerInvariant, PTL DEF Spec, RunsDescend

-----------------------------------------------------------------------------
(* Each content implements ContentContract. *)

LEMMA FateIs ==
  ASSUME NEW h
  PROVE  /\ FateOf(h) = IF Stored(h) THEN "stored" ELSE IF UnderWay(h) THEN "held"
                        ELSE IF h \in dropped THEN "lost" ELSE "unknown"
         /\ FateOf(h)' = IF Stored(h)' THEN "stored" ELSE IF UnderWay(h)' THEN "held"
                         ELSE IF h \in dropped' THEN "lost" ELSE "unknown"
BY DEF FateOf

\* What becomes of a content when nothing new is taken up: it stays what it is, or
\* what was held is stored or lost.
LEMMA ContentLeft ==
  ASSUME NEW h \in Hashes,
         Stored(h) => Stored(h)', h \in dropped => h \in dropped',
         UnderWay(h) => UnderWay(h)' \/ Stored(h)' \/ h \in dropped',
         UnderWay(h)' => UnderWay(h),
         Stored(h)' => Stored(h) \/ UnderWay(h),
         h \in dropped' => h \in dropped \/ UnderWay(h),
         Recorded(h)' <=> Recorded(h),
         Claims(h)' \subseteq Claims(h)
  PROVE  CC(h)!Next
<1>1. Recorded(h)' = Recorded(h)
  BY Zenon DEF Recorded
<1>2. \/ FateOf(h)' = FateOf(h)
      \/ FateOf(h) = "held" /\ FateOf(h)' \in {"stored", "lost"}
  BY FateIs
<1>3. CASE FateOf(h)' = FateOf(h)
  <2>1. CC(h)!Withdraw
    BY <1>1, <1>3 DEF CC!Withdraw, CC!Withdraws
  <2> QED BY <2>1 DEF CC!Next
<1>4. CASE FateOf(h) = "held" /\ FateOf(h)' = "stored"
  <2>1. CC(h)!Store
    BY <1>1, <1>4 DEF CC!Store, CC!Turn, CC!Withdraws
  <2> QED BY <2>1 DEF CC!Next
<1>5. CASE FateOf(h) = "held" /\ FateOf(h)' = "lost"
  <2>1. CC(h)!Lose
    BY <1>1, <1>5 DEF CC!Lose, CC!Turn, CC!Withdraws
  <2> QED BY <2>1 DEF CC!Next
<1> QED
  BY <1>2, <1>3, <1>4, <1>5

\* The batches after one run has changed.
LEMMA OneBatch ==
  ASSUME TypeOK, NEW j \in Jobs, NEW n \in Slots(j), NEW r \in Run, SetRun(j, n, r)
  PROVE  /\ Batch(j, n)' = {j} \X r.batch
         /\ \A k \in Jobs : \A m \in Slots(k) :
              k # j \/ m # n => Batch(k, m)' = Batch(k, m)
BY OneRun DEF Batch

\* No job is completed that was not.
NoneCompletes == \A k \in Jobs : status'[k] = "completed" => status[k] = "completed"

LEMMA ClaimsFall ==
  ASSUME NoneCompletes, NEW h
  PROVE  Claims(h)' \subseteq Claims(h)
BY DEF NoneCompletes, Claims, Chunks

\* A step of one run that takes up no chunk.
LEMMA RunLeaves ==
  ASSUME Inv, NEW j \in Jobs, NEW n \in Slots(j), NEW r \in Run, SetRun(j, n, r),
         r.batch \subseteq runs[j][n].batch,
         stored \subseteq stored', stored' \subseteq stored \cup Batch(j, n),
         dropped \subseteq dropped',
         \A h \in dropped' \ dropped : \E p \in Batch(j, n) : HashOf(p) = h,
         \A i \in runs[j][n].batch :
           i \in r.batch \/ <<j, i>> \in stored' \/ Content[j][i] \in dropped',
         rows' = rows, NoneCompletes,
         NEW h \in Hashes
  PROVE  CC(h)!Next
<1>1. /\ Batch(j, n)' = {j} \X r.batch
      /\ \A k \in Jobs : \A m \in Slots(k) : k # j \/ m # n => Batch(k, m)' = Batch(k, m)
  BY OneBatch DEF Inv
<1>2. \A k \in Jobs : \A m \in Slots(k) : Batch(k, m)' \subseteq Batch(k, m)
  BY <1>1 DEF Batch
<1>3. ASSUME UnderWay(h) PROVE UnderWay(h)' \/ Stored(h)' \/ h \in dropped'
  <2>0. PICK k \in Jobs : \E m \in Slots(k) : \E p \in Batch(k, m) : HashOf(p) = h
    BY <1>3 DEF UnderWay
  <2>1. PICK m \in Slots(k) : \E p \in Batch(k, m) : HashOf(p) = h
    BY <2>0
  <2>2. PICK p \in Batch(k, m) : HashOf(p) = h
    BY <2>1
  <2>3. p \in Batch(k, m)' \/ p \in stored' \/ HashOf(p) \in dropped'
    <3>1. CASE k = j /\ m = n
      <4>1. PICK i \in runs[j][n].batch : p = <<j, i>>
        BY <2>2, <3>1 DEF Batch
      <4>2. HashOf(p) = Content[j][i]
        BY <4>1 DEF HashOf
      <4> QED BY <1>1, <3>1, <4>1, <4>2
    <3>2. CASE k # j \/ m # n
      BY <1>1, <2>2, <3>2
    <3> QED BY <3>1, <3>2
  <2>4. p \in Batch(k, m)' => UnderWay(h)'
    BY <2>2 DEF UnderWay, HashOf, Slots
  <2>5. p \in stored' => Stored(h)'
    BY <2>2 DEF Stored, HashOf
  <2> QED BY <2>2, <2>3, <2>4, <2>5
<1>4. UnderWay(h)' => UnderWay(h)
  BY <1>2 DEF UnderWay, HashOf, Slots
<1>5. ASSUME NEW p \in Batch(j, n), HashOf(p) = h PROVE UnderWay(h)
  BY <1>5 DEF UnderWay
<1>6. Stored(h)' => Stored(h) \/ UnderWay(h)
  BY <1>5 DEF Stored, HashOf
<1>7. Stored(h) => Stored(h)'
  BY DEF Stored, HashOf
<1>8. h \in dropped' => h \in dropped \/ UnderWay(h)
  BY <1>5
<1>9. Recorded(h)' <=> Recorded(h)
  BY DEF Recorded, HashOf
<1> QED
  BY <1>3, <1>4, <1>6, <1>7, <1>8, <1>9, ClaimsFall, ContentLeft

\* A run that ends without completing its job.
LEMMA EndLeaves ==
  ASSUME Inv, NEW j \in Jobs, NEW n \in Slots(j), NEW kept \in SUBSET Batch(j, n),
         End(j, n, kept), rows' = rows, NoneCompletes, NEW h \in Hashes
  PROVE  CC(h)!Next
<1>1. /\ SetRun(j, n, Returning) /\ stored' = stored \cup kept
      /\ dropped' = dropped \cup {HashOf(p) : p \in Batch(j, n) \ (stored \cup kept)}
  BY DEF End
<1>2. Returning \in Run /\ Returning.batch = {}
  BY ReturningIs
<1>3. \A i \in runs[j][n].batch : <<j, i>> \in stored' \/ Content[j][i] \in dropped'
  BY <1>1, BatchTyped
<1>4. \A g \in dropped' \ dropped : \E p \in Batch(j, n) : HashOf(p) = g
  BY <1>1
<1> QED
  BY <1>1, <1>2, <1>3, <1>4, RunLeaves

\* A run that goes on with its batch.
LEMMA GoOnLeaves ==
  ASSUME Inv, NEW j \in Jobs, NEW n \in Slots(j), NEW r \in Run, SetRun(j, n, r),
         r.batch = runs[j][n].batch,
         stored \subseteq stored', stored' \subseteq stored \cup Batch(j, n),
         UNCHANGED <<rows, dropped>>, NoneCompletes, NEW h \in Hashes
  PROVE  CC(h)!Next
BY RunLeaves

LEMMA ProceedTyped ==
  ASSUME Inv, NEW j \in Jobs, NEW n \in Slots(j),
         NEW pc \in {"extract", "record", "check", "store", "complete"}
  PROVE  LET r == [runs[j][n] EXCEPT !.pc = pc] IN r \in Run /\ r.batch = runs[j][n].batch
BY BatchTyped DEF Run

\* A run's state behind the chunk it was at.
LEMMA AdvanceTyped ==
  ASSUME Inv, NEW j \in Jobs, NEW n \in Slots(j), NEW batch \in SUBSET Chunks(j),
         Advance(j, n, batch)
  PROVE  \E r \in Run : SetRun(j, n, r) /\ r.batch = batch
<1> DEFINE run == runs[j][n]
           next == run.at + 1
           r == [run EXCEPT !.pc = CallAt(j, next, batch), !.at = next, !.batch = batch]
<1>1. run \in Run /\ run.at \in Nat
  BY BatchTyped DEF RunFits
<1>2. CallAt(j, next, batch) \in {"check", "store", "complete"}
  BY DEF CallAt
<1>3. batch \in SUBSET Nat
  BY ChunksTyped
<1>4. next \in Nat \ {0}
  BY <1>1
<1>5. SetRun(j, n, r)
  BY DEF Advance
<1>6. r \in Run /\ r.batch = batch
  BY <1>1, <1>2, <1>3, <1>4 DEF Run
<1> QED
  BY <1>5, <1>6

LEMMA BeginRefines ==
  ASSUME Inv, NEW j \in Jobs, NEW n \in Slots(j), Begin(j, n) \/ Extract(j, n),
         NEW h \in Hashes
  PROVE  CC(h)!Next
<1>t. TypeOK
  BY DEF Inv
<1>1. CASE Fail(j) /\ End(j, n, {}) /\ rows' = rows
  BY <1>t, <1>1, FailQuiet, EndLeaves DEF Quiet, NoneCompletes
<1>2. ASSUME NEW pc \in {"extract", "check", "store", "complete"}, Proceed(j, n, pc),
             SetStatus(j, "extracting") \/ SetStatus(j, "chunking"),
             UNCHANGED <<rows, stored, dropped>>
      PROVE  CC(h)!Next
  <2>1. NoneCompletes
    BY <1>2, <1>t DEF SetStatus, NoneCompletes, TypeOK
  <2> QED
    BY <1>2, <2>1, ProceedTyped, GoOnLeaves DEF Proceed
<1>3. CallAt(j, 1, {}) \in {"check", "store", "complete"}
  BY DEF CallAt
<1> QED
  BY <1>1, <1>2, <1>3 DEF Begin, Extract

\* A chunk whose duplicate check failed is skipped, and lost if it was not known.
LEMMA SkipRefines ==
  ASSUME Inv, NEW j \in Jobs, NEW n \in Slots(j), NEW r \in Run, SetRun(j, n, r),
         r.batch = runs[j][n].batch, NEW g,
         dropped' = dropped \cup {g}, UNCHANGED <<status, rows, stored>>, NEW h \in Hashes
  PROVE  CC(h)!Next
<1>1. \A k \in Jobs : \A m \in Slots(k) : Batch(k, m)' = Batch(k, m)
  BY OneBatch DEF Inv, Batch
<1>2. UnderWay(h)' <=> UnderWay(h)
  BY <1>1 DEF UnderWay, HashOf, Slots
<1>3. Stored(h)' <=> Stored(h)
  BY DEF Stored, HashOf
<1>4. Recorded(h)' = Recorded(h)
  BY DEF Recorded, HashOf
<1>5. Claims(h)' = Claims(h)
  BY DEF Claims, Chunks
<1>6. CASE FateOf(h) = "unknown" /\ h = g
  <2>1. FateOf(h)' = "lost"
    BY <1>2, <1>3, <1>6, FateIs
  <2>2. CC(h)!Skip
    BY <1>4, <1>5, <1>6, <2>1 DEF CC!Skip, CC!Turn, CC!Withdraws
  <2> QED BY <2>2 DEF CC!Next
<1>7. CASE ~(FateOf(h) = "unknown" /\ h = g)
  <2>1. FateOf(h)' = FateOf(h)
    BY <1>2, <1>3, <1>7, FateIs
  <2>2. CC(h)!Withdraw
    BY <1>4, <1>5, <2>1 DEF CC!Withdraw, CC!Withdraws
  <2> QED BY <2>2 DEF CC!Next
<1> QED
  BY <1>6, <1>7

LEMMA CheckRefines ==
  ASSUME Inv, NEW j \in Jobs, NEW n \in Slots(j), Check(j, n), NEW h \in Hashes
  PROVE  CC(h)!Next
<1> DEFINE run == runs[j][n]
           g == Content[j][run.at]
<1>t. TypeOK
  BY DEF Inv
<1>r. run.batch \in SUBSET Chunks(j)
  BY BatchTyped DEF RunFits
<1>1. CASE Progress(j) /\ Advance(j, n, run.batch) /\ UNCHANGED <<rows, stored, dropped>>
  <2>1. PICK r \in Run : SetRun(j, n, r) /\ r.batch = run.batch
    BY <1>1, <1>r, AdvanceTyped
  <2>2. NoneCompletes
    BY <1>1, <1>t, ProgressQuiet DEF Quiet, NoneCompletes
  <2> QED BY <1>1, <2>1, <2>2, GoOnLeaves
<1>2. CASE Proceed(j, n, "record") /\ UNCHANGED <<status, rows, stored, dropped>>
  <2>1. NoneCompletes
    BY <1>2 DEF NoneCompletes
  <2> QED BY <1>2, <2>1, ProceedTyped, GoOnLeaves DEF Proceed
<1>3. CASE Advance(j, n, run.batch) /\ dropped' = dropped \cup {g} /\ UNCHANGED <<status, rows, stored>>
  <2>1. PICK r \in Run : SetRun(j, n, r) /\ r.batch = run.batch
    BY <1>3, <1>r, AdvanceTyped
  <2> QED BY <1>3, <2>1, SkipRefines
<1> QED
  BY <1>1, <1>2, <1>3 DEF Check

\* The one step that takes a content up.
LEMMA RecordRefines ==
  ASSUME Inv, NEW j \in Jobs, NEW n \in Slots(j), Record(j, n), NEW h \in Hashes
  PROVE  CC(h)!Next
<1> DEFINE run == runs[j][n]
<1>t. TypeOK
  BY DEF Inv
<1>1. run.at \in Chunks(j) /\ run.batch \subseteq Chunks(j)
  BY BatchTyped, ChunksTyped DEF Record, At, RunFits
<1>2. Batched(j, n) \in SUBSET Chunks(j) /\ Batched(j, n) = run.batch \cup {run.at}
  BY <1>1 DEF Batched
<1>3. PICK r \in Run : SetRun(j, n, r) /\ r.batch = run.batch \cup {run.at}
  BY <1>2, AdvanceTyped DEF Record
<1>4. /\ Batch(j, n)' = Batch(j, n) \cup {<<j, run.at>>}
      /\ \A k \in Jobs : \A m \in Slots(k) : k # j \/ m # n => Batch(k, m)' = Batch(k, m)
  BY <1>3, <1>t, OneBatch DEF Batch
<1>5. HashOf(<<j, run.at>>) = Content[j][run.at]
  BY DEF HashOf
<1>6. UNCHANGED <<stored, dropped>> /\ rows' \in {rows, rows \cup {<<j, run.at>>}}
  BY DEF Record
<1>7. NoneCompletes
  BY <1>t DEF Record, SetStatus, NoneCompletes, TypeOK
<1>8. Stored(h)' <=> Stored(h)
  BY <1>6 DEF Stored, HashOf
<1>9. Claims(h)' \subseteq Claims(h)
  BY <1>7, ClaimsFall
<1>10. CASE h = Content[j][run.at]
  <2>1. UnderWay(h)'
    BY <1>4, <1>5, <1>10 DEF UnderWay, HashOf, Slots
  <2>2. FateOf(h)' = IF FateOf(h) = "stored" THEN "stored" ELSE "held"
    BY <1>8, <2>1, FateIs
  <2>3. Recorded(h) => Recorded(h)'
    BY <1>6 DEF Recorded, HashOf
  <2>4. Recorded(h)' \in {Recorded(h), TRUE}
    BY <2>3 DEF Recorded
  <2>5. CC(h)!Take
    BY <1>9, <2>2, <2>4 DEF CC!Take, CC!Withdraws
  <2> QED BY <2>5 DEF CC!Next
<1>11. CASE h # Content[j][run.at]
  <2>1. UnderWay(h)' <=> UnderWay(h)
    <3>1. \A k \in Jobs : \A m \in Slots(k) :
            (\E p \in Batch(k, m)' : HashOf(p) = h) <=> (\E p \in Batch(k, m) : HashOf(p) = h)
      BY <1>4, <1>5, <1>11
    <3> QED BY <3>1 DEF UnderWay, HashOf, Slots
  <2>2. Recorded(h)' <=> Recorded(h)
    BY <1>5, <1>6, <1>11 DEF Recorded, HashOf
  <2> QED BY <1>6, <1>8, <1>9, <2>1, <2>2, ContentLeft
<1> QED
  BY <1>10, <1>11

LEMMA StoreRefines ==
  ASSUME Inv, NEW j \in Jobs, NEW n \in Slots(j), StoreVectors(j, n), NEW h \in Hashes
  PROVE  CC(h)!Next
<1>t. TypeOK
  BY DEF Inv
<1>1. CASE /\ stored' = stored \cup Batch(j, n) /\ Proceed(j, n, "complete")
           /\ UNCHANGED <<status, rows, dropped>>
  <2>1. NoneCompletes
    BY <1>1 DEF NoneCompletes
  <2> QED BY <1>1, <2>1, ProceedTyped, GoOnLeaves DEF Proceed
<1>2. CASE Losing(j, n) /\ rows' = rows
  BY <1>t, <1>2, FailQuiet, EndLeaves DEF Losing, Quiet, NoneCompletes
<1> QED
  BY <1>1, <1>2 DEF StoreVectors

\* A job claims its contents only behind its last chunk, and ends with a batch
\* that is stored.
LEMMA CompleteRefines ==
  ASSUME Inv, NEW j \in Jobs, NEW n \in Slots(j), Complete(j, n), NEW h \in Hashes
  PROVE  CC(h)!Next
<1> DEFINE run == runs[j][n]
<1>t. TypeOK
  BY DEF Inv
<1>1. /\ Returning \in Run /\ Returning.batch = {} /\ SetRun(j, n, Returning)
      /\ UNCHANGED <<rows, stored, dropped>>
  BY ReturningIs DEF Complete
<1>2. run \in Run /\ RunFits(j, run, stored) /\ run.pc = "complete"
  BY BatchTyped DEF Complete, At
<1>3. run.at > LastChunk(j) /\ run.at \in Nat /\ Batch(j, n) \subseteq stored
  BY <1>2 DEF RunFits, Batch
<1>4. /\ Batch(j, n)' = {}
      /\ \A k \in Jobs : \A m \in Slots(k) : k # j \/ m # n => Batch(k, m)' = Batch(k, m)
  BY <1>1, <1>t, OneBatch
<1>5. Stored(h)' <=> Stored(h)
  BY <1>1 DEF Stored, HashOf
<1>6. ~Stored(h) => (UnderWay(h)' <=> UnderWay(h))
  <2>1. ~Stored(h) => \A p \in Batch(j, n) : HashOf(p) # h
    BY <1>3 DEF Stored
  <2>2. ~Stored(h) => \A k \in Jobs : \A m \in Slots(k) :
          (\E p \in Batch(k, m)' : HashOf(p) = h) <=> (\E p \in Batch(k, m) : HashOf(p) = h)
    BY <1>4, <2>1
  <2> QED BY <2>2 DEF UnderWay, HashOf, Slots
<1>7. FateOf(h)' = FateOf(h)
  BY <1>1, <1>5, <1>6, FateIs
<1>8. Recorded(h)' = Recorded(h)
  BY <1>1 DEF Recorded, HashOf
<1>9. CASE UNCHANGED status
  <2>1. Claims(h)' = Claims(h)
    BY <1>9 DEF Claims, Chunks
  <2>2. CC(h)!Withdraw
    BY <1>7, <1>8, <2>1 DEF CC!Withdraw, CC!Withdraws
  <2> QED BY <2>2 DEF CC!Next
<1>10. CASE SetStatus(j, "completed")
  <2>1. status' = [status EXCEPT ![j] = "completed"] /\ status \in [Jobs -> Statuses]
    BY <1>10, <1>t DEF SetStatus, TypeOK
  <2>2. Claims(h) \subseteq Claims(h)'
    BY <2>1 DEF Claims, Chunks
  <2>3. CASE \E i \in Chunks(j) : Content[j][i] = h
    <3>1. PICK i \in Chunks(j) : Content[j][i] = h
      BY <2>3
    <3>2. i < run.at
      BY <1>3, <3>1, ChunksTyped
    <3>3. Accounted(h)
      BY <3>1, <3>2 DEF Inv, PassedAccounted
    <3>4. FateOf(h) # "unknown"
      BY <3>3, FateIs DEF Accounted
    <3>5. CC(h)!Claim
      BY <1>7, <1>8, <2>2, <3>4 DEF CC!Claim
    <3> QED BY <3>5 DEF CC!Next
  <2>4. CASE ~\E i \in Chunks(j) : Content[j][i] = h
    <3>1. Claims(h)' \subseteq Claims(h)
      BY <2>1, <2>4 DEF Claims, Chunks
    <3>2. CC(h)!Withdraw
      BY <1>7, <1>8, <3>1 DEF CC!Withdraw, CC!Withdraws
    <3> QED BY <3>2 DEF CC!Next
  <2> QED BY <2>3, <2>4
<1> QED
  BY <1>9, <1>10 DEF Complete

LEMMA ReturnRefines ==
  ASSUME Inv, NEW j \in Jobs, NEW n \in Slots(j), Return(j, n), NEW h \in Hashes
  PROVE  CC(h)!Next
<1>1. /\ Over \in Run /\ Over.batch = {} /\ SetRun(j, n, Over)
      /\ UNCHANGED <<rows, stored, dropped>> /\ NoneCompletes
  BY DEF Return, Over, Run, NoneCompletes
<1>2. runs[j][n].batch = {}
  BY BatchTyped DEF Return, RunFits
<1> QED
  BY <1>1, <1>2, GoOnLeaves

\* A run that begins, for whomever, has no batch yet, and none is replaced.
LEMMA ProcessJobRefines ==
  ASSUME Inv, NEW j \in Jobs, NEW n \in Slots(j), ProcessJob(j, n), NoneCompletes,
         UNCHANGED <<rows, stored, dropped>>, NEW h \in Hashes
  PROVE  CC(h)!Next
<1>1. Fresh \in Run /\ Fresh.batch = {} /\ SetRun(j, n, Fresh)
  BY DEF ProcessJob, Fresh, Run
<1>2. runs[j][n].batch = {}
  BY BatchTyped DEF ProcessJob, Busy, RunFits
<1> QED
  BY <1>1, <1>2, GoOnLeaves

\* What says nothing of a content.
LEMMA OthersRefine ==
  ASSUME UNCHANGED <<status, rows, stored, runs, dropped>>, NEW h \in Hashes
  PROVE  CC(h)!Next
<1>1. UnderWay(h)' = UnderWay(h) /\ Stored(h)' = Stored(h) /\ Recorded(h)' = Recorded(h)
      /\ Claims(h)' = Claims(h)
  BY DEF UnderWay, Stored, Recorded, Claims, Batch, HashOf, Slots, Chunks
<1>2. FateOf(h)' = FateOf(h)
  BY <1>1, FateIs
<1>3. CC(h)!Withdraw
  BY <1>1, <1>2 DEF CC!Withdraw, CC!Withdraws
<1> QED
  BY <1>3 DEF CC!Next

LEMMA CancelRefines ==
  ASSUME Inv, NEW j \in Jobs, CancelJob(j), NEW h \in Hashes
  PROVE  CC(h)!Next
<1> DEFINE n == canceller[j]
           r == [runs[j][n] EXCEPT !.live = FALSE]
<1>1. n \in Slots(j)
  BY ChunksTyped DEF CancelJob, TypeOK, Slots, Inv
<1>2. runs[j][n] \in Run
  BY <1>1, BatchTyped
<1>3. r \in Run /\ r.batch = runs[j][n].batch
  BY <1>2, Zenon DEF Run
<1>4. SetRun(j, n, r) /\ UNCHANGED <<rows, stored, dropped>> /\ NoneCompletes
  BY DEF CancelJob, SetRun, NoneCompletes
<1> HIDE DEF n, r
<1> QED
  BY <1>1, <1>3, <1>4, GoOnLeaves

\* The death of the process loses what was held and not stored.
LEMMA RestartRefines ==
  ASSUME Inv, Restart, NEW h \in Hashes
  PROVE  CC(h)!Next
<1> DEFINE Held == UNION {UNION {Batch(j, n) : n \in Slots(j)} : j \in Jobs}
<1>1. /\ \A j \in Jobs : \A n \in Slots(j) :
            runs'[j][n] = IF n = 1 /\ status[j] \in PendingStatuses THEN Fresh ELSE Over
      /\ UNCHANGED <<status, rows, stored>>
      /\ dropped' = dropped \cup {HashOf(p) : p \in Held \ stored}
  BY DEF Restart
<1>2. ~UnderWay(h)'
  <2>1. \A j \in Jobs : \A n \in Slots(j) : runs'[j][n].batch = {}
    BY <1>1 DEF Fresh, Over
  <2> QED BY <2>1 DEF UnderWay, Batch, Slots
<1>3. \A p \in Held : \E j \in Jobs : \E n \in Slots(j) : p \in Batch(j, n)
  OBVIOUS
<1>4. \A j \in Jobs : \A n \in Slots(j) : \A p \in Batch(j, n) : p \in Held
  OBVIOUS
<1> HIDE DEF Held
<1>5. UnderWay(h) => Stored(h)' \/ h \in dropped'
  BY <1>1, <1>4 DEF UnderWay, Stored, HashOf
<1>6. h \in dropped' => h \in dropped \/ UnderWay(h)
  BY <1>1, <1>3 DEF UnderWay
<1>7. (Stored(h)' <=> Stored(h)) /\ (Recorded(h)' <=> Recorded(h))
  BY <1>1 DEF Stored, Recorded, HashOf
<1>8. Claims(h)' \subseteq Claims(h)
  BY <1>1, ClaimsFall DEF NoneCompletes
<1> QED
  BY <1>1, <1>2, <1>5, <1>6, <1>7, <1>8, ContentLeft

\* Each content implements ContentContract, for every set of jobs and documents
\* and any number of runs of one job at a time: none that the worker has met is
\* forgotten, and a job completes only when it has met all of its document.
THEOREM ContentsImplementContract == Spec => ImplementsContentContract
<1>1. Init => \A h \in Hashes : CC(h)!Init
  <2> SUFFICES ASSUME Init, NEW h \in Hashes PROVE CC(h)!Init
    OBVIOUS
  <2>1. \A j \in Jobs : \A n \in Slots(j) : runs[j][n].batch = {}
    BY DEF Init, Over
  <2>2. ~UnderWay(h) /\ ~Stored(h) /\ h \notin dropped /\ ~Recorded(h)
    BY <2>1 DEF Init, UnderWay, Batch, Stored, Recorded
  <2>3. Claims(h) = {}
    BY DEF Init, Claims
  <2> QED BY <2>2, <2>3, FateIs DEF CC!Init
<1>2. ASSUME Inv, [Next]_vars
      PROVE  \A h \in Hashes : [CC(h)!Next]_(CC(h)!view)
  <2> SUFFICES ASSUME NEW h \in Hashes PROVE CC(h)!Next
    OBVIOUS
  <2>t. TypeOK
    BY <1>2 DEF Inv
  <2>1. ASSUME NEW j \in Jobs, IngestSource(j) PROVE CC(h)!Next
    <3>1. NoneCompletes
      BY <2>1, <2>t DEF IngestSource, SetStatus, NoneCompletes, TypeOK
    <3>2. 1 \in Slots(j)
      BY ChunksTyped DEF Slots
    <3> QED BY <1>2, <2>1, <3>1, <3>2, ProcessJobRefines DEF IngestSource
  <2>2. ASSUME NEW j \in Jobs, Requeue(j) PROVE CC(h)!Next
    <3>1. NoneCompletes /\ UNCHANGED <<status, rows, stored, dropped>>
      BY <2>2 DEF Requeue, NoneCompletes
    <3> QED BY <1>2, <2>2, <3>1, ProcessJobRefines, OthersRefine DEF Requeue
  <2>3. CASE ListStuck \/ UNCHANGED vars
    BY <2>3, OthersRefine DEF ListStuck, vars
  <2>4. ASSUME NEW j \in Jobs, NEW n \in Slots(j), Abandon(j, n) PROVE CC(h)!Next
    <3>1. PICK kept \in SUBSET Batch(j, n) : End(j, n, kept)
      BY <2>4 DEF Abandon
    <3>2. NoneCompletes
      BY <2>4 DEF Abandon, NoneCompletes
    <3> QED BY <1>2, <2>4, <3>1, <3>2, EndLeaves DEF Abandon
  <2>5. ASSUME NEW j \in Jobs, NEW n \in Slots(j), RunStep(j, n) PROVE CC(h)!Next
    BY <1>2, <2>4, <2>5, BeginRefines, CheckRefines, RecordRefines, StoreRefines, CompleteRefines,
       ReturnRefines
    DEF RunStep, Cancelled, TimeOut
  <2>6. ASSUME NEW j \in Jobs, CancelJob(j) PROVE CC(h)!Next
    BY <1>2, <2>6, CancelRefines
  <2>7. CASE Restart
    BY <1>2, <2>7, RestartRefines
  <2> QED
    BY <1>2, <2>1, <2>2, <2>3, <2>5, <2>6, <2>7 DEF Next, Poller, EmptyTick
<1>3. ASSUME Inv, [Next]_vars
      PROVE  [\A h \in Hashes : [CC(h)!Next]_(CC(h)!view)]_vars
  BY <1>2, <1>3
<1> QED
  BY <1>1, <1>3, WorkerInvariant, PTL DEF Spec, ImplementsContentContract
=============================================================================
