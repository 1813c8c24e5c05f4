--------------------------- MODULE MCIngestWorker ---------------------------
(***************************************************************************)
(* Instances of IngestWorker for TLC: a job that may run twice at a time,  *)
(* alone or beside another with the same document.                         *)
(***************************************************************************)
EXTENDS IngestWorkerProps, TLC

CONSTANTS j1, j2, a, b

Bounds == [j \in Jobs |-> IF j = j1 THEN 2 ELSE 1]
OneChunk == [j \in Jobs |-> <<a>>]
TwoChunks == [j \in Jobs |-> <<a, b>>]
=============================================================================
