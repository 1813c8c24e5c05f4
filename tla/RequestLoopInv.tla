--------------------------- MODULE RequestLoopInv ---------------------------
(***************************************************************************)
(* The inductive invariant behind RequestLoopProps.                        *)
(*                                                                         *)
(* A request is either in the hands of its dispatch, which runs before it  *)
(* has a run reference, or of the poller, which looks only at copies with  *)
(* one.  The copy says what the request says, but for its status, until    *)
(* the poller has handled it.                                              *)
(***************************************************************************)
EXTENDS RequestLoopProps

\* While a request is being dispatched only a cancellation touches it.
Dispatching ==
  \A r \in Requests : dispatch[r] # "idle" =>
    /\ ~req[r].ref
    /\ req[r].status \in {"open", "cancelled"}
    /\ announced[r] = <<>>

\* While the poller has a copy only a cancellation ends the request.
Polling ==
  \A r \in Requests : snap[r].ref =>
    /\ req[r].ref
    /\ req[r].status \in Active \cup {"cancelled"}
    /\ announced[r] = <<>>

CopyCounts ==
  \A r \in Requests : snap[r] # Absent =>
    /\ snap[r].breaches = req[r].breaches
    /\ Polled(r, "mirrored") \/ snap[r].outputs = req[r].outputs

\* What the poller has been told, and has noted.
AnswerHolds ==
  \A r \in Requests : Polled(r, "read") \/ Polled(r, "mirrored") =>
    /\ snap[r].ref
    /\ poller.answer \in RunEnds => poller.answer \in ran[r]
    /\ r \in Drafts /\ poller.answer \in HasOutput => poller.output
    /\ Polled(r, "mirrored") /\ poller.output => req[r].outputs = 1

EndsRecorded == \A r \in Requests : run[r] \in RunEnds => run[r] \in ran[r]

\* What is true of a request, in memory or in the snapshot.
Sound(r, request) ==
  /\ request.outputs <= 1 /\ request.breaches <= 1
  /\ request.status = "absent" => ~request.ref
  /\ request.status = "completed" => "completed" \in ran[r] /\ Noted(r, request)
  /\ request.status = "rejected" =>
       ran[r] \cap {"refused", "expired"} # {} /\ Noted(r, request)

AllSound == \A r \in Requests : Sound(r, req[r]) /\ Sound(r, saved[r])

Inv ==
  /\ TypeOK
  /\ Dispatching /\ Polling /\ CopyCounts /\ AnswerHolds /\ EndsRecorded
  /\ AllSound /\ AnnouncedOnce
=============================================================================
