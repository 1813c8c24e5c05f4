-------------------------- MODULE RequestLoopProps --------------------------
(***************************************************************************)
(* What the request loop promises.                                         *)
(***************************************************************************)
EXTENDS RequestLoop

TypeOK ==
  /\ req \in [Requests -> ServiceRequest]
  /\ dispatch \in [Requests -> {"idle", "create", "execute", "record"}]
  /\ cancelling \subseteq Requests
  /\ snap \in [Requests -> ServiceRequest]
  /\ poller \in {Idle} \cup
       [phase : {"read", "mirrored"}, of : Requests, answer : Runs \cup {"error"},
        output : BOOLEAN]
  /\ auth \subseteq Requests
  /\ misses \in [Requests -> 0 .. MissLimit - 1]
  /\ announced \in [Requests -> Seq(Verdicts)]
  /\ saved \in [Requests -> ServiceRequest]
  /\ restarts \in 0 .. MaxRestarts
  /\ run \in [Requests -> Runs]
  /\ ran \in [Requests -> SUBSET RunEnds]

\* A request is completed only if its run was, and rejected only if its run
\* failed at a gate, however stale the answer, and what its procedure drafted is
\* then on its timeline exactly once, across polls, cancellations and restarts.
Noted(r, request) == r \in Drafts => request.outputs = 1
VerdictFounded ==
  \A r \in Requests :
    /\ req[r].status = "completed" => "completed" \in ran[r] /\ Noted(r, req[r])
    /\ req[r].status = "rejected" =>
         ran[r] \cap {"refused", "expired"} # {} /\ Noted(r, req[r])

\* No poll repeats on the timeline what an earlier one noted.
NotedOnce == \A r \in Requests : req[r].outputs <= 1 /\ req[r].breaches <= 1

\* One process announces at most one end of a request, and the request then has
\* that status or was cancelled.
AnnouncedOnce ==
  \A r \in Requests :
    announced[r] # <<>> =>
      /\ Len(announced[r]) = 1
      /\ req[r].status \in {announced[r][1], "cancelled"}

\* While the process lives, a verdict is only ever replaced by the late write
\* of a cancellation; stale copies revive no request but a cancelled one.
VerdictStays ==
  [][\A r \in Requests :
       (req[r].status \in Verdicts /\ req'[r].status # req[r].status)
         => (r \in cancelling /\ req'[r].status = "cancelled") \/ restarts' # restarts]_vars

\* What a document shows of a request, its run reference left out.
Shown(request) ==
  [status |-> request.status, outputs |-> request.outputs, breaches |-> request.breaches]

RC(r) == INSTANCE RequestContract
           WITH shown <- Shown(req[r]), told <- announced[r],
                kept <- Shown(saved[r]), ended <- ran[r], drafts <- (r \in Drafts)

\* Each request behaves as RequestContract allows: its dispatch, cancel
\* handlers and a poller that reads, waits and writes on stale copies bring it
\* to one end, announced once and founded, with nothing noted twice, and only
\* a restart takes anything back.
ImplementsRequestContract ==
  /\ \A r \in Requests : RC(r)!Init
  /\ [][\A r \in Requests : [RC(r)!Next]_(RC(r)!view)]_vars

\* A request with a run leaves the poller's list once its run has ended, or
\* once it has no authorization any more, however many reads fail.
Tracked(r) == req[r].ref /\ req[r].status \in Active
RunEndSeen ==
  \A r \in Requests :
    /\ (Tracked(r) /\ run[r] \in RunEnds) ~> ~(Tracked(r) /\ run[r] \in RunEnds)
    /\ (Tracked(r) /\ r \notin auth) ~> ~Tracked(r)
=============================================================================
