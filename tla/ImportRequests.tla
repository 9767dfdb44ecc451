--------------------------- MODULE ImportRequests ---------------------------
(***************************************************************************)
(* What the import queue promises, without jobs, workers or heartbeats.    *)
(* A batch has at most one processing request.  An accepted request is     *)
(* pending until a worker leases it; a lease may expire and be taken again *)
(* any number of times; only the end of a lease, or the deletion of the    *)
(* batch, ends the request.                                                *)
(***************************************************************************)
CONSTANT Batch

VARIABLE request

Init == request = [b \in Batch |-> "idle"]

\* The API accepts a request to process b.
Submit(b) ==
  /\ request[b] = "idle"
  /\ request' = [request EXCEPT ![b] = "pending"]

\* A worker takes over the request of b; the leases in E have expired.
Lease(b, E) ==
  /\ \A e \in E : request[e] = "leased"
  /\ request[b] = "pending" \/ b \in E
  /\ request' = [x \in Batch |-> IF x = b THEN "leased"
                                 ELSE IF x \in E THEN "pending" ELSE request[x]]

\* The lease of b ends, in success or in failure.
Finish(b) ==
  /\ request[b] = "leased"
  /\ request' = [request EXCEPT ![b] = "idle"]

\* The batch is deleted.
Remove(b) ==
  /\ request[b] # "gone"
  /\ request' = [request EXCEPT ![b] = "gone"]

Next ==
  \E b \in Batch : \/ Submit(b)
                   \/ \E E \in SUBSET Batch : Lease(b, E)
                   \/ Finish(b)
                   \/ Remove(b)

Spec == Init /\ [][Next]_request
=============================================================================
