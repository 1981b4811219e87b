---------------------- MODULE WebhookDispatchContract ----------------------
(***************************************************************************)
(* The refinement mapping from the pipeline to EventDelivery: the status a  *)
(* delivery has is the one of its committed row.                            *)
(***************************************************************************)
EXTENDS WebhookDispatch

Contract == INSTANCE EventDelivery WITH
  Limit <- [d \in Delivery |-> MaxAttempts[EndpointOf(d)]],
  status <- [d \in Delivery |-> row[d].status],
  closed <- {d \in Delivery : endpoint[EndpointOf(d)] = "inactive"}

\* A retry request o that found a dead letter commits after another retry request of the
\* same delivery, queued before or meanwhile, has led to its success.
Overtaken(o) ==
  /\ op[o].seen.status = "dlq"
  /\ row[op[o].d].status = "success"
  /\ \E q \in Operators \ {o} : op[q].d = op[o].d

\* The one step the code takes that EventDelivery does not allow.
SuccessUndone == \E o \in Operators : RetryCommit(o) /\ Overtaken(o)

\* The pipeline keeps the promise of EventDelivery, but for a retry that another one has
\* overtaken: a delivery appears with its event, is not posted before it exists nor while
\* its success is recorded, and only a dead letter changes status once it is settled.
ImplementsContract == Contract!Init /\ [][Contract!Next \/ SuccessUndone]_(Contract!vars)
=============================================================================
