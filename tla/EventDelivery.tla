--------------------------- MODULE EventDelivery ---------------------------
(***************************************************************************)
(* What the webhook pipeline promises a subscriber, without queue, workers  *)
(* or transactions: a delivery appears with its event, is posted while it   *)
(* is not recorded as successful, and is settled as a success the endpoint  *)
(* processed or as a dead letter whose attempts are used up.  Only a dead   *)
(* letter can be reopened.  WebhookDispatchContract shows how far one       *)
(* worker and any number of retry requests implement it.                    *)
(***************************************************************************)
EXTENDS Naturals

CONSTANTS Delivery,
          Limit      \* delivery -> attempts before it is dead-lettered

VARIABLES status,    \* delivery -> "absent", "pending", "success" or "dlq"
          posts,     \* delivery -> POSTs sent
          accepted,  \* deliveries the endpoint has processed
          closed     \* deliveries whose endpoint is inactive

vars == <<status, posts, accepted, closed>>

Init ==
  /\ status = [d \in Delivery |-> "absent"]
  /\ posts = [d \in Delivery |-> 0]
  /\ accepted = {}
  /\ closed = {}

\* An event and its whole fan-out appear at once.
Publish(S) ==
  /\ \A d \in S : status[d] = "absent"
  /\ status' = [d \in Delivery |-> IF d \in S THEN "pending" ELSE status[d]]
  /\ UNCHANGED <<posts, accepted, closed>>

\* No POST before the event exists or after its success is recorded.
Post(d) ==
  /\ status[d] \in {"pending", "dlq"}
  /\ posts' = [posts EXCEPT ![d] = @ + 1]
  /\ accepted' \in {accepted, accepted \cup {d}}
  /\ UNCHANGED <<status, closed>>

Settle(d, s) ==
  /\ status[d] \in {"pending", "dlq"} \ {s}
  /\ status' = [status EXCEPT ![d] = s]
  /\ UNCHANGED <<posts, accepted, closed>>

Succeed(d) == d \in accepted /\ Settle(d, "success")
DeadLetter(d) == (posts[d] >= Limit[d] \/ d \in closed) /\ Settle(d, "dlq")
Reopen(d) == status[d] = "dlq" /\ Settle(d, "pending")

Close(S) ==
  /\ closed' = closed \cup S
  /\ UNCHANGED <<status, posts, accepted>>

Next ==
  \/ \E S \in SUBSET Delivery : Publish(S) \/ Close(S)
  \/ \E d \in Delivery : Post(d) \/ Succeed(d) \/ DeadLetter(d) \/ Reopen(d)

Spec == Init /\ [][Next]_vars
=============================================================================
