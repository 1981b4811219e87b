------------------------- MODULE MCWebhookDispatch -------------------------
(* Small instances of WebhookDispatch for TLC.                              *)
EXTENDS WebhookDispatchContract, TLC

CONSTANTS p1, p2, e1, e2, w1, w2, o1, o2, k1, k2, t1, t2

\* e1 subscribes to every event type, any other endpoint only to t1.
Subscribed == [e \in Endpoints |-> IF e = e1 THEN EventTypes ELSE {t1}]

TwoAttempts == [e \in Endpoints |-> 2]
MixedAttempts == [e \in Endpoints |-> IF e = e1 THEN 2 ELSE 1]

Interchangeable ==
  Permutations(Publishers) \cup Permutations(Workers) \cup Permutations(Operators)
=============================================================================
