-------------------------- MODULE WebhookDispatch --------------------------
(***************************************************************************)
(* The webhook pipeline: publish requests (app/api/webhooks.py and          *)
(* app/services/webhook_service.py) that write an event and its deliveries  *)
(* to PostgreSQL and push the delivery ids on the Redis list webhook:queue; *)
(* dispatch workers (app/workers/dispatch_worker.py) that pop ids, POST the *)
(* event and record the outcome; and operators that retry a delivery        *)
(* (POST /webhooks/deliveries/{id}/retry).                                  *)
(*                                                                          *)
(* Every process is a PostgreSQL transaction under READ COMMITTED: it reads *)
(* rows other transactions have committed, keeps what it read in memory     *)
(* across awaits, and publishes its own writes when it commits.  The ORM    *)
(* writes only the columns whose value differs from the value it loaded, so *)
(* a write is a partial row (Write below).                                  *)
(***************************************************************************)
EXTENDS Naturals, Sequences, FiniteSets

CONSTANTS Publishers,     \* publish requests, each naming the event it would insert
          Keys,           \* values of the Idempotency-Key header
          EventTypes,
          Endpoints,
          Subscriptions,  \* endpoint -> set of event types
          MaxAttempts,    \* endpoint -> WebhookEndpoint.max_attempts
          Operators,      \* manual retry requests
          Workers,        \* dispatch worker processes
          MaxFaults,      \* bound on the faults of one behaviour
          None            \* "not chosen", or "column not written"

ASSUME FiniteEndpoints == IsFiniteSet(Endpoints)
ASSUME SubscriptionsType == Subscriptions \in [Endpoints -> SUBSET EventTypes]
ASSUME MaxAttemptsType == MaxAttempts \in [Endpoints -> Nat \ {0}]
ASSUME MaxFaultsType == MaxFaults \in Nat
ASSUME NoneIsFresh ==
  /\ None \notin Nat \cup {"pending", "success", "dlq", "none", "waiting", "due"}
  /\ None \notin Keys \cup EventTypes \cup Publishers \cup (Publishers \X Endpoints)

VARIABLES
  endpoint,  \* endpoint -> "absent", "active" or "inactive" (committed row)
  pub,       \* publish request -> its progress and the values it holds
  events,    \* committed webhook_events rows, named by the request that inserted them
  row,       \* delivery -> committed webhook_deliveries row
  queue,     \* the Redis list webhook:queue
  worker,    \* worker -> its progress and the values it holds
  op,        \* manual retry request -> its progress and the values it holds
  posts,     \* history: delivery -> POSTs the workers sent for it
  accepted,  \* history: deliveries some POST of which the endpoint processed
  lost,      \* history: deliveries one queue entry of which was dropped, or read too early
  faults     \* number of faults so far, at most MaxFaults

vars == <<endpoint, pub, events, row, queue, worker, op, posts, accepted, lost, faults>>

Delivery == Publishers \X Endpoints
EventOf(d) == d[1]
EndpointOf(d) == d[2]

-----------------------------------------------------------------------------
(* Rows, partial writes and locks.                                          *)

RowStatus == {"pending", "success", "dlq"}
RetryAt == {"none", "waiting", "due"}   \* next_retry_at: NULL, in the future, past

\* attempt counts POSTs; "absent" is a row no committed transaction inserted.
Row == [status: RowStatus \cup {"absent"}, attempt: Nat, next: RetryAt]
AbsentRow == [status |-> "absent", attempt |-> 0, next |-> "none"]
NewRow == [status |-> "pending", attempt |-> 0, next |-> "none"]

\* The columns an UPDATE carries; None is a column the ORM leaves out.
Write == [status: RowStatus \cup {None}, attempt: Nat \cup {None}, next: RetryAt \cup {None}]
NoWrite == [status |-> None, attempt |-> None, next |-> None]

Changed(old, new) == IF old = new THEN None ELSE new

\* The UPDATE the ORM derives from the row a transaction loaded and the values it
\* assigned; a new timestamp ("waiting") differs from every old one.
Dirty(seen, status, attempt, next) ==
  [status  |-> Changed(seen.status, status),
   attempt |-> Changed(seen.attempt, attempt),
   next    |-> IF next = "waiting" THEN next ELSE Changed(seen.next, next)]

\* Mutant of Updated: columns that were not assigned are written too.
UpdatedNullingUnset(r, w) == w

\* The row after an UPDATE.
Kept(old, new) == IF new = None THEN old ELSE new

Updated(r, w) == [status  |-> Kept(r.status, w.status),
                  attempt |-> Kept(r.attempt, w.attempt),
                  next    |-> Kept(r.next, w.next)]

\* Mutant of Locked: a rolled-back retry request keeps its transaction open.
LockedLeaked(d) == \E o \in Operators : /\ op[o].d = d
                                        /\ op[o].pc \in {"flushed", "pushed", "failed"}
                                        /\ op[o].write # NoWrite

\* An open retry transaction that has flushed an UPDATE holds the row's lock.
Locked(d) == \E o \in Operators : /\ op[o].d = d
                                  /\ op[o].pc \in {"flushed", "pushed"}
                                  /\ op[o].write # NoWrite

\* Mutant of Inserting: idempotency_key has no unique index.
InsertingUnindexed(k) == FALSE

\* Mutant of Inserting: a rolled-back request keeps its transaction open.
InsertingLeaked(k) == \E p \in Publishers : /\ pub[p].key = k
                                            /\ pub[p].pc \in {"inserted", "fanned", "pushed", "failed"}

\* An open transaction inserted an event with key k: the unique index on
\* idempotency_key makes another insert of k wait for it.
Inserting(k) == \E p \in Publishers : /\ pub[p].key = k
                                      /\ pub[p].pc \in {"inserted", "fanned", "pushed"}

Holders(k) == {p \in events : pub[p].key = k}

\* Mutant of Taken: a committed event of the key does not stop the insert.
NeverTaken(k) == FALSE

Taken(k) == Holders(k) # {}

\* d's id is on the queue by an open transaction whose writes nobody else sees yet.
PushedUncommitted(d) ==
  \/ pub[EventOf(d)].pc = "pushed" /\ EndpointOf(d) \in pub[EventOf(d)].ids
  \/ \E o \in Operators : op[o].pc = "pushed" /\ op[o].d = d
  \/ \E w \in Workers : /\ worker[w].pc = "saving"
                        /\ worker[w].d = d
                        /\ worker[w].write.next = "waiting"

Fault == faults < MaxFaults /\ faults' = faults + 1
NoFault == UNCHANGED faults

-----------------------------------------------------------------------------
\* A worker between two deliveries, and a retry request that has not begun.
Idle == [pc |-> "idle", d |-> None, seen |-> AbsentRow, write |-> NoWrite]
NotBegun == [pc |-> "ready", d |-> None, seen |-> AbsentRow, write |-> NoWrite]

Init ==
  /\ endpoint \in [Endpoints -> {"absent", "active"}]
  /\ pub = [p \in Publishers |->
              [pc |-> "ready", key |-> None, type |-> None, ids |-> {}, reply |-> None]]
  /\ events = {}
  /\ row = [d \in Delivery |-> AbsentRow]
  /\ queue = <<>>
  /\ worker = [w \in Workers |-> Idle]
  /\ op = [o \in Operators |-> NotBegun]
  /\ posts = [d \in Delivery |-> 0]
  /\ accepted = {}
  /\ lost = {}
  /\ faults = 0

-----------------------------------------------------------------------------
(* Endpoints.                                                               *)

\* POST /webhooks/endpoints: one transaction, visible when it commits.
CreateEndpoint(e) ==
  /\ endpoint[e] = "absent"
  /\ endpoint' = [endpoint EXCEPT ![e] = "active"]
  /\ UNCHANGED <<pub, events, row, queue, worker, op, posts, accepted, lost, faults>>

\* No route clears is_active: an administrator does, in the database.
DeactivateEndpoint(e) ==
  /\ endpoint[e] = "active"
  /\ endpoint' = [endpoint EXCEPT ![e] = "inactive"]
  /\ UNCHANGED <<pub, events, row, queue, worker, op, posts, accepted, lost, faults>>

\* Real time passes a row's next_retry_at.
BackoffElapses(d) ==
  /\ row[d].next = "waiting"
  /\ row' = [row EXCEPT ![d].next = "due"]
  /\ UNCHANGED <<endpoint, pub, events, queue, worker, op, posts, accepted, lost, faults>>

-----------------------------------------------------------------------------
(* publish_event, one request p.                                            *)

\* The select by idempotency key: a committed event of that key is the reply.
PublishLookup(p, k, t) ==
  /\ pub[p].pc = "ready"
  /\ \/ /\ Holders(k) = {}
        /\ pub' = [pub EXCEPT ![p] = [@ EXCEPT !.pc = "looked", !.key = k, !.type = t]]
     \/ \E q \in Holders(k) :
          pub' = [pub EXCEPT ![p] = [@ EXCEPT !.pc = "done", !.key = k, !.type = t, !.reply = q]]
  /\ UNCHANGED <<endpoint, events, row, queue, worker, op, posts, accepted, lost, faults>>

\* Insert and flush: waits for an open insert of the same key, fails on a committed one.
PublishInsert(p) ==
  /\ pub[p].pc = "looked"
  /\ ~Inserting(pub[p].key)
  /\ pub' = [pub EXCEPT ![p].pc = IF Taken(pub[p].key) THEN "failed" ELSE "inserted"]
  /\ UNCHANGED <<endpoint, events, row, queue, worker, op, posts, accepted, lost, faults>>

\* The select of active endpoints and one pending delivery for each that subscribes.
Matching(t) == {e \in Endpoints : endpoint[e] = "active" /\ t \in Subscriptions[e]}

PublishFanOut(p) ==
  /\ pub[p].pc = "inserted"
  /\ pub' = [pub EXCEPT ![p] = [@ EXCEPT !.pc = "fanned", !.ids = Matching(pub[p].type)]]
  /\ UNCHANGED <<endpoint, events, row, queue, worker, op, posts, accepted, lost, faults>>

\* Mutant of DeliveriesOf: the endpoints are selected once more.
DeliveriesNow(p) == {p} \X Matching(pub[p].type)

DeliveriesOf(p) == {p} \X pub[p].ids

\* Every order in which a select without ORDER BY may list a finite set.
Listings(S) == {s \in [1..Cardinality(S) -> S] : \A x \in S : \E i \in DOMAIN s : s[i] = x}

\* rpush of all ids, before the commit; an exception of Redis is swallowed.
PublishEnqueue(p) ==
  /\ pub[p].pc = "fanned"
  /\ pub' = [pub EXCEPT ![p].pc = "pushed"]
  /\ \/ \E s \in Listings(DeliveriesOf(p)) : queue' = queue \o s /\ UNCHANGED lost /\ NoFault
     \/ /\ DeliveriesOf(p) # {}
        /\ lost' = lost \cup DeliveriesOf(p)
        /\ UNCHANGED queue
        /\ Fault
  /\ UNCHANGED <<endpoint, events, row, worker, op, posts, accepted>>

\* The audit row and get_session's commit; the reply is sent after it.
PublishCommit(p) ==
  /\ pub[p].pc = "pushed"
  /\ pub' = [pub EXCEPT ![p] = [@ EXCEPT !.pc = "done", !.reply = p]]
  /\ events' = events \cup {p}
  /\ row' = [d \in Delivery |-> IF d \in DeliveriesOf(p) THEN NewRow ELSE row[d]]
  /\ UNCHANGED <<endpoint, queue, worker, op, posts, accepted, lost, faults>>

\* An exception or a crash before the commit: get_session rolls back.
PublishRollback(p) ==
  /\ pub[p].pc \in {"looked", "inserted", "fanned", "pushed"}
  /\ pub' = [pub EXCEPT ![p].pc = "failed"]
  /\ Fault
  /\ UNCHANGED <<endpoint, events, row, queue, worker, op, posts, accepted, lost>>

PubStep(p) ==
  \/ \E k \in Keys, t \in EventTypes : PublishLookup(p, k, t)
  \/ PublishInsert(p)
  \/ PublishFanOut(p)
  \/ PublishEnqueue(p)
  \/ PublishCommit(p)

-----------------------------------------------------------------------------
(* retry_delivery, one request o.                                           *)

\* Mutants of Refuses and RetryWrite: a delivered delivery is not refused; the attempts
\* start again from zero.
RefusesUnknown(r) == r.status = "absent"
RetryFromZero(seen) == Dirty(seen, "pending", 0, "none")

Refuses(r) == r.status \in {"absent", "success"}
RetryWrite(seen) == Dirty(seen, "pending", seen.attempt, "none")

\* Loads the row: 404 when there is none, 400 when the delivery succeeded.
RetryLoad(o, d) ==
  /\ op[o].pc = "ready"
  /\ op' = [op EXCEPT ![o] = [@ EXCEPT !.d = d, !.seen = row[d],
              !.pc = IF Refuses(row[d]) THEN "refused" ELSE "loaded"]]
  /\ UNCHANGED <<endpoint, pub, events, row, queue, worker, posts, accepted, lost, faults>>

\* status = "pending", next_retry_at = None, flush: waits for the row's lock.
RetryFlush(o) ==
  LET write == RetryWrite(op[o].seen) IN
  /\ op[o].pc = "loaded"
  /\ write # NoWrite => ~Locked(op[o].d)
  /\ op' = [op EXCEPT ![o] = [@ EXCEPT !.pc = "flushed", !.write = write]]
  /\ UNCHANGED <<endpoint, pub, events, row, queue, worker, posts, accepted, lost, faults>>

\* rpush before the commit; an exception of Redis is swallowed.
RetryEnqueue(o) ==
  /\ op[o].pc = "flushed"
  /\ op' = [op EXCEPT ![o].pc = "pushed"]
  /\ \/ queue' = Append(queue, op[o].d) /\ UNCHANGED lost /\ NoFault
     \/ lost' = lost \cup {op[o].d} /\ UNCHANGED queue /\ Fault
  /\ UNCHANGED <<endpoint, pub, events, row, worker, posts, accepted>>

RetryCommit(o) ==
  /\ op[o].pc = "pushed"
  /\ op' = [op EXCEPT ![o].pc = "done"]
  /\ row' = [row EXCEPT ![op[o].d] = Updated(@, op[o].write)]
  /\ UNCHANGED <<endpoint, pub, events, queue, worker, posts, accepted, lost, faults>>

RetryRollback(o) ==
  /\ op[o].pc \in {"loaded", "flushed", "pushed"}
  /\ op' = [op EXCEPT ![o].pc = "failed"]
  /\ Fault
  /\ UNCHANGED <<endpoint, pub, events, row, queue, worker, posts, accepted, lost>>

OpStep(o) == RetryFlush(o) \/ RetryEnqueue(o) \/ RetryCommit(o)

-----------------------------------------------------------------------------
(* run_forever and process_delivery, one worker w.                          *)

\* blpop removes the entry; from here on only the worker's memory holds it.
WorkerPop(w) ==
  /\ worker[w].pc = "idle"
  /\ queue # <<>>
  /\ worker' = [worker EXCEPT ![w] = [@ EXCEPT !.pc = "popped", !.d = Head(queue)]]
  /\ queue' = Tail(queue)
  /\ UNCHANGED <<endpoint, pub, events, row, op, posts, accepted, lost, faults>>

\* Mutant of Skips: the row is not checked for None.
SkipsDelivered(r) == r.status = "success"

Skips(r) == r.status \in {"absent", "success"}

\* Loads the row; returns when there is none or the delivery has succeeded.
WorkerLoad(w) ==
  LET d == worker[w].d IN
  /\ worker[w].pc = "popped"
  /\ worker' = IF Skips(row[d])
               THEN [worker EXCEPT ![w] = Idle]
               ELSE [worker EXCEPT ![w] = [@ EXCEPT !.pc = "loaded", !.seen = row[d]]]
  /\ lost' = IF PushedUncommitted(d) THEN lost \cup {d} ELSE lost
  /\ UNCHANGED <<endpoint, pub, events, row, queue, op, posts, accepted, faults>>

\* The fields process_delivery sets on the loaded row, and where it goes on.
Assign(w, pc, write) == worker' = [worker EXCEPT ![w] = [@ EXCEPT !.pc = pc, !.write = write]]

\* Mutant of DeadLetter: the attempt is counted before the endpoint is checked.
DeadLetterCounting(seen) == Dirty(seen, "dlq", seen.attempt + 1, "none")

DeadLetter(seen) == [NoWrite EXCEPT !.status = Changed(seen.status, "dlq")]

\* Loads endpoint and event; an inactive endpoint dead-letters the delivery.
WorkerReadEndpoint(w) ==
  /\ worker[w].pc = "loaded"
  /\ IF endpoint[EndpointOf(worker[w].d)] = "active"
     THEN worker' = [worker EXCEPT ![w].pc = "posting"]
     ELSE Assign(w, "saving", DeadLetter(worker[w].seen))
  /\ UNCHANGED <<endpoint, pub, events, row, queue, op, posts, accepted, lost, faults>>

\* Mutants of LastAttempt: off by one.
LastAttemptEarly(d, attempt) == attempt + 1 >= MaxAttempts[EndpointOf(d)]
LastAttemptLate(d, attempt) == attempt > MaxAttempts[EndpointOf(d)]

LastAttempt(d, attempt) == attempt >= MaxAttempts[EndpointOf(d)]

\* Mutant of AfterFailure: every response counts as delivered.
AfterAnyResponse(w, attempt) ==
  Assign(w, "saving", Dirty(worker[w].seen, "success", attempt, "none"))

AfterFailure(w, attempt) ==
  IF LastAttempt(worker[w].d, attempt)
  THEN Assign(w, "saving", Dirty(worker[w].seen, "dlq", attempt, "none"))
  ELSE Assign(w, "requeue", Dirty(worker[w].seen, "pending", attempt, "waiting"))

\* attempt += 1, the POST and the fields set from its outcome.  A failure may
\* hide that the endpoint processed the event (timeout, lost response, 5xx).
WorkerPost(w) ==
  LET d == worker[w].d
      seen == worker[w].seen
      attempt == seen.attempt + 1 IN
  /\ worker[w].pc = "posting"
  /\ posts' = [posts EXCEPT ![d] = @ + 1]
  /\ \/ /\ Assign(w, "saving", Dirty(seen, "success", attempt, "none"))
        /\ accepted' = accepted \cup {d}
     \/ /\ AfterFailure(w, attempt)
        /\ accepted' \in {accepted, accepted \cup {d}}
  /\ UNCHANGED <<endpoint, pub, events, row, queue, op, lost, faults>>

\* Mutant of Requeued: a failed delivery is not queued again.
NotRequeued(d) == queue

Requeued(d) == Append(queue, d)

\* rpush at once, before the outcome is committed; an exception is swallowed.
WorkerRequeue(w) ==
  /\ worker[w].pc = "requeue"
  /\ worker' = [worker EXCEPT ![w].pc = "saving"]
  /\ \/ queue' = Requeued(worker[w].d) /\ UNCHANGED lost /\ NoFault
     \/ lost' = lost \cup {worker[w].d} /\ UNCHANGED queue /\ Fault
  /\ UNCHANGED <<endpoint, pub, events, row, op, posts, accepted>>

\* The UPDATE and the commit: waits for a retry transaction's row lock.
WorkerSave(w) ==
  LET d == worker[w].d IN
  /\ worker[w].pc = "saving"
  /\ ~Locked(d)
  /\ row' = [row EXCEPT ![d] = Updated(@, worker[w].write)]
  /\ worker' = [worker EXCEPT ![w] = Idle]
  /\ UNCHANGED <<endpoint, pub, events, queue, op, posts, accepted, lost, faults>>

\* The process dies and restarts, or process_delivery raises and run_forever
\* logs it: the popped entry is gone and the transaction rolled back.
WorkerAbort(w) ==
  /\ worker[w].pc # "idle"
  /\ Fault
  /\ worker' = [worker EXCEPT ![w] = Idle]
  /\ lost' = IF worker[w].pc = "saving" /\ worker[w].write.next = "waiting"
             THEN lost ELSE lost \cup {worker[w].d}
  /\ UNCHANGED <<endpoint, pub, events, row, queue, op, posts, accepted>>

WorkerStep(w) ==
  \/ WorkerPop(w)
  \/ WorkerLoad(w)
  \/ WorkerReadEndpoint(w)
  \/ WorkerPost(w)
  \/ WorkerRequeue(w)
  \/ WorkerSave(w)

-----------------------------------------------------------------------------
Next ==
  \/ \E e \in Endpoints : CreateEndpoint(e) \/ DeactivateEndpoint(e)
  \/ \E d \in Delivery : BackoffElapses(d)
  \/ \E p \in Publishers : PubStep(p) \/ PublishRollback(p)
  \/ \E o \in Operators, d \in Delivery : RetryLoad(o, d)
  \/ \E o \in Operators : OpStep(o) \/ RetryRollback(o)
  \/ \E w \in Workers : WorkerStep(w) \/ WorkerAbort(w)

Spec == Init /\ [][Next]_vars

\* Running processes keep running: the worker loops forever, a handler's
\* coroutine is resumed by its event loop.  Requests need not arrive, faults
\* need not happen.
Fairness ==
  /\ \A w \in Workers : WF_vars(WorkerStep(w))
  /\ \A p \in Publishers : WF_vars(pub[p].pc # "ready" /\ PubStep(p))
  /\ \A o \in Operators : WF_vars(OpStep(o))

FairSpec == Spec /\ Fairness
-----------------------------------------------------------------------------
(* Properties.                                                              *)

PubType == [pc: {"ready", "looked", "inserted", "fanned", "pushed", "done", "failed"},
            key: Keys \cup {None}, type: EventTypes \cup {None},
            ids: SUBSET Endpoints, reply: Publishers \cup {None}]
WorkerType == [pc: {"idle", "popped", "loaded", "posting", "requeue", "saving"},
               d: Delivery \cup {None}, seen: Row, write: Write]
OpType == [pc: {"ready", "loaded", "flushed", "pushed", "done", "refused", "failed"},
           d: Delivery \cup {None}, seen: Row, write: Write]

\* Every variable has its type; a worker or a retry request past its first step
\* has a delivery.
TypeOK ==
  /\ endpoint \in [Endpoints -> {"absent", "active", "inactive"}]
  /\ pub \in [Publishers -> PubType]
  /\ events \subseteq Publishers
  /\ row \in [Delivery -> Row]
  /\ queue \in Seq(Delivery)
  /\ worker \in [Workers -> WorkerType]
  /\ \A w \in Workers : worker[w].pc # "idle" => worker[w].d \in Delivery
  /\ op \in [Operators -> OpType]
  /\ \A o \in Operators : op[o].pc # "ready" => op[o].d \in Delivery
  /\ posts \in [Delivery -> Nat]
  /\ accepted \subseteq Delivery
  /\ lost \subseteq Delivery
  /\ faults \in 0..MaxFaults

\* An idempotency key names at most one committed event, however the publish
\* requests that carry it interleave (publish_event's lookup and insert).
OneEventPerKey == \A p, q \in events : pub[p].key = pub[q].key => p = q

\* Publish requests answered with success for the same key name the same event,
\* and it is a committed one.
SameKeySameReply ==
  \A p, q \in Publishers :
    pub[p].pc = "done" /\ pub[q].pc = "done" /\ pub[p].key = pub[q].key
      => pub[p].reply = pub[q].reply /\ pub[p].reply \in events

\* Publish requests never wait for each other in a circle, nor for the insert of one that
\* has been rolled back: while some are under way, one of them has a step.
PublishersMove ==
  LET UnderWay(p) == pub[p].pc \in {"looked", "inserted", "fanned", "pushed"} IN
  (\E p \in Publishers : UnderWay(p)) =>
    \E p \in Publishers : UnderWay(p) /\ ENABLED PubStep(p)

\* A delivery row is visible exactly when its event is, for every endpoint the
\* fan-out of publish_event selected and no other.
FanOutIsAtomic ==
  \A d \in Delivery :
    row[d].status # "absent" <=> EventOf(d) \in events /\ EndpointOf(d) \in pub[EventOf(d)].ids

\* A delivery recorded as success was processed by its endpoint, whichever
\* worker or retry request wrote its row last.
SuccessMeansAccepted == \A d \in Delivery : row[d].status = "success" => d \in accepted

\* A delivery is dead-lettered only after max_attempts POSTs, or when its
\* endpoint is inactive: a stale attempt counter delays it but never hurries it.
DlqMeansExhausted ==
  \A d \in Delivery : row[d].status = "dlq" =>
    posts[d] >= MaxAttempts[EndpointOf(d)] \/ endpoint[EndpointOf(d)] = "inactive"

\* No endpoint is sent an event that was never committed, although its ids were
\* pushed on the queue before the commit and stay there after a rollback.
NoPhantomPost == \A d \in Delivery : posts[d] > 0 => EventOf(d) \in events

\* A row never claims more attempts than POSTs were sent.
AttemptsWereMade == \A d \in Delivery : row[d].attempt <= posts[d]

\* d is pending and nothing will serve it: no queue entry, no worker, no retry
\* request about to push it.
Stranded(d) ==
  /\ row[d].status = "pending"
  /\ \A i \in DOMAIN queue : queue[i] # d
  /\ \A w \in Workers : worker[w].d # d
  /\ \A o \in Operators : op[o].d = d => op[o].pc \notin {"loaded", "flushed", "pushed"}

\* A pending delivery is stranded only when one of its queue entries was dropped:
\* by a failed rpush, by a worker that died or raised, or by a worker that read
\* the row before the transaction that pushed the entry had committed.
StrandedOnlyByLoss == \A d \in Delivery : Stranded(d) => d \in lost

\* The attempt counter of a row never goes back.
AttemptsNeverShrink == [][\A d \in Delivery : row'[d].attempt >= row[d].attempt]_vars

\* An endpoint receives at most max_attempts POSTs of an event, one more for each
\* retry request of the delivery and one more for each fault.
PostsAreBounded ==
  \A d \in Delivery :
    posts[d] <= MaxAttempts[EndpointOf(d)] + Cardinality({o \in Operators : op[o].d = d}) + faults

\* With no fault, no delivery is ever stranded: "No event is ever silently lost".
NoSilentLoss == \A d \in Delivery : ~Stranded(d)

\* A pending delivery is settled in the end, or one of its entries was dropped.
EventuallySettled ==
  \A d \in Delivery :
    row[d].status = "pending" ~> row[d].status \in {"success", "dlq"} \/ d \in lost

\* The requests of a behaviour are finitely many, so in the end the queue is empty
\* and the workers idle: no delivery is requeued for ever.
WorkEnds == <>[](queue = <<>> /\ \A w \in Workers : worker[w].pc = "idle")

\* A request that has begun is answered: no wait for an index entry or a row lock
\* is for ever.
RequestsAnswered ==
  /\ \A p \in Publishers : pub[p].pc = "looked" ~> pub[p].pc \in {"done", "failed"}
  /\ \A o \in Operators : op[o].pc = "loaded" ~> op[o].pc \in {"done", "failed"}
=============================================================================
