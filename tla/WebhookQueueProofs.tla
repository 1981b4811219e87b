------------------------ MODULE WebhookQueueProofs ------------------------
(***************************************************************************)
(* Theorems about what serves a pending delivery of WebhookDispatch, for    *)
(* any number of requests, endpoints, workers and faults.                   *)
(***************************************************************************)
EXTENDS WebhookDispatchProofs

-----------------------------------------------------------------------------
(* The queue.                                                               *)

Queued(d) == \E i \in DOMAIN queue : queue[i] = d

\* rpush of one id.
LEMMA PushQueues ==
  ASSUME TypeOK, NEW c \in Delivery, queue' = Append(queue, c), NEW d \in Delivery
  PROVE  Queued(d) \/ d = c => Queued(d)'
<1>1. queue \in Seq(Delivery) /\ Len(queue) \in Nat
  BY LenProperties DEF TypeOK
<1>2. /\ Len(queue') = Len(queue) + 1 /\ DOMAIN queue' = 1..Len(queue) + 1
      /\ queue'[Len(queue) + 1] = c
      /\ \A i \in 1..Len(queue) : queue'[i] = queue[i]
  BY <1>1, AppendProperties, LenProperties
<1>3. DOMAIN queue = 1..Len(queue)
  BY <1>1, LenProperties
<1>4. QED
  BY <1>1, <1>2, <1>3 DEF Queued

\* blpop takes the first id and leaves the others.
LEMMA PopQueues ==
  ASSUME TypeOK, queue # <<>>, queue' = Tail(queue), NEW d \in Delivery, Queued(d)
  PROVE  d = Head(queue) \/ Queued(d)'
<1>1. queue \in Seq(Delivery) /\ Len(queue) \in Nat /\ DOMAIN queue = 1..Len(queue)
  BY LenProperties DEF TypeOK
<1>2. /\ queue' \in Seq(Delivery) /\ Len(queue') = Len(queue) - 1
      /\ \A i \in 1..Len(queue') : queue'[i] = queue[i + 1]
      /\ Head(queue) = queue[1]
  BY <1>1, HeadTailProperties
<1>3. DOMAIN queue' = 1..Len(queue')
  BY <1>2, LenProperties
<1>4. PICK i \in 1..Len(queue) : queue[i] = d
  BY <1>1 DEF Queued
<1>5. CASE i = 1
  BY <1>2, <1>4, <1>5
<1>6. CASE i # 1
  <2>1. i - 1 \in 1..Len(queue') /\ (i - 1) + 1 = i
    BY <1>1, <1>2, <1>6
  <2>2. queue'[i - 1] = d
    BY <1>2, <1>4, <2>1
  <2>3. QED
    BY <1>3, <2>1, <2>2 DEF Queued
<1>7. QED
  BY <1>5, <1>6

\* rpush of a fan-out.
LEMMA ListQueues ==
  ASSUME TypeOK, NEW p \in Publishers, NEW s \in Listings(DeliveriesOf(p)), queue' = queue \o s,
         NEW d \in Delivery
  PROVE  Queued(d) \/ d \in DeliveriesOf(p) => Queued(d)'
<1>1. queue \in Seq(Delivery) /\ s \in Seq(Delivery)
  BY ListingsType DEF TypeOK
<1>2. /\ Len(queue) \in Nat /\ DOMAIN queue = 1..Len(queue)
      /\ Len(s) \in Nat /\ DOMAIN s = 1..Len(s)
  BY <1>1, LenProperties
<1>3. /\ queue' \in Seq(Delivery)
      /\ Len(queue') = Len(queue) + Len(s)
      /\ \A i \in 1..Len(queue) + Len(s) :
           queue'[i] = IF i <= Len(queue) THEN queue[i] ELSE s[i - Len(queue)]
  BY <1>1, ConcatProperties
<1>4. DOMAIN queue' = 1..Len(queue) + Len(s)
  BY <1>3, LenProperties
<1>5. CASE Queued(d)
  <2>1. PICK i \in 1..Len(queue) : queue[i] = d
    BY <1>2, <1>5 DEF Queued
  <2>2. i \in 1..Len(queue) + Len(s) /\ i <= Len(queue)
    BY <1>2
  <2>3. queue'[i] = d
    BY <1>3, <2>1, <2>2
  <2>4. QED
    BY <1>4, <2>2, <2>3 DEF Queued
<1>6. CASE d \in DeliveriesOf(p)
  <2>1. PICK i \in 1..Len(s) : s[i] = d
    BY <1>2, <1>6 DEF Listings
  <2>2. /\ Len(queue) + i \in 1..Len(queue) + Len(s) /\ ~(Len(queue) + i <= Len(queue))
        /\ (Len(queue) + i) - Len(queue) = i
    BY <1>2
  <2>3. queue'[Len(queue) + i] = d
    BY <1>3, <2>1, <2>2
  <2>4. QED
    BY <1>4, <2>2, <2>3 DEF Queued
<1>7. QED
  BY <1>5, <1>6

-----------------------------------------------------------------------------
(* What serves a pending delivery.                                          *)

\* A worker that has taken d's id and has not read its row.
Popped(w, d) == worker[w].pc = "popped" /\ worker[w].d = d

\* Somebody is still to read d's row, or an id of d was dropped.
Fresh(d) == d \in lost \/ Queued(d) \/ \E w \in Workers : Popped(w, d)

\* A worker that has seen d pending or is to queue it again, and one that is about
\* to settle it.  A worker that saw a dead letter may leave a reopened row pending.
Serves(w, d) ==
  /\ worker[w].d = d
  /\ \/ worker[w].pc \in {"loaded", "posting"} /\ worker[w].seen.status = "pending"
     \/ worker[w].pc = "requeue"
     \/ worker[w].pc = "saving" /\ worker[w].write.status \in {"success", "dlq"}

\* A worker that leaves its delivery pending has queued it, or is about to.
WriteFits(w) ==
  /\ worker[w].pc = "requeue" => worker[w].write.next = "waiting"
  /\ worker[w].pc \in {"requeue", "saving"} =>
       IF worker[w].write.next = "waiting" THEN worker[w].write.status \in {None, "pending"}
       ELSE worker[w].write.status # "pending"

\* An id that is pushed before its row commits is still to be read when it does, and
\* a pending row has an id that is still to be read, or a worker that serves it.
QueueInv ==
  /\ \A w \in Workers : WriteFits(w)
  /\ \A d \in Delivery : PushedUncommitted(d) => Fresh(d)
  /\ \A d \in Delivery :
       row[d].status = "pending" => Fresh(d) \/ \E w \in Workers : Serves(w, d)

\* Any write of process_delivery after a POST queues the delivery or settles it.
LEMMA DirtyFits ==
  ASSUME NEW seen \in Row, NEW a
  PROVE  /\ Dirty(seen, "pending", a, "waiting").next = "waiting"
         /\ Dirty(seen, "pending", a, "waiting").status \in {None, "pending"}
         /\ \A s \in {"success", "dlq"} :
              /\ Dirty(seen, s, a, "none").next # "waiting"
              /\ Dirty(seen, s, a, "none").status \in {None, s}
              /\ seen.status # s => Dirty(seen, s, a, "none").status = s
BY NoneIsFresh DEF Dirty, Changed

\* A step of one worker leaves the others alone.
LEMMA OneWorkerMoves ==
  ASSUME TypeOK, NEW w \in Workers, WorkerStep(w) \/ WorkerAbort(w), NEW v \in Workers, v # w
  PROVE  worker'[v] = worker[v]
BY DEF TypeOK, WorkerStep, WorkerPop, WorkerLoad, WorkerReadEndpoint, DeadLetter, WorkerPost,
       AfterFailure, Assign, WorkerRequeue, Requeued, WorkerSave, WorkerAbort

\* A POST leaves the worker about to save an outcome or to queue the delivery again.
LEMMA PostMoves ==
  ASSUME TypeOK, NEW w \in Workers, WorkerPost(w)
  PROVE  /\ worker'[w].d = worker[w].d
         /\ \E a : \/ /\ worker'[w].pc = "saving"
                      /\ \E s \in {"success", "dlq"} :
                           worker'[w].write = Dirty(worker[w].seen, s, a, "none")
                   \/ /\ worker'[w].pc = "requeue"
                      /\ worker'[w].write = Dirty(worker[w].seen, "pending", a, "waiting")
<1> DEFINE a == worker[w].seen.attempt + 1
<1>1. \/ Assign(w, "saving", Dirty(worker[w].seen, "success", a, "none"))
      \/ Assign(w, "saving", Dirty(worker[w].seen, "dlq", a, "none"))
      \/ Assign(w, "requeue", Dirty(worker[w].seen, "pending", a, "waiting"))
  BY DEF WorkerPost, AfterFailure
<1> HIDE DEF a
<1>2. ASSUME NEW pc, NEW write, Assign(w, pc, write)
      PROVE  worker'[w].d = worker[w].d /\ worker'[w].pc = pc /\ worker'[w].write = write
  BY <1>2 DEF Assign, TypeOK, WorkerType
<1>3. CASE Assign(w, "saving", Dirty(worker[w].seen, "success", a, "none"))
  BY <1>2, <1>3
<1>4. CASE Assign(w, "saving", Dirty(worker[w].seen, "dlq", a, "none"))
  BY <1>2, <1>4
<1>5. CASE Assign(w, "requeue", Dirty(worker[w].seen, "pending", a, "waiting"))
  BY <1>2, <1>5
<1>6. QED
  BY <1>1, <1>3, <1>4, <1>5

\* What a worker does, field by field: the only thing the lemmas below need of it.
LEMMA WorkerMoves ==
  ASSUME TypeOK, NEW w \in Workers, WorkerStep(w) \/ WorkerAbort(w)
  PROVE  \/ WorkerPop(w) /\ worker[w].pc = "idle" /\ worker'[w].pc = "popped"
              /\ worker'[w].d = Head(queue)
         \/ WorkerLoad(w) /\ worker[w].pc = "popped" /\ worker'[w].pc \in {"idle", "loaded"}
         \/ WorkerReadEndpoint(w) /\ worker[w].pc = "loaded" /\ worker'[w].d = worker[w].d
              /\ worker'[w].seen = worker[w].seen
              /\ \/ worker'[w].pc = "posting"
                 \/ worker'[w].pc = "saving" /\ worker'[w].write = DeadLetter(worker[w].seen)
         \/ WorkerPost(w) /\ worker[w].pc = "posting" /\ worker'[w].d = worker[w].d
              /\ \E a : \/ /\ worker'[w].pc = "saving"
                           /\ \E s \in {"success", "dlq"} :
                                worker'[w].write = Dirty(worker[w].seen, s, a, "none")
                        \/ /\ worker'[w].pc = "requeue"
                           /\ worker'[w].write = Dirty(worker[w].seen, "pending", a, "waiting")
         \/ WorkerRequeue(w) /\ worker[w].pc = "requeue" /\ worker'[w].pc = "saving"
              /\ worker'[w].d = worker[w].d /\ worker'[w].write = worker[w].write
         \/ WorkerSave(w) /\ worker[w].pc = "saving" /\ worker'[w].pc = "idle"
         \/ WorkerAbort(w) /\ worker[w].pc # "idle" /\ worker'[w].pc = "idle"
<1>0. worker \in [Workers -> WorkerType]
  BY DEF TypeOK
<1>1. CASE WorkerPop(w)
  BY <1>0, <1>1 DEF WorkerPop, WorkerType
<1>2. CASE WorkerLoad(w)
  BY <1>0, <1>2 DEF WorkerLoad, WorkerType, Idle
<1>3. CASE WorkerReadEndpoint(w)
  BY <1>0, <1>3 DEF WorkerReadEndpoint, Assign, WorkerType
<1>4. CASE WorkerPost(w)
  BY <1>4, PostMoves DEF WorkerPost
<1>5. CASE WorkerRequeue(w)
  BY <1>0, <1>5 DEF WorkerRequeue, WorkerType
<1>6. CASE WorkerSave(w)
  BY <1>0, <1>6 DEF WorkerSave, Idle
<1>7. CASE WorkerAbort(w)
  BY <1>0, <1>7 DEF WorkerAbort, Idle
<1>8. QED
  BY <1>1, <1>2, <1>3, <1>4, <1>5, <1>6, <1>7 DEF WorkerStep

\* Steps of other processes leave the workers alone.
LEMMA WorkersRest ==
  ASSUME Next
  PROVE  worker' = worker \/ \E w \in Workers : WorkerStep(w) \/ WorkerAbort(w)
BY DEF Next, CreateEndpoint, DeactivateEndpoint, BackoffElapses, PubStep, PublishLookup,
       PublishInsert, PublishFanOut, PublishEnqueue, PublishCommit, PublishRollback, RetryLoad,
       OpStep, RetryFlush, RetryEnqueue, RetryCommit, RetryRollback

\* What a worker is about to write fits what it has queued.
LEMMA WriteFitsNext ==
  ASSUME TypeOK, Next, \A v \in Workers : WriteFits(v), NEW v \in Workers
  PROVE  WriteFits(v)'
<1>1. CASE worker'[v] = worker[v]
  BY <1>1 DEF WriteFits
<1>2. CASE WorkerStep(v) \/ WorkerAbort(v)
  <2>0. worker[v].seen \in Row
    BY DEF TypeOK, WorkerType
  <2>1. CASE worker'[v].pc \notin {"requeue", "saving"}
    BY <2>1 DEF WriteFits
  <2>2. CASE worker[v].pc = "requeue" /\ worker'[v].pc = "saving" /\ worker'[v].write = worker[v].write
    BY <2>2 DEF WriteFits
  <2>3. CASE worker'[v].pc = "saving" /\ worker'[v].write = DeadLetter(worker[v].seen)
    BY <2>3, NoneIsFresh DEF WriteFits, DeadLetter, NoWrite, Changed
  <2>4. ASSUME NEW a, NEW s \in {"success", "dlq"}, worker'[v].pc = "saving",
               worker'[v].write = Dirty(worker[v].seen, s, a, "none")
        PROVE  WriteFits(v)'
    BY <2>0, <2>4, DirtyFits, NoneIsFresh DEF WriteFits
  <2>5. ASSUME NEW a, worker'[v].pc = "requeue",
               worker'[v].write = Dirty(worker[v].seen, "pending", a, "waiting")
        PROVE  WriteFits(v)'
    BY <2>0, <2>5, DirtyFits DEF WriteFits
  <2>6. QED
    BY <1>2, <2>1, <2>2, <2>3, <2>4, <2>5, WorkerMoves
<1>3. QED
  BY <1>1, <1>2, WorkersRest, OneWorkerMoves

-----------------------------------------------------------------------------
(* QueueInv is inductive.                                                   *)

\* Only reading the row uses an id up; with its row still uncommitted, that is a loss.
LEMMA FreshStep ==
  ASSUME TypeOK, Next, NEW d \in Delivery, Fresh(d)
  PROVE  \/ Fresh(d)'
         \/ ~PushedUncommitted(d) /\ \E w \in Workers : WorkerLoad(w) /\ worker[w].d = d
<1>1. CASE \E w \in Workers : WorkerStep(w) \/ WorkerAbort(w)
  <2>0. PICK w \in Workers : WorkerStep(w) \/ WorkerAbort(w)
    BY <1>1
  <2>1. \A v \in Workers : v # w => worker'[v] = worker[v]
    BY <2>0, OneWorkerMoves
  <2>2. \A v \in Workers : v # w /\ Popped(v, d) => Popped(v, d)'
    BY <2>1 DEF Popped
  <2>3. CASE WorkerPop(w)
    <3>1. ~Popped(w, d) /\ lost' = lost /\ queue # <<>> /\ queue' = Tail(queue)
      BY <2>3 DEF WorkerPop, Popped
    <3>2. worker'[w].pc = "popped" /\ worker'[w].d = Head(queue)
      BY <2>3 DEF WorkerPop, TypeOK, WorkerType
    <3>3. Queued(d) => Queued(d)' \/ Popped(w, d)'
      BY <3>1, <3>2, PopQueues DEF Popped
    <3>4. QED
      BY <2>2, <3>1, <3>3 DEF Fresh
  <2>4. CASE WorkerLoad(w)
    <3>1. CASE worker[w].d = d /\ PushedUncommitted(d)
      BY <2>4, <3>1 DEF WorkerLoad, Fresh
    <3>2. CASE worker[w].d # d
      <4>1. ~Popped(w, d) /\ lost \subseteq lost' /\ queue' = queue
        BY <2>4, <3>2 DEF WorkerLoad, Popped
      <4>2. QED
        BY <2>2, <4>1 DEF Fresh, Queued
    <3>3. QED
      BY <2>4, <3>1, <3>2
  <2>5. CASE WorkerReadEndpoint(w) \/ WorkerPost(w) \/ WorkerSave(w)
    <3>1. ~Popped(w, d) /\ lost' = lost /\ queue' = queue
      BY <2>5 DEF WorkerReadEndpoint, WorkerPost, WorkerSave, Popped
    <3>2. QED
      BY <2>2, <3>1 DEF Fresh, Queued
  <2>6. CASE WorkerRequeue(w)
    <3>1. worker[w].d \in Delivery /\ ~Popped(w, d) /\ lost \subseteq lost'
      BY <2>6 DEF WorkerRequeue, Popped, TypeOK
    <3>2. queue' = queue \/ queue' = Append(queue, worker[w].d)
      BY <2>6 DEF WorkerRequeue, Requeued
    <3>3. Queued(d) => Queued(d)'
      BY <3>1, <3>2, PushQueues DEF Queued
    <3>4. QED
      BY <2>2, <3>1, <3>3 DEF Fresh
  <2>7. CASE WorkerAbort(w)
    <3>1. lost \subseteq lost' /\ queue' = queue /\ (Popped(w, d) => d \in lost')
      BY <2>7 DEF WorkerAbort, Popped
    <3>2. QED
      BY <2>2, <3>1 DEF Fresh, Queued
  <2>8. QED
    BY <2>0, <2>3, <2>4, <2>5, <2>6, <2>7 DEF WorkerStep
<1>2. CASE worker' = worker
  <2> SUFFICES ASSUME lost \subseteq lost', Queued(d) => Queued(d)' PROVE Fresh(d)'
    <3>1. CASE lost \subseteq lost' /\ queue' = queue
      BY <3>1 DEF Queued
    <3>2. ASSUME NEW p \in Publishers, PublishEnqueue(p)
          PROVE  lost \subseteq lost' /\ (Queued(d) => Queued(d)')
      <4>1. CASE \E s \in Listings(DeliveriesOf(p)) : queue' = queue \o s
        BY <3>2, <4>1, ListQueues DEF PublishEnqueue
      <4>2. CASE queue' = queue
        BY <3>2, <4>2 DEF PublishEnqueue, Queued
      <4>3. QED
        BY <3>2, <4>1, <4>2 DEF PublishEnqueue
    <3>3. ASSUME NEW o \in Operators, RetryEnqueue(o)
          PROVE  lost \subseteq lost' /\ (Queued(d) => Queued(d)')
      <4>1. op[o].d \in Delivery
        BY <3>3 DEF RetryEnqueue, TypeOK
      <4>2. QED
        BY <3>3, <4>1, PushQueues DEF RetryEnqueue, Queued
    <3>4. CASE \E w \in Workers : WorkerStep(w) \/ WorkerAbort(w)
      BY <1>1, <3>4
    <3>5. QED
      BY <3>1, <3>2, <3>3, <3>4
         DEF Next, CreateEndpoint, DeactivateEndpoint, BackoffElapses, PubStep, PublishLookup,
             PublishInsert, PublishFanOut, PublishCommit, PublishRollback, RetryLoad,
             OpStep, RetryFlush, RetryCommit, RetryRollback
  <2>1. \A v \in Workers : Popped(v, d) => Popped(v, d)'
    BY <1>2 DEF Popped
  <2>2. QED
    BY <2>1 DEF Fresh
<1>3. QED
  BY <1>1, <1>2, WorkersRest

\* A worker that serves d goes on serving it until it has queued or settled it.
LEMMA ServesStep ==
  ASSUME TypeOK, Next, NEW d \in Delivery, NEW v \in Workers, WriteFits(v), Serves(v, d)
  PROVE  Serves(v, d)' \/ Fresh(d)' \/ row'[d].status # "pending"
<1>0. worker[v].d = d /\ worker[v].seen \in Row
  BY DEF Serves, TypeOK, WorkerType
<1>1. CASE worker'[v] = worker[v]
  BY <1>1 DEF Serves
<1>2. CASE WorkerStep(v) \/ WorkerAbort(v)
  <2>1. CASE WorkerReadEndpoint(v)
    <3>1. /\ worker[v].seen.status = "pending"
          /\ worker'[v].d = d /\ worker'[v].seen = worker[v].seen
          /\ \/ worker'[v].pc = "posting"
             \/ worker'[v].pc = "saving" /\ worker'[v].write = DeadLetter(worker[v].seen)
      BY <1>0, <2>1 DEF Serves, WorkerReadEndpoint, Assign, TypeOK, WorkerType
    <3>2. DeadLetter(worker[v].seen).status = "dlq"
      BY <3>1 DEF DeadLetter, NoWrite, Changed
    <3>3. QED
      BY <3>1, <3>2 DEF Serves
  <2>2. CASE WorkerPost(v)
    <3>1. worker[v].pc = "posting" /\ worker[v].seen.status = "pending"
      BY <2>2 DEF WorkerPost, Serves
    <3>2. PICK a : /\ worker'[v].d = d
                   /\ \/ /\ worker'[v].pc = "saving"
                         /\ \E s \in {"success", "dlq"} :
                              worker'[v].write = Dirty(worker[v].seen, s, a, "none")
                      \/ worker'[v].pc = "requeue"
      BY <1>0, <2>2, PostMoves
    <3>3. \A s \in {"success", "dlq"} : Dirty(worker[v].seen, s, a, "none").status = s
      BY <1>0, <3>1, DirtyFits
    <3>4. QED
      BY <3>2, <3>3 DEF Serves
  <2>3. CASE WorkerRequeue(v)
    <3>1. CASE queue' = Append(queue, d)
      BY <3>1, PushQueues DEF Fresh
    <3>2. CASE lost' = lost \cup {d}
      BY <3>2 DEF Fresh
    <3>3. QED
      BY <1>0, <2>3, <3>1, <3>2 DEF WorkerRequeue, Requeued
  <2>4. CASE WorkerSave(v)
    <3>1. worker[v].pc = "saving" /\ worker[v].write.status \in {"success", "dlq"}
      BY <2>4 DEF WorkerSave, Serves
    <3>2. row'[d] = Updated(row[d], worker[v].write)
      BY <1>0, <2>4 DEF WorkerSave, TypeOK
    <3>3. row'[d].status = worker[v].write.status
      BY <3>1, <3>2, NoneIsFresh DEF Updated, Kept
    <3>4. QED
      BY <3>1, <3>3
  <2>5. CASE WorkerAbort(v)
    <3>1. ~(worker[v].pc = "saving" /\ worker[v].write.next = "waiting")
      BY NoneIsFresh DEF Serves, WriteFits
    <3>2. d \in lost'
      BY <1>0, <2>5, <3>1 DEF WorkerAbort
    <3>3. QED
      BY <3>2 DEF Fresh
  <2>6. QED
    BY <1>2, <2>1, <2>2, <2>3, <2>4, <2>5 DEF WorkerStep, WorkerPop, WorkerLoad, Serves
<1>3. QED
  BY <1>1, <1>2, WorkersRest, OneWorkerMoves

\* An id pushed before its row commits is on the queue or lost.
LEMMA PushedStep ==
  ASSUME TypeOK, Next, \A w \in Workers : WriteFits(w), NEW d \in Delivery, PushedUncommitted(d)'
  PROVE  PushedUncommitted(d) \/ Fresh(d)'
<1>0. EventOf(d) \in Publishers /\ d = <<EventOf(d), EndpointOf(d)>>
  BY DEF Delivery, EventOf, EndpointOf
<1>1. CASE pub'[EventOf(d)].pc = "pushed" /\ EndpointOf(d) \in pub'[EventOf(d)].ids
  <2> DEFINE p == EventOf(d)
  <2>1. CASE pub'[p] = pub[p]
    BY <1>1, <2>1 DEF PushedUncommitted
  <2>2. CASE PublishEnqueue(p)
    <3>1. pub'[p].ids = pub[p].ids
      BY <1>0, <2>2 DEF PublishEnqueue, TypeOK, PubType
    <3>2. d \in DeliveriesOf(p)
      BY <1>0, <1>1, <3>1 DEF DeliveriesOf
    <3>3. CASE lost' = lost \cup DeliveriesOf(p)
      BY <3>2, <3>3 DEF Fresh
    <3>4. CASE \E s \in Listings(DeliveriesOf(p)) : queue' = queue \o s
      BY <1>0, <3>2, <3>4, ListQueues DEF Fresh
    <3>5. QED
      BY <2>2, <3>3, <3>4 DEF PublishEnqueue
  <2>3. CASE pub'[p].pc # "pushed"
    BY <1>1, <2>3
  <2>4. ASSUME NEW q \in Publishers, q # p, PubStep(q) \/ PublishRollback(q)
        PROVE  pub'[p] = pub[p]
    BY <1>0, <2>4 DEF PubStep, PublishLookup, PublishInsert, PublishFanOut, PublishEnqueue,
                      PublishCommit, PublishRollback, TypeOK
  <2>5. ASSUME PubStep(p) \/ PublishRollback(p), ~PublishEnqueue(p) PROVE pub'[p].pc # "pushed"
    <3>0. pub \in [Publishers -> PubType]
      BY DEF TypeOK
    <3>1. ASSUME NEW k \in Keys, NEW t \in EventTypes, PublishLookup(p, k, t)
          PROVE  pub'[p].pc \in {"looked", "done"}
      <4>1. CASE pub' = [pub EXCEPT ![p] = [@ EXCEPT !.pc = "looked", !.key = k, !.type = t]]
        BY <1>0, <3>0, <4>1 DEF PubType
      <4>2. ASSUME NEW q \in Holders(k),
                   pub' = [pub EXCEPT ![p] =
                             [@ EXCEPT !.pc = "done", !.key = k, !.type = t, !.reply = q]]
            PROVE  pub'[p].pc = "done"
        BY <1>0, <3>0, <4>2 DEF PubType
      <4>3. QED
        BY <3>1, <4>1, <4>2 DEF PublishLookup
    <3>2. CASE PublishInsert(p)
      <4>1. pub'[p].pc \in {"inserted", "failed"}
        BY <1>0, <3>0, <3>2 DEF PublishInsert, PubType
      <4>2. QED
        BY <4>1
    <3>3. CASE PublishFanOut(p) \/ PublishCommit(p) \/ PublishRollback(p)
      BY <1>0, <3>0, <3>3 DEF PublishFanOut, PublishCommit, PublishRollback, PubType
    <3>4. QED
      BY <2>5, <3>1, <3>2, <3>3 DEF PubStep
  <2>6. CASE pub' = pub
    BY <2>1, <2>6
  <2>7. QED
    BY <2>1, <2>2, <2>3, <2>4, <2>5, <2>6
       DEF Next, CreateEndpoint, DeactivateEndpoint, BackoffElapses, RetryLoad, OpStep,
           RetryFlush, RetryEnqueue, RetryCommit, RetryRollback, WorkerStep, WorkerPop,
           WorkerLoad, WorkerReadEndpoint, WorkerPost, WorkerRequeue, WorkerSave, WorkerAbort
<1>2. ASSUME NEW o \in Operators, op'[o].pc = "pushed", op'[o].d = d
      PROVE  PushedUncommitted(d) \/ Fresh(d)'
  <2>1. CASE op'[o] = op[o]
    BY <1>2, <2>1 DEF PushedUncommitted
  <2>2. CASE RetryEnqueue(o)
    <3>1. op[o].d = d
      BY <1>2, <2>2 DEF RetryEnqueue, TypeOK, OpType
    <3>2. CASE queue' = Append(queue, d)
      BY <3>2, PushQueues DEF Fresh
    <3>3. CASE lost' = lost \cup {d}
      BY <3>3 DEF Fresh
    <3>4. QED
      BY <2>2, <3>1, <3>2, <3>3 DEF RetryEnqueue
  <2>3. ASSUME NEW q \in Operators, q # o,
               OpStep(q) \/ RetryRollback(q) \/ \E c \in Delivery : RetryLoad(q, c)
        PROVE  op'[o] = op[o]
    BY <2>3 DEF OpStep, RetryFlush, RetryEnqueue, RetryCommit, RetryRollback, RetryLoad, TypeOK
  <2>4. ASSUME OpStep(o) \/ RetryRollback(o) \/ \E c \in Delivery : RetryLoad(o, c),
               ~RetryEnqueue(o)
        PROVE  op'[o].pc # "pushed"
    <3>0. op \in [Operators -> OpType]
      BY DEF TypeOK
    <3>1. ASSUME NEW c \in Delivery, RetryLoad(o, c) PROVE op'[o].pc \in {"refused", "loaded"}
      BY <3>0, <3>1 DEF RetryLoad, OpType
    <3>2. CASE RetryFlush(o)
      BY <3>0, <3>2 DEF RetryFlush, OpType
    <3>3. CASE RetryCommit(o) \/ RetryRollback(o)
      BY <3>0, <3>3 DEF RetryCommit, RetryRollback, OpType
    <3>4. QED
      BY <2>4, <3>1, <3>2, <3>3 DEF OpStep
  <2>5. CASE op' = op
    BY <2>1, <2>5
  <2>6. QED
    BY <1>2, <2>1, <2>2, <2>3, <2>4, <2>5
       DEF Next, CreateEndpoint, DeactivateEndpoint, BackoffElapses, PubStep, PublishLookup,
           PublishInsert, PublishFanOut, PublishEnqueue, PublishCommit, PublishRollback,
           WorkerStep, WorkerPop, WorkerLoad, WorkerReadEndpoint, WorkerPost, WorkerRequeue,
           WorkerSave, WorkerAbort
<1>3. ASSUME NEW w \in Workers, worker'[w].pc = "saving", worker'[w].d = d,
             worker'[w].write.next = "waiting"
      PROVE  PushedUncommitted(d) \/ Fresh(d)'
  <2>1. CASE worker'[w] = worker[w]
    BY <1>3, <2>1 DEF PushedUncommitted
  <2>2. CASE WorkerStep(w) \/ WorkerAbort(w)
    <3>0. worker[w].seen \in Row
      BY DEF TypeOK, WorkerType
    <3>1. CASE WorkerRequeue(w)
      <4>1. worker[w].d = d
        BY <1>3, <3>1 DEF WorkerRequeue, TypeOK, WorkerType
      <4>2. CASE queue' = Append(queue, d)
        BY <4>2, PushQueues DEF Fresh
      <4>3. CASE lost' = lost \cup {d}
        BY <4>3 DEF Fresh
      <4>4. QED
        BY <3>1, <4>1, <4>2, <4>3 DEF WorkerRequeue, Requeued
    <3>2. worker'[w].write # DeadLetter(worker[w].seen)
      BY <1>3, NoneIsFresh DEF DeadLetter, NoWrite
    <3>3. \A a : \A s \in {"success", "dlq"} :
            worker'[w].write # Dirty(worker[w].seen, s, a, "none")
      BY <1>3, <3>0, DirtyFits
    <3>4. QED
      BY <1>3, <2>2, <3>1, <3>2, <3>3, WorkerMoves
  <2>3. QED
    BY <2>1, <2>2, WorkersRest, OneWorkerMoves
<1>4. QED
  BY <1>1, <1>2, <1>3 DEF PushedUncommitted

\* A row becomes pending when the transaction that pushed its id commits, and stays so
\* unless a worker settles it.
LEMMA PendingStep ==
  ASSUME TypeOK, Next, \A w \in Workers : WriteFits(w), NEW d \in Delivery,
         row'[d].status = "pending"
  PROVE  row[d].status = "pending" \/ PushedUncommitted(d)
<1>0. /\ EventOf(d) \in Publishers /\ d = <<EventOf(d), EndpointOf(d)>>
      /\ row \in [Delivery -> Row]
  BY DEF Delivery, EventOf, EndpointOf, TypeOK
<1>1. CASE row'[d] = row[d]
  BY <1>1
<1>2. ASSUME NEW c \in Delivery, BackoffElapses(c)
      PROVE  row'[d].status = row[d].status
  BY <1>0, <1>2 DEF BackoffElapses, Row
<1>3. ASSUME NEW p \in Publishers, PublishCommit(p)
      PROVE  row[d].status = "pending" \/ PushedUncommitted(d)
  <2>1. CASE d \in DeliveriesOf(p)
    BY <1>0, <1>3, <2>1 DEF PublishCommit, DeliveriesOf, PushedUncommitted, EventOf, EndpointOf
  <2>2. CASE d \notin DeliveriesOf(p)
    BY <1>3, <2>2 DEF PublishCommit
  <2>3. QED
    BY <2>1, <2>2
<1>4. ASSUME NEW o \in Operators, RetryCommit(o)
      PROVE  row[d].status = "pending" \/ PushedUncommitted(d)
  <2>1. CASE op[o].d = d
    BY <1>4, <2>1 DEF RetryCommit, PushedUncommitted
  <2>2. CASE op[o].d # d
    BY <1>0, <1>4, <2>2 DEF RetryCommit
  <2>3. QED
    BY <2>1, <2>2
<1>5. ASSUME NEW w \in Workers, WorkerSave(w)
      PROVE  row[d].status = "pending" \/ PushedUncommitted(d)
  <2>1. CASE worker[w].d # d
    BY <1>0, <1>5, <2>1 DEF WorkerSave
  <2>2. CASE worker[w].d = d /\ worker[w].write.next = "waiting"
    BY <1>5, <2>2 DEF WorkerSave, PushedUncommitted
  <2>3. CASE worker[w].d = d /\ worker[w].write.next # "waiting"
    <3>1. worker[w].write.status # "pending"
      BY <1>5, <2>3 DEF WriteFits, WorkerSave
    <3>2. row'[d].status = Kept(row[d].status, worker[w].write.status)
      BY <1>0, <1>5, <2>3 DEF WorkerSave, Updated
    <3>3. QED
      BY <3>1, <3>2 DEF Kept
  <2>4. QED
    BY <2>1, <2>2, <2>3
<1>6. QED
  BY <1>1, <1>2, <1>3, <1>4, <1>5
     DEF Next, CreateEndpoint, DeactivateEndpoint, PubStep, PublishLookup,
         PublishInsert, PublishFanOut, PublishEnqueue, PublishRollback, RetryLoad,
         OpStep, RetryFlush, RetryEnqueue, RetryRollback, WorkerStep, WorkerPop,
         WorkerLoad, WorkerReadEndpoint, WorkerPost, WorkerRequeue, WorkerAbort

\* A worker that reads a pending row serves it.
LEMMA LoadServes ==
  ASSUME TypeOK, NEW w \in Workers, WorkerLoad(w), NEW d \in Delivery, worker[w].d = d,
         row[d].status = "pending"
  PROVE  Serves(w, d)'
BY DEF WorkerLoad, Skips, Serves, TypeOK, WorkerType

\* QueueInv is kept by every step.
LEMMA QueueNext == TypeOK /\ QueueInv /\ [Next]_vars => QueueInv'
<1> SUFFICES ASSUME TypeOK, QueueInv, [Next]_vars PROVE QueueInv'
  OBVIOUS
<1>1. CASE UNCHANGED vars
  BY <1>1 DEF vars, QueueInv, WriteFits, PushedUncommitted, Fresh, Queued, Popped, Serves
<1>2. CASE Next
  <2>0. \A w \in Workers : WriteFits(w)
    BY DEF QueueInv
  <2>1. \A w \in Workers : WriteFits(w)'
    BY <1>2, <2>0, WriteFitsNext
  <2>2. ASSUME NEW d \in Delivery, PushedUncommitted(d)' PROVE Fresh(d)'
    <3>1. CASE PushedUncommitted(d)
      <4>1. Fresh(d)
        BY <3>1 DEF QueueInv
      <4>2. QED
        BY <1>2, <3>1, <4>1, FreshStep
    <3>2. QED
      BY <1>2, <2>0, <2>2, <3>1, PushedStep
  <2>3. ASSUME NEW d \in Delivery, row'[d].status = "pending"
        PROVE  Fresh(d)' \/ \E w \in Workers : Serves(w, d)'
    <3>1. CASE PushedUncommitted(d)
      <4>1. Fresh(d)
        BY <3>1 DEF QueueInv
      <4>2. QED
        BY <1>2, <3>1, <4>1, FreshStep
    <3>2. CASE row[d].status = "pending"
      <4>1. CASE Fresh(d)
        BY <1>2, <3>2, <4>1, FreshStep, LoadServes
      <4>2. ASSUME NEW w \in Workers, Serves(w, d) PROVE Fresh(d)' \/ Serves(w, d)'
        BY <1>2, <2>0, <2>3, <4>2, ServesStep
      <4>3. QED
        BY <3>2, <4>1, <4>2 DEF QueueInv
    <3>3. QED
      BY <1>2, <2>0, <2>3, <3>1, <3>2, PendingStep
  <2>4. QED
    BY <2>1, <2>2, <2>3 DEF QueueInv
<1>3. QED
  BY <1>1, <1>2

\* Nothing is pushed or pending initially.
LEMMA QueueInit == Init => QueueInv
BY NoneIsFresh DEF Init, QueueInv, WriteFits, PushedUncommitted, Idle, NotBegun, AbsentRow, Delivery,
       EventOf, NoWrite

\* QueueInv holds in every reachable state.
LEMMA QueueInvariant == Spec => []QueueInv
<1>1. Init => QueueInv
  BY QueueInit
<1>2. QED
  BY <1>1, QueueNext, TypeCorrect, PTL DEF Spec

\* A pending delivery that no queue entry, no worker and no retry request holds is one of
\* whose entries was dropped or read too early, whatever rows the workers had read when
\* they wrote: no settled or requeued outcome strands a delivery by itself.
THEOREM StrandedOnlyByLossHolds == Spec => []StrandedOnlyByLoss
<1>1. QueueInv => StrandedOnlyByLoss
  BY DEF QueueInv, StrandedOnlyByLoss, Stranded, Fresh, Queued, Popped, Serves
<1>2. QED
  BY <1>1, QueueInvariant, PTL
=============================================================================
