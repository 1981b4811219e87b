----------------------- MODULE WebhookContractProofs -----------------------
(***************************************************************************)
(* The refinement theorem of WebhookDispatchContract: with one worker, and  *)
(* any number of publish requests, retry requests, endpoints and faults,    *)
(* the pipeline implements EventDelivery but for the retries that another   *)
(* retry of the same delivery has overtaken.                                *)
(***************************************************************************)
EXTENDS WebhookDispatchContract, WebhookWorkerProofs

-----------------------------------------------------------------------------
(* One id at a time.                                                        *)

Settled(d) == row[d].status \in {"success", "dlq"}

\* The worker is at d and has not queued it again.
Holds(w, d) == worker[w].d = d /\ ~(worker[w].pc = "saving" /\ worker[w].write.next = "waiting")
Held(d) == One(\E w \in Workers : Holds(w, d))

\* d's id is on the queue or at the worker at most once, and nowhere before the fan-out has
\* pushed it or after d is settled.
OneEntry(d) ==
  /\ Entries(d) + Held(d) <= 1
  /\ NotPushed(d) \/ Settled(d) => Entries(d) = 0 /\ \A w \in Workers : worker[w].d # d

\* Until a retry request pushes d's id again.
EntryInv == \A d \in Delivery : Pushers(d) = {} => OneEntry(d)

\* No other request retries o's delivery.
Alone(o) == \A q \in Operators \ {o} : op[q].d # op[o].d

\* A retry request that found a dead letter, and is the only one of its delivery, still has
\* a dead letter when it commits; and a request writes what it found.
Reopening(o) ==
  op[o].pc \in {"loaded", "flushed", "pushed"} =>
    /\ op[o].seen.status = "dlq" /\ Alone(o) => row[op[o].d].status = "dlq"
    /\ row[op[o].d].status # "absent"
    /\ op[o].seen.status \in {"pending", "dlq"}
    /\ op[o].pc # "loaded" => op[o].write = RetryWrite(op[o].seen)

ReopenInv == \A o \in Operators : Reopening(o)

\* With one worker, what it holds is all that is held.
LEMMA TheHolder ==
  ASSUME OneWorker, NEW w \in Workers, NEW d \in Delivery
  PROVE  Held(d) = One(Holds(w, d)) /\ Held(d)' = One(Holds(w, d)')
<1>1. \A v \in Workers : v = w
  BY DEF OneWorker
<1>2. (\E v \in Workers : Holds(v, d)) <=> Holds(w, d)
  BY <1>1
<1>3. (\E v \in Workers : Holds(v, d)') <=> Holds(w, d)'
  BY <1>1
<1>4. QED
  BY <1>2, <1>3 DEF Held, One

\* Outside the saves, a delivery is settled only if it was.
LEMMA SettledRests ==
  ASSUME TypeOK, KeyInv, DeliveryInv, Next, NEW d \in Delivery, \A w \in Workers : ~WorkerSave(w),
         Settled(d)'
  PROVE  Settled(d)
<1>1. CASE Stays(d)
  BY <1>1 DEF Stays, Settled
<1>2. ASSUME NEW p \in Publishers, Inserts(p, d) PROVE FALSE
  BY <1>2 DEF Inserts, NewRow, Settled
<1>3. ASSUME NEW o \in Operators, Reopens(o, d) PROVE Settled(d)
  BY <1>3, ReopensRow DEF Settled
<1>4. QED
  BY <1>1, <1>2, <1>3, RowMoves DEF Records

\* A request's step keeps an id single.
LEMMA RequestEntry ==
  ASSUME TypeOK, TypeOK', KeyInv, DeliveryInv, BegunInv, Next, NEW d \in Delivery,
         \A w \in Workers : ~WorkerStep(w) /\ ~WorkerAbort(w),
         OneEntry(d), Pushers(d)' = {}
  PROVE  OneEntry(d)'
<1>1. worker' = worker
  BY WorkersRest
<1>2. Held(d)' = Held(d) /\ Held(d) \in {0, 1}
  BY <1>1 DEF Held, Holds, One
<1>3. (NotPushed(d)' => NotPushed(d)) /\ (Settled(d)' => Settled(d))
  BY PushedForGood, SettledRests DEF WorkerStep
<1>4. Entries(d) \in Nat
  BY CountsType
<1>5. CASE Entries(d)' = Entries(d)
  BY <1>1, <1>2, <1>3, <1>5 DEF OneEntry
<1>6. ASSUME NEW p \in Publishers, PublishEnqueue(p), d \in DeliveriesOf(p),
             Entries(d)' = Entries(d) + 1
      PROVE  OneEntry(d)'
  <2>1. EventOf(d) = p /\ pub[p].pc = "fanned" /\ pub'[p].pc = "pushed" /\ row' = row
    BY <1>6 DEF DeliveriesOf, EventOf, PublishEnqueue, TypeOK, PubType
  <2>2. NotPushed(d) /\ ~NotPushed(d)'
    BY <2>1 DEF NotPushed
  <2>3. ~Settled(d)'
    <3>1. p \notin events
      BY <2>1 DEF KeyInv
    <3>2. ~Visible(d)
      BY <2>1, <3>1 DEF DeliveryInv, PublishedRow
    <3>3. QED
      BY <2>1, <3>2 DEF Visible, Settled
  <2>4. Entries(d) = 0 /\ \A w \in Workers : worker[w].d # d
    BY <2>2 DEF OneEntry
  <2>5. Held(d) = 0
    BY <2>4 DEF Held, Holds, One
  <2>6. QED
    BY <1>2, <1>6, <2>2, <2>3, <2>4, <2>5 DEF OneEntry
<1>7. ASSUME NEW o \in Operators, RetryEnqueue(o), op[o].d = d PROVE FALSE
  <2>1. op'[o].pc = "pushed" /\ op'[o].d = d
    BY <1>7 DEF RetryEnqueue, TypeOK, OpType
  <2>2. o \in Pushers(d)'
    BY <2>1 DEF Pushers
  <2>3. QED
    BY <2>2
<1>8. QED
  BY <1>5, <1>6, <1>7, RequestCounts

\* A worker's step keeps an id single: it queues the id again only as it lets go of it, and
\* settles the delivery only if it has not queued it.
LEMMA WorkerEntry ==
  ASSUME TypeOK, TypeOK', OneWorker, BegunInv, QueueInv, NEW w \in Workers,
         WorkerStep(w) \/ WorkerAbort(w), NEW d \in Delivery, OneEntry(d)
  PROVE  OneEntry(d)'
<1> DEFINE H == One(Holds(w, d))
           Hn == One(Holds(w, d)')
<1>0. Held(d) = H /\ Held(d)' = Hn /\ H \in {0, 1} /\ Hn \in {0, 1}
  BY TheHolder DEF One
<1>1. /\ worker \in [Workers -> WorkerType] /\ worker[w].seen \in Row
      /\ Entries(d) \in Nat /\ Entries(d)' \in Nat /\ d # None
      /\ row \in [Delivery -> Row]
  BY CountsType, CountsTypeNext, NoneIsFresh DEF TypeOK, WorkerType, Delivery
<1>2. /\ Entries(d) + H <= 1
      /\ NotPushed(d) \/ Settled(d) => Entries(d) = 0 /\ worker[w].d # d
  BY <1>0 DEF OneEntry
<1>3. SUFFICES /\ Entries(d)' + Hn <= 1
               /\ NotPushed(d)' \/ Settled(d)' => Entries(d)' = 0 /\ worker'[w].d # d
  BY <1>0 DEF OneEntry, OneWorker
<1>4. pub' = pub
  BY DEF WorkerStep, WorkerPop, WorkerLoad, WorkerReadEndpoint, WorkerPost, WorkerRequeue,
         WorkerSave, WorkerAbort
<1>5. NotPushed(d)' <=> NotPushed(d)
  BY <1>4 DEF NotPushed
<1>6. CASE WorkerPop(w)
  <2>1. worker'[w].pc = "popped" /\ worker'[w].d = Head(queue) /\ row' = row
    BY <1>1, <1>6 DEF WorkerPop, WorkerType
  <2>2. Entries(d) = Entries(d)' + One(Head(queue) = d)
    BY <1>6, WorkerPops
  <2>3. Settled(d)' <=> Settled(d)
    BY <2>1 DEF Settled
  <2>4. Hn = One(Head(queue) = d)
    BY <2>1 DEF Holds, One
  <2>5. (Head(queue) = d /\ Hn = 1) \/ (Head(queue) # d /\ Hn = 0)
    BY <2>4 DEF One
  <2> HIDE DEF H, Hn
  <2>6. CASE Head(queue) = d /\ Hn = 1
    BY <1>0, <1>1, <1>2, <1>5, <2>2, <2>3, <2>6 DEF One
  <2>7. CASE Head(queue) # d /\ Hn = 0
    BY <1>0, <1>1, <1>2, <1>5, <2>1, <2>2, <2>3, <2>7 DEF One
  <2>8. QED
    BY <2>5, <2>6, <2>7
<1>7. CASE WorkerLoad(w) \/ WorkerReadEndpoint(w) \/ WorkerPost(w) \/ WorkerAbort(w)
  <2>1. queue' = queue /\ row' = row
    BY <1>7 DEF WorkerLoad, WorkerReadEndpoint, WorkerPost, WorkerAbort
  <2>2. Entries(d)' = Entries(d) /\ (Settled(d)' <=> Settled(d))
    BY <2>1 DEF Entries, Settled
  <2>3. worker'[w].d = d => worker[w].d = d
    <3>1. CASE WorkerLoad(w)
      BY <1>1, <3>1 DEF WorkerLoad, WorkerType, Idle
    <3>2. CASE WorkerReadEndpoint(w)
      BY <1>1, <3>2 DEF WorkerReadEndpoint, Assign, WorkerType
    <3>3. CASE WorkerPost(w)
      BY <3>3, PostMoves
    <3>4. CASE WorkerAbort(w)
      BY <1>1, <3>4 DEF WorkerAbort, Idle
    <3>5. QED
      BY <1>7, <3>1, <3>2, <3>3, <3>4
  <2>4. worker'[w].d = d => worker[w].pc # "saving"
    <3>1. CASE WorkerAbort(w)
      BY <1>1, <3>1 DEF WorkerAbort, Idle
    <3>2. CASE ~WorkerAbort(w)
      BY <1>7, <3>2 DEF WorkerLoad, WorkerReadEndpoint, WorkerPost
    <3>3. QED
      BY <3>1, <3>2
  <2>5. Hn <= H
    BY <2>3, <2>4 DEF Holds, One
  <2> HIDE DEF H, Hn
  <2>6. QED
    BY <1>0, <1>1, <1>2, <1>5, <2>2, <2>3, <2>5
<1>8. CASE WorkerRequeue(w)
  <2>1. /\ worker[w].pc = "requeue" /\ worker'[w].pc = "saving" /\ worker'[w].d = worker[w].d
        /\ worker'[w].write = worker[w].write /\ row' = row
    BY <1>1, <1>8 DEF WorkerRequeue, WorkerType
  <2>2. worker[w].write.next = "waiting"
    BY <2>1 DEF QueueInv, WriteFits
  <2>3. Entries(d)' = Entries(d) \/ Entries(d)' = Entries(d) + One(worker[w].d = d)
    BY <1>8, WorkerPushes
  <2>4. Hn = 0 /\ H = One(worker[w].d = d) /\ (Settled(d)' <=> Settled(d))
    BY <2>1, <2>2 DEF Holds, One, Settled
  <2> HIDE DEF H, Hn
  <2>5. Entries(d)' + Hn <= Entries(d) + H
    BY <1>0, <1>1, <2>3, <2>4
  <2>6. worker[w].d # d => Entries(d)' = Entries(d)
    BY <1>1, <2>3 DEF One
  <2>7. QED
    BY <1>0, <1>1, <1>2, <1>5, <2>1, <2>4, <2>5, <2>6
<1>9. CASE WorkerSave(w)
  <2>1. /\ worker[w].pc = "saving" /\ queue' = queue
        /\ row' = [row EXCEPT ![worker[w].d] = Updated(@, worker[w].write)]
        /\ worker'[w].d = None
    BY <1>1, <1>9 DEF WorkerSave, Idle
  <2>2. Entries(d)' = Entries(d) /\ Hn = 0 /\ worker'[w].d # d
    BY <1>1, <2>1 DEF Entries, Holds, One
  <2>3. Settled(d)' /\ ~Settled(d) => Entries(d) = 0
    <3>1. CASE worker[w].d # d
      BY <1>1, <2>1, <3>1 DEF Settled
    <3>2. CASE worker[w].d = d /\ worker[w].write.next = "waiting"
      <4>1. worker[w].write.status \in {None, "pending"}
        BY <2>1, <3>2 DEF QueueInv, WriteFits
      <4>2. row'[d].status = Kept(row[d].status, worker[w].write.status)
        BY <1>1, <2>1, <3>2 DEF Updated
      <4>3. QED
        BY <4>1, <4>2 DEF Kept, Settled
    <3>3. CASE worker[w].d = d /\ worker[w].write.next # "waiting"
      <4>1. H = 1
        BY <3>3 DEF Holds, One
      <4> HIDE DEF H, Hn
      <4>2. QED
        BY <1>1, <1>2, <4>1
    <3>4. QED
      BY <3>1, <3>2, <3>3
  <2> HIDE DEF H, Hn
  <2>4. QED
    BY <1>0, <1>1, <1>2, <1>5, <2>2, <2>3
<1>10. QED
  BY <1>6, <1>7, <1>8, <1>9 DEF WorkerStep

\* EntryInv is kept by every step.
LEMMA EntryNext ==
  ASSUME TypeOK, TypeOK', KeyInv, DeliveryInv, BegunInv, QueueInv, OneWorker, EntryInv,
         [Next]_vars
  PROVE  EntryInv'
<1>1. CASE UNCHANGED vars
  <2> SUFFICES ASSUME NEW d \in Delivery, Pushers(d)' = {} PROVE OneEntry(d)'
    BY DEF EntryInv
  <2>1. /\ Pushers(d)' = Pushers(d) /\ Entries(d)' = Entries(d) /\ Held(d)' = Held(d)
        /\ NotPushed(d)' = NotPushed(d) /\ Settled(d)' = Settled(d) /\ worker' = worker
    BY <1>1 DEF vars, Pushers, Entries, Held, Holds, NotPushed, Settled
  <2>2. OneEntry(d)
    BY <2>1 DEF EntryInv
  <2>3. QED
    BY <2>1, <2>2 DEF OneEntry
<1>2. CASE Next
  <2> SUFFICES ASSUME NEW d \in Delivery, Pushers(d)' = {} PROVE OneEntry(d)'
    BY DEF EntryInv
  <2>1. Pushers(d) = {}
    BY <1>2, PushersKept
  <2>2. OneEntry(d)
    BY <2>1 DEF EntryInv
  <2>3. CASE \A w \in Workers : ~WorkerStep(w) /\ ~WorkerAbort(w)
    BY <1>2, <2>2, <2>3, RequestEntry
  <2>4. ASSUME NEW w \in Workers, WorkerStep(w) \/ WorkerAbort(w) PROVE OneEntry(d)'
    BY <2>2, <2>4, WorkerEntry
  <2>5. QED
    BY <2>3, <2>4
<1>3. QED
  BY <1>1, <1>2

\* Nothing is queued or held initially.
LEMMA EntryInit == Init => EntryInv
<1> SUFFICES ASSUME Init, NEW d \in Delivery PROVE OneEntry(d)
  BY DEF EntryInv
<1>1. Entries(d) = 0
  <2>1. Positions(queue, d) = {}
    BY EmptySeq, LenProperties DEF Init, Positions
  <2>2. QED
    BY <2>1, FS_EmptySet DEF Entries
<1>2. \A w \in Workers : worker[w].d # d
  BY NoneIsFresh DEF Init, Idle, Delivery
<1>3. Held(d) = 0
  BY <1>2 DEF Held, Holds, One
<1>4. QED
  BY <1>1, <1>2, <1>3 DEF OneEntry

\* A retry request's UPDATE writes the status back to pending, and only a dead letter's.
LEMMA RetryWriteStatus ==
  ASSUME NEW seen \in Row
  PROVE  /\ seen.status = "pending" => RetryWrite(seen).status = None
         /\ seen.status = "dlq" => RetryWrite(seen).status = "pending"
BY DEF RetryWrite, Dirty, Changed

\* Nobody takes the dead letter a retry request has found: until it flushes, d has no id
\* that a worker could take, and from then on d's row is locked.
LEMMA DeadLetterWaits ==
  ASSUME TypeOK, KeyInv, DeliveryInv, EntryInv, ReopenInv, Next,
         NEW o \in Operators, op[o].pc \in {"loaded", "flushed", "pushed"},
         op[o].seen.status = "dlq", Alone(o), ~RetryCommit(o)
  PROVE  row'[op[o].d].status = "dlq"
<1> DEFINE d == op[o].d
<1>0. d \in Delivery /\ op[o].seen \in Row /\ row[d].status = "dlq"
  BY DEF TypeOK, OpType, ReopenInv, Reopening
<1>1. CASE Stays(d)
  BY <1>0, <1>1 DEF Stays
<1>2. ASSUME NEW p \in Publishers, Inserts(p, d) PROVE FALSE
  BY <1>0, <1>2, InsertsNew
<1>3. ASSUME NEW q \in Operators, Reopens(q, d) PROVE FALSE
  BY <1>3 DEF Reopens, Alone
<1>4. ASSUME NEW w \in Workers, Records(w, d) PROVE FALSE
  <2>1. CASE op[o].pc = "pushed" \/ op[o].pc = "flushed"
    <3>1. op[o].write = RetryWrite(op[o].seen)
      BY <2>1 DEF ReopenInv, Reopening
    <3>2. op[o].write.status = "pending"
      BY <1>0, <3>1, RetryWriteStatus
    <3>3. op[o].write # NoWrite
      BY <3>2, NoneIsFresh DEF NoWrite
    <3>4. Locked(d)
      BY <2>1, <3>3 DEF Locked
    <3>5. QED
      BY <1>4, <3>4 DEF Records, WorkerSave
  <2>2. CASE op[o].pc = "loaded"
    <3>1. Pushers(d) = {}
      BY <2>2 DEF Pushers, Alone
    <3>2. worker[w].d # d
      BY <1>0, <3>1 DEF EntryInv, OneEntry, Settled
    <3>3. QED
      BY <1>4, <3>2 DEF Records
  <2>3. QED
    BY <2>1, <2>2
<1>5. QED
  BY <1>0, <1>1, <1>2, <1>3, <1>4, RowMoves

\* A request that is the only one of its delivery has been so since it began.
LEMMA AloneBefore ==
  ASSUME TypeOK, BegunInv, Next, NEW o \in Operators, op[o].pc # "ready",
         op'[o].d = op[o].d, Alone(o)'
  PROVE  Alone(o)
<1> SUFFICES ASSUME NEW q \in Operators \ {o}, op[q].d = op[o].d PROVE FALSE
  BY DEF Alone
<1>1. op[o].d \in Delivery /\ op[o].d # None
  BY NoneIsFresh DEF TypeOK, Delivery
<1>2. op[q].pc # "ready"
  BY <1>1 DEF BegunInv, NotBegun
<1>3. op'[q].d = op[q].d
  <2>1. CASE op' = op
    BY <2>1
  <2>2. CASE OpAct(q)
    BY <1>2, <2>2, OpMoves
  <2>3. ASSUME NEW r \in Operators \ {q}, OpAct(r) PROVE op'[q] = op[q]
    BY <2>3, OneOpMoves
  <2>4. QED
    BY <2>1, <2>2, <2>3, OpsRest
<1>4. QED
  BY <1>3 DEF Alone

\* A visible row stays visible.
LEMMA RowsStay ==
  ASSUME TypeOK, KeyInv, DeliveryInv, Next, NEW d \in Delivery, row[d].status # "absent"
  PROVE  row'[d].status # "absent"
<1>1. CASE Stays(d)
  BY <1>1 DEF Stays
<1>2. ASSUME NEW p \in Publishers, Inserts(p, d) PROVE FALSE
  BY <1>2, InsertsNew
<1>3. ASSUME NEW write \in Write, row'[d] = Updated(row[d], write)
      PROVE  row'[d].status # "absent"
  BY <1>3 DEF Updated, Kept, Write, RowStatus
<1>4. ASSUME NEW o \in Operators, Reopens(o, d) PROVE row'[d].status # "absent"
  <2>1. op[o].write \in Write
    BY DEF TypeOK, OpType
  <2>2. QED
    BY <1>3, <1>4, <2>1 DEF Reopens
<1>5. ASSUME NEW w \in Workers, Records(w, d) PROVE row'[d].status # "absent"
  <2>1. worker[w].write \in Write
    BY DEF TypeOK, WorkerType
  <2>2. QED
    BY <1>3, <1>5, <2>1 DEF Records
<1>6. QED
  BY <1>1, <1>2, <1>4, <1>5, RowMoves

\* ReopenInv is kept by every step.
LEMMA ReopenNext ==
  ASSUME TypeOK, TypeOK', KeyInv, DeliveryInv, BegunInv, EntryInv, ReopenInv, [Next]_vars
  PROVE  ReopenInv'
<1> SUFFICES ASSUME NEW o \in Operators PROVE Reopening(o)'
  BY DEF ReopenInv
<1>0. Reopening(o)
  BY DEF ReopenInv
<1>1. CASE UNCHANGED vars
  BY <1>0, <1>1 DEF vars, Reopening, Alone
<1>2. CASE Next /\ op'[o] = op[o]
  <2> SUFFICES ASSUME op[o].pc \in {"loaded", "flushed", "pushed"} PROVE Reopening(o)'
    BY <1>2 DEF Reopening
  <2>1. ~RetryCommit(o)
    BY <1>2 DEF RetryCommit, TypeOK, OpType
  <2>2. row'[op[o].d].status # "absent"
    BY <1>0, <1>2, RowsStay DEF Reopening, TypeOK
  <2>3. Alone(o)' => Alone(o)
    BY <1>2, AloneBefore
  <2>4. op[o].seen.status = "dlq" /\ Alone(o)' => row'[op[o].d].status = "dlq"
    BY <1>2, <2>1, <2>3, DeadLetterWaits
  <2>5. QED
    BY <1>0, <1>2, <2>2, <2>4 DEF Reopening
<1>3. CASE Next /\ OpAct(o)
  <2>1. ASSUME NEW c \in Delivery, RetryLoad(o, c) PROVE Reopening(o)'
    <3>1. /\ op'[o].d = c /\ op'[o].seen = row[c] /\ row' = row
          /\ op'[o].pc = IF Refuses(row[c]) THEN "refused" ELSE "loaded"
      BY <2>1 DEF RetryLoad, TypeOK, OpType
    <3>2. ~Refuses(row[c]) => row[c].status \in {"pending", "dlq"}
      BY DEF Refuses, TypeOK, Row, RowStatus
    <3>3. QED
      BY <3>1, <3>2 DEF Reopening
  <2>2. CASE op'[o].pc \in {"refused", "done", "failed"}
    BY <2>2 DEF Reopening
  <2>3. CASE RetryFlush(o)
    <3>1. /\ op[o].pc = "loaded" /\ op'[o].d = op[o].d /\ op'[o].seen = op[o].seen
          /\ op'[o].write = RetryWrite(op[o].seen) /\ row' = row
      BY <2>3 DEF RetryFlush, TypeOK, OpType
    <3>2. Alone(o)' => Alone(o)
      BY <1>3, <3>1, AloneBefore
    <3>3. QED
      BY <1>0, <3>1, <3>2 DEF Reopening
  <2>4. CASE RetryEnqueue(o)
    <3>1. /\ op[o].pc = "flushed" /\ op'[o].d = op[o].d /\ op'[o].seen = op[o].seen
          /\ op'[o].write = op[o].write /\ row' = row
      BY <2>4 DEF RetryEnqueue, TypeOK, OpType
    <3>2. Alone(o)' => Alone(o)
      BY <1>3, <3>1, AloneBefore
    <3>3. QED
      BY <1>0, <3>1, <3>2 DEF Reopening
  <2>5. QED
    BY <1>3, <2>1, <2>2, <2>3, <2>4, OpMoves
<1>4. QED
  BY <1>1, <1>2, <1>3, OpsRest, OneOpMoves

\* No request has begun initially.
LEMMA ReopenInit == Init => ReopenInv
BY DEF Init, ReopenInv, Reopening, NotBegun

\* With one worker EntryInv and ReopenInv hold in every reachable state.
LEMMA EntryInvariant ==
  ASSUME OneWorker
  PROVE  Spec => []EntryInv
<1>1. TypeOK /\ TypeOK' /\ KeyInv /\ DeliveryInv /\ BegunInv /\ QueueInv /\ EntryInv /\ [Next]_vars
        => EntryInv'
  BY EntryNext
<1>2. QED
  BY <1>1, EntryInit, TypeCorrect, KeyInvariant, DeliveryInvariant, BegunInvariant,
     QueueInvariant, PTL DEF Spec

LEMMA ReopenInvariant ==
  ASSUME OneWorker
  PROVE  Spec => []ReopenInv
<1>1. TypeOK /\ TypeOK' /\ KeyInv /\ DeliveryInv /\ BegunInv /\ EntryInv /\ ReopenInv
        /\ [Next]_vars => ReopenInv'
  BY ReopenNext
<1>2. QED
  BY <1>1, ReopenInit, TypeCorrect, KeyInvariant, DeliveryInvariant, BegunInvariant,
     EntryInvariant, PTL DEF Spec

-----------------------------------------------------------------------------
(* The step simulation.                                                     *)

\* The state of EventDelivery that a state of the pipeline maps to.
Status == [d \in Delivery |-> row[d].status]
Closed == {d \in Delivery : endpoint[EndpointOf(d)] = "inactive"}

\* The initial states map to the initial state.
LEMMA ContractInit == Init => Contract!Init
<1> SUFFICES ASSUME Init PROVE Contract!Init
  OBVIOUS
<1>1. \A d \in Delivery : EndpointOf(d) \in Endpoints
  BY DEF Delivery, EndpointOf
<1>2. \A d \in Delivery : endpoint[EndpointOf(d)] # "inactive"
  BY <1>1 DEF Init
<1>3. \A d \in Delivery : row[d].status = "absent"
  BY DEF Init, AbsentRow
<1>4. posts = [d \in Delivery |-> 0] /\ accepted = {}
  BY DEF Init
<1>5. QED
  BY <1>2, <1>3, <1>4 DEF Contract!Init

\* An UPDATE of d's row sets d's status, if it carries one.
LEMMA StatusUpdated ==
  ASSUME TypeOK, NEW d \in Delivery, NEW write, row' = [row EXCEPT ![d] = Updated(@, write)]
  PROVE  Status' = [Status EXCEPT ![d] = Kept(row[d].status, write.status)]
<1>1. row \in [Delivery -> Row]
  BY DEF TypeOK
<1>2. \A c \in Delivery : row'[c].status = IF c = d THEN Kept(row[d].status, write.status)
                                          ELSE row[c].status
  BY <1>1 DEF Updated
<1>3. QED
  BY <1>2 DEF Status

\* A commit that keeps the status of its row is a stutter.
LEMMA StatusKept ==
  ASSUME TypeOK, NEW d \in Delivery, NEW write, row' = [row EXCEPT ![d] = Updated(@, write)],
         write.status \in {None, row[d].status}
  PROVE  Status' = Status
<1>1. Kept(row[d].status, write.status) = row[d].status
  BY DEF Kept
<1>2. Status' = [Status EXCEPT ![d] = row[d].status]
  BY <1>1, StatusUpdated
<1>3. QED
  BY <1>2 DEF Status

\* A POST is a POST of a delivery that is not recorded as successful.
LEMMA PostMaps ==
  ASSUME TypeOK, CurrentInv, NEW w \in Workers, WorkerPost(w)
  PROVE  Contract!Post(worker[w].d)
<1> DEFINE d == worker[w].d
<1>1. d \in Delivery /\ Status[d] \in {"pending", "dlq"}
  BY DEF WorkerPost, TypeOK, CurrentInv, Current, Status
<1>2. /\ posts' = [posts EXCEPT ![d] = @ + 1] /\ row' = row /\ endpoint' = endpoint
      /\ accepted' \in {accepted, accepted \cup {d}}
  BY DEF WorkerPost
<1>3. QED
  BY <1>1, <1>2 DEF Contract!Post, Status

\* A fan-out's commit publishes its deliveries, all at once and none that was visible.
LEMMA CommitMaps ==
  ASSUME TypeOK, KeyInv, DeliveryInv, NEW p \in Publishers, PublishCommit(p)
  PROVE  \E S \in SUBSET Delivery : Contract!Publish(S)
<1>1. DeliveriesOf(p) \subseteq Delivery
  BY DEF DeliveriesOf, Delivery, TypeOK, PubType
<1>2. ASSUME NEW d \in DeliveriesOf(p) PROVE row[d].status = "absent"
  <2>1. d \in Delivery /\ row'[d] = NewRow
    BY <1>1 DEF PublishCommit
  <2>2. QED
    BY <2>1, InsertsNew DEF Inserts
<1>3. \A d \in Delivery : row'[d].status = IF d \in DeliveriesOf(p) THEN "pending"
                                          ELSE row[d].status
  BY DEF PublishCommit, NewRow
<1>4. posts' = posts /\ accepted' = accepted /\ endpoint' = endpoint
  BY DEF PublishCommit
<1>5. PICK S \in SUBSET Delivery : S = DeliveriesOf(p)
  BY <1>1
<1>6. Contract!Publish(S)
  BY <1>2, <1>3, <1>4, <1>5 DEF Contract!Publish
<1>7. QED
  BY <1>6

\* A worker's save settles its delivery, as a success the endpoint processed or a dead
\* letter that is used up, reopens a dead letter, or changes nothing EventDelivery sees.
LEMMA SaveMaps ==
  ASSUME TypeOK, DeliveryInv, QueueInv, CurrentInv, NEW w \in Workers, WorkerSave(w)
  PROVE  \/ \E d \in Delivery : \/ Contract!Succeed(d)
                                \/ Contract!DeadLetter(d)
                                \/ Contract!Reopen(d)
         \/ UNCHANGED Contract!vars
<1>0. worker[w].d \in Delivery
  BY DEF WorkerSave, TypeOK
<1> PICK d \in Delivery : d = worker[w].d
  BY <1>0
<1> PICK write : write = worker[w].write
  OBVIOUS
<1>1. /\ row' = [row EXCEPT ![d] = Updated(@, write)]
      /\ posts' = posts /\ accepted' = accepted /\ endpoint' = endpoint
      /\ write.status \in {"pending", "success", "dlq", None}
  BY DEF WorkerSave, TypeOK, WorkerType, Write, RowStatus
<1>2. row[d].status \in {"pending", "dlq"} /\ TrueWrite(d, write)
  BY DEF WorkerSave, CurrentInv, Current, DeliveryInv, WorkerInv
<1>3. CASE write.status \in {None, row[d].status}
  <2>1. Status' = Status
    BY <1>1, <1>3, StatusKept
  <2>2. QED
    BY <1>1, <2>1 DEF Contract!vars, Status
<1>4. ASSUME NEW s, s = write.status, s # None, s # row[d].status
      PROVE  Contract!Settle(d, s)
  <2>1. Status' = [Status EXCEPT ![d] = s]
    BY <1>1, <1>4, StatusUpdated DEF Kept
  <2>2. Status[d] \in {"pending", "dlq"} \ {s}
    BY <1>2, <1>4 DEF Status
  <2>3. QED
    BY <1>1, <2>1, <2>2 DEF Contract!Settle, Status
<1>5. CASE write.status = "success"
  <2>1. Contract!Settle(d, "success")
    BY <1>2, <1>4, <1>5, NoneIsFresh
  <2>2. d \in accepted
    BY <1>2, <1>5 DEF TrueWrite
  <2>3. Contract!Succeed(d)
    BY <2>1, <2>2 DEF Contract!Succeed
  <2>4. QED
    BY <2>3
<1>6. CASE write.status = "dlq" /\ row[d].status # "dlq"
  <2>1. Contract!Settle(d, "dlq")
    BY <1>4, <1>6, NoneIsFresh
  <2>2. posts[d] >= MaxAttempts[EndpointOf(d)] \/ endpoint[EndpointOf(d)] = "inactive"
    BY <1>2, <1>6 DEF TrueWrite, Exhausted
  <2>3. Contract!DeadLetter(d)
    BY <2>1, <2>2 DEF Contract!DeadLetter
  <2>4. QED
    BY <2>3
<1>7. CASE write.status = "pending" /\ row[d].status = "dlq"
  <2>1. Contract!Settle(d, "pending")
    BY <1>4, <1>7, NoneIsFresh
  <2>2. Contract!Reopen(d)
    BY <1>7, <2>1 DEF Contract!Reopen
  <2>3. QED
    BY <2>2
<1>8. QED
  BY <1>1, <1>2, <1>3, <1>5, <1>6, <1>7

\* A retry request's commit reopens a dead letter, changes nothing EventDelivery sees, or
\* comes after another retry of the delivery has led to its success.
LEMMA RetryMaps ==
  ASSUME TypeOK, ReopenInv, NEW o \in Operators, RetryCommit(o), ~Overtaken(o)
  PROVE  (\E d \in Delivery : Contract!Reopen(d)) \/ UNCHANGED Contract!vars
<1>0. op[o].d \in Delivery
  BY DEF RetryCommit, TypeOK
<1> PICK d \in Delivery : d = op[o].d
  BY <1>0
<1> PICK write : write = op[o].write
  OBVIOUS
<1>1. /\ row' = [row EXCEPT ![d] = Updated(@, write)]
      /\ posts' = posts /\ accepted' = accepted /\ endpoint' = endpoint
      /\ op[o].seen \in Row /\ row[d] \in Row
  BY DEF RetryCommit, TypeOK, OpType
<1>2. /\ op[o].seen.status \in {"pending", "dlq"} /\ write = RetryWrite(op[o].seen)
      /\ op[o].seen.status = "dlq" /\ Alone(o) => row[d].status = "dlq"
      /\ row[d].status # "absent"
  BY DEF RetryCommit, ReopenInv, Reopening
<1>3. CASE write.status \in {None, row[d].status}
  <2>1. Status' = Status
    BY <1>1, <1>3, StatusKept
  <2>2. QED
    BY <1>1, <2>1 DEF Contract!vars, Status
<1>4. CASE op[o].seen.status = "pending"
  BY <1>1, <1>2, <1>3, <1>4, RetryWriteStatus
<1>5. CASE op[o].seen.status = "dlq" /\ row[d].status # "pending"
  <2>1. row[d].status = "dlq"
    <3>1. row[d].status # "success"
      BY <1>2, <1>5 DEF Overtaken, Alone
    <3>2. QED
      BY <1>1, <1>2, <1>5, <3>1 DEF Row, RowStatus
  <2>2. write.status = "pending"
    BY <1>1, <1>2, <1>5, RetryWriteStatus
  <2>3. Status' = [Status EXCEPT ![d] = "pending"]
    <3>1. Kept(row[d].status, write.status) = "pending"
      BY <2>2, NoneIsFresh DEF Kept
    <3>2. Status' = [Status EXCEPT ![d] = Kept(row[d].status, write.status)]
      BY <1>1, StatusUpdated
    <3>3. QED
      BY <3>1, <3>2
  <2>4. Status[d] = "dlq"
    BY <2>1 DEF Status
  <2>5. Contract!Settle(d, "pending")
    BY <1>1, <2>3, <2>4 DEF Contract!Settle, Status
  <2>6. Contract!Reopen(d)
    BY <2>1, <2>5 DEF Contract!Reopen
  <2>7. QED
    BY <2>6
<1>6. CASE op[o].seen.status = "dlq" /\ row[d].status = "pending"
  BY <1>1, <1>2, <1>3, <1>6, RetryWriteStatus
<1>7. QED
  BY <1>2, <1>4, <1>5, <1>6

\* Every other step of the pipeline maps to a step of EventDelivery or to a stutter.
LEMMA ContractNext ==
  ASSUME TypeOK, KeyInv, DeliveryInv, QueueInv, CurrentInv, ReopenInv, [Next]_vars,
         ~SuccessUndone
  PROVE  Contract!Next \/ UNCHANGED Contract!vars
<1>1. CASE UNCHANGED <<endpoint, posts, accepted, row>>
  BY <1>1 DEF Contract!vars
<1>2. ASSUME NEW e \in Endpoints, CreateEndpoint(e) PROVE UNCHANGED Contract!vars
  <2>1. posts' = posts /\ accepted' = accepted /\ row' = row
    BY <1>2 DEF CreateEndpoint
  <2>2. \A d \in Delivery : endpoint'[EndpointOf(d)] = "inactive"
                              <=> endpoint[EndpointOf(d)] = "inactive"
    BY <1>2 DEF CreateEndpoint, TypeOK, Delivery, EndpointOf
  <2>3. QED
    BY <2>1, <2>2 DEF Contract!vars
<1>3. ASSUME NEW e \in Endpoints, DeactivateEndpoint(e) PROVE Contract!Next
  <2> DEFINE S == {d \in Delivery : EndpointOf(d) = e}
  <2>1. posts' = posts /\ accepted' = accepted /\ row' = row
    BY <1>3 DEF DeactivateEndpoint
  <2>2. \A d \in Delivery : endpoint'[EndpointOf(d)] = "inactive"
                              <=> endpoint[EndpointOf(d)] = "inactive" \/ EndpointOf(d) = e
    BY <1>3 DEF DeactivateEndpoint, TypeOK, Delivery, EndpointOf
  <2>3. Closed' = Closed \cup S
    BY <2>2 DEF Closed
  <2>4. Contract!Close(S)
    BY <2>1, <2>3 DEF Contract!Close, Closed
  <2>5. QED
    BY <2>4 DEF Contract!Next
<1>4. ASSUME NEW c \in Delivery, BackoffElapses(c) PROVE UNCHANGED Contract!vars
  <2>1. posts' = posts /\ accepted' = accepted /\ endpoint' = endpoint
    BY <1>4 DEF BackoffElapses
  <2>2. \A d \in Delivery : row'[d].status = row[d].status
    BY <1>4 DEF BackoffElapses, TypeOK, Row
  <2>3. QED
    BY <2>1, <2>2 DEF Contract!vars
<1>5. ASSUME NEW p \in Publishers, PublishCommit(p) PROVE Contract!Next
  <2>1. PICK S \in SUBSET Delivery : Contract!Publish(S)
    BY <1>5, CommitMaps
  <2>2. QED
    BY <2>1 DEF Contract!Next
<1>6. ASSUME NEW o \in Operators, RetryCommit(o) PROVE Contract!Next \/ UNCHANGED Contract!vars
  BY <1>6, RetryMaps DEF Contract!Next, SuccessUndone
<1>7. ASSUME NEW w \in Workers, WorkerPost(w) PROVE Contract!Next
  <2>1. worker[w].d \in Delivery
    BY <1>7 DEF WorkerPost, TypeOK
  <2>2. QED
    BY <1>7, <2>1, PostMaps DEF Contract!Next
<1>8. ASSUME NEW w \in Workers, WorkerSave(w) PROVE Contract!Next \/ UNCHANGED Contract!vars
  BY <1>8, SaveMaps DEF Contract!Next
<1>9. QED
  BY <1>1, <1>2, <1>3, <1>4, <1>5, <1>6, <1>7, <1>8
     DEF vars, Next, PubStep, PublishLookup, PublishInsert, PublishFanOut, PublishEnqueue,
         PublishRollback, RetryLoad, OpStep, RetryFlush, RetryEnqueue, RetryRollback, WorkerStep,
         WorkerPop, WorkerLoad, WorkerReadEndpoint, WorkerRequeue, WorkerAbort

\* With one worker and any number of retry requests, the pipeline implements EventDelivery
\* but for the retries that another one has overtaken: nothing settled is posted or changed
\* again but a dead letter, and success and dead letter are recorded only for what happened,
\* whatever fails, is lost or rolls back on the way.
THEOREM ImplementsContractHolds ==
  ASSUME OneWorker
  PROVE  Spec => ImplementsContract
<1>1. Init => Contract!Init
  BY ContractInit
<1>2. TypeOK /\ KeyInv /\ DeliveryInv /\ QueueInv /\ CurrentInv /\ ReopenInv /\ [Next]_vars
        => [Contract!Next \/ SuccessUndone]_(Contract!vars)
  BY ContractNext
<1>3. QED
  BY <1>1, <1>2, TypeCorrect, KeyInvariant, DeliveryInvariant, QueueInvariant, CurrentInvariant,
     ReopenInvariant, PTL DEF Spec, ImplementsContract
=============================================================================
