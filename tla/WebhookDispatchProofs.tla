----------------------- MODULE WebhookDispatchProofs -----------------------
(***************************************************************************)
(* Theorems about WebhookDispatch for any number of requests, endpoints,    *)
(* workers and faults.                                                      *)
(***************************************************************************)
EXTENDS WebhookDispatch, SequenceTheorems, FiniteSetTheorems, TLAPS

-----------------------------------------------------------------------------
(* Lemmas about the operators the actions are built from.                   *)

\* The UPDATE the ORM derives from a loaded row and assigned values is a write.
LEMMA DirtyType ==
  ASSUME NEW seen \in Row, NEW s \in RowStatus, NEW a \in Nat, NEW n \in RetryAt
  PROVE  Dirty(seen, s, a, n) \in Write
BY DEF Dirty, Changed, Write

\* An UPDATE turns a row into a row, and never makes it absent.
LEMMA UpdatedType ==
  ASSUME NEW r \in Row, NEW w \in Write
  PROVE  /\ Updated(r, w) \in Row
         /\ r.status # "absent" => Updated(r, w).status # "absent"
BY DEF Updated, Kept, Row, Write, RowStatus

\* A listing of a finite set of deliveries is a sequence of them.
LEMMA ListingsType ==
  ASSUME NEW p \in Publishers, TypeOK, NEW s \in Listings(DeliveriesOf(p))
  PROVE  s \in Seq(Delivery)
<1>1. pub[p].ids \subseteq Endpoints
  BY DEF TypeOK, PubType
<1>2. DeliveriesOf(p) \subseteq Delivery
  BY <1>1 DEF DeliveriesOf, Delivery
<1>3. Cardinality(DeliveriesOf(p)) \in Nat
  <2>1. IsFiniteSet(pub[p].ids)
    BY <1>1, FiniteEndpoints, FS_Subset
  <2>2. IsFiniteSet(DeliveriesOf(p))
    BY <2>1, FS_Singleton, FS_Product DEF DeliveriesOf
  <2>3. QED
    BY <2>2, FS_CardinalityType
<1>4. s \in [1..Cardinality(DeliveriesOf(p)) -> Delivery]
  BY <1>2 DEF Listings
<1>5. QED
  BY <1>3, <1>4, SeqDef

\* A worker's assignments keep the type of its state.
LEMMA AssignType ==
  ASSUME TypeOK, NEW w \in Workers, worker[w].d \in Delivery,
         NEW pc \in {"saving", "requeue"}, NEW write \in Write, Assign(w, pc, write)
  PROVE  /\ worker' \in [Workers -> WorkerType]
         /\ \A v \in Workers : worker'[v].pc # "idle" => worker'[v].d \in Delivery
BY DEF Assign, TypeOK, WorkerType

\* A step with a fault keeps their number within its bound.
LEMMA FaultType ==
  ASSUME faults \in 0..MaxFaults, Fault \/ NoFault
  PROVE  faults' \in 0..MaxFaults
BY MaxFaultsType DEF Fault, NoFault

-----------------------------------------------------------------------------
(* Type correctness.                                                        *)

\* The initial state is well typed.
LEMMA TypeInit == Init => TypeOK
<1> SUFFICES ASSUME Init PROVE TypeOK
  OBVIOUS
<1>1. AbsentRow \in Row /\ NoWrite \in Write
  BY DEF AbsentRow, Row, RowStatus, RetryAt, NoWrite, Write
<1>2. Idle \in WorkerType /\ NotBegun \in OpType
  BY <1>1 DEF Idle, NotBegun, WorkerType, OpType
<1>3. queue \in Seq(Delivery)
  BY EmptySeq DEF Init
<1>4. QED
  BY <1>1, <1>2, <1>3, MaxFaultsType DEF Init, TypeOK, PubType, Idle, NotBegun

\* Every step keeps the types.
LEMMA TypeNext == TypeOK /\ [Next]_vars => TypeOK'
<1> SUFFICES ASSUME TypeOK, [Next]_vars PROVE TypeOK'
  OBVIOUS
<1> USE DEF TypeOK
<1>1. ASSUME NEW e \in Endpoints, CreateEndpoint(e) \/ DeactivateEndpoint(e) PROVE TypeOK'
  BY <1>1 DEF CreateEndpoint, DeactivateEndpoint
<1>2. ASSUME NEW d \in Delivery, BackoffElapses(d) PROVE TypeOK'
  BY <1>2 DEF BackoffElapses, Row, RetryAt
<1>3. ASSUME NEW p \in Publishers, PubStep(p) \/ PublishRollback(p) PROVE TypeOK'
  <2>1. ASSUME NEW k \in Keys, NEW t \in EventTypes, PublishLookup(p, k, t) PROVE TypeOK'
    <3>1. pub' \in [Publishers -> PubType]
      <4>1. CASE pub' = [pub EXCEPT ![p] = [@ EXCEPT !.pc = "looked", !.key = k, !.type = t]]
        BY <4>1 DEF PubType
      <4>2. ASSUME NEW q \in Holders(k),
                   pub' = [pub EXCEPT ![p] = [@ EXCEPT !.pc = "done", !.key = k, !.type = t, !.reply = q]]
            PROVE  pub' \in [Publishers -> PubType]
        <5>1. q \in Publishers
          BY DEF Holders
        <5>2. QED
          BY <4>2, <5>1 DEF PubType
      <4>3. QED
        BY <2>1, <4>1, <4>2 DEF PublishLookup
    <3>2. QED
      BY <2>1, <3>1 DEF PublishLookup
  <2>2. CASE PublishInsert(p)
    <3>1. pub' \in [Publishers -> PubType]
      <4>1. CASE pub' = [pub EXCEPT ![p].pc = "inserted"]
        BY <4>1 DEF PubType
      <4>2. CASE pub' = [pub EXCEPT ![p].pc = "failed"]
        BY <4>2 DEF PubType
      <4>3. QED
        BY <2>2, <4>1, <4>2 DEF PublishInsert, Taken
    <3>2. QED
      BY <2>2, <3>1 DEF PublishInsert, Taken
  <2>3. CASE PublishFanOut(p)
    <3>1. Matching(pub[p].type) \subseteq Endpoints
      BY DEF Matching
    <3>2. QED
      <4>1. pub' \in [Publishers -> PubType]
        BY <2>3, <3>1 DEF PublishFanOut, PubType
      <4>2. QED
        BY <2>3, <4>1 DEF PublishFanOut
  <2>4. CASE PublishEnqueue(p)
    <3>1. DeliveriesOf(p) \subseteq Delivery
      BY DEF DeliveriesOf, Delivery, PubType
    <3>2. ASSUME NEW s \in Listings(DeliveriesOf(p)) PROVE queue \o s \in Seq(Delivery)
      BY ListingsType, ConcatProperties
    <3>3. pub' \in [Publishers -> PubType]
      BY <2>4 DEF PublishEnqueue, PubType
    <3>4. queue' \in Seq(Delivery)
      BY <2>4, <3>2 DEF PublishEnqueue
    <3>5. lost' \subseteq Delivery /\ faults' \in 0..MaxFaults
      BY <2>4, <3>1, MaxFaultsType DEF PublishEnqueue, Fault, NoFault
    <3>6. QED
      BY <2>4, <3>3, <3>4, <3>5 DEF PublishEnqueue
  <2>5. CASE PublishCommit(p)
    <3>1. NewRow \in Row
      BY DEF NewRow, Row, RowStatus, RetryAt
    <3>2. row' \in [Delivery -> Row]
      BY <2>5, <3>1 DEF PublishCommit
    <3>3. QED
      <4>1. pub' \in [Publishers -> PubType]
        BY <2>5 DEF PublishCommit, PubType
      <4>2. QED
        BY <2>5, <3>2, <4>1 DEF PublishCommit
  <2>6. CASE PublishRollback(p)
    <3>1. pub' \in [Publishers -> PubType]
      BY <2>6 DEF PublishRollback, PubType
    <3>2. QED
      BY <2>6, <3>1, FaultType DEF PublishRollback
  <2>7. QED
    BY <1>3, <2>1, <2>2, <2>3, <2>4, <2>5, <2>6 DEF PubStep
<1>4. ASSUME NEW o \in Operators, NEW d \in Delivery, RetryLoad(o, d) PROVE TypeOK'
  <2>1. PICK pc \in {"refused", "loaded"} :
          op' = [op EXCEPT ![o] = [@ EXCEPT !.d = d, !.seen = row[d], !.pc = pc]]
    BY <1>4 DEF RetryLoad, Refuses
  <2>2. row[d] \in Row /\ op[o] \in OpType
    OBVIOUS
  <2>3. [op[o] EXCEPT !.d = d, !.seen = row[d], !.pc = pc] \in OpType
    BY <2>2 DEF OpType
  <2>4. op' \in [Operators -> OpType]
    BY <2>1, <2>3
  <2>5. \A v \in Operators : op'[v].pc # "ready" => op'[v].d \in Delivery
    BY <2>1, <2>2 DEF OpType
  <2>6. QED
    BY <1>4, <2>4, <2>5 DEF RetryLoad, Refuses
<1>5. ASSUME NEW o \in Operators, OpStep(o) \/ RetryRollback(o) PROVE TypeOK'
  <2>1. CASE RetryFlush(o)
    <3>1. Dirty(op[o].seen, "pending", op[o].seen.attempt, "none") \in Write
      BY DirtyType DEF OpType, Row, RowStatus, RetryAt
    <3>2. QED
      BY <2>1, <3>1 DEF RetryFlush, RetryWrite, OpType
  <2>2. CASE RetryEnqueue(o)
    <3>1. op[o].d \in Delivery
      BY <2>2 DEF RetryEnqueue
    <3>2. Append(queue, op[o].d) \in Seq(Delivery)
      BY <3>1, AppendProperties
    <3>3. op' \in [Operators -> OpType]
      BY <2>2 DEF RetryEnqueue, OpType
    <3>4. queue' \in Seq(Delivery) /\ lost' \subseteq Delivery
      BY <2>2, <3>1, <3>2 DEF RetryEnqueue
    <3>6. faults' \in 0..MaxFaults
      BY <2>2, FaultType DEF RetryEnqueue
    <3>5. QED
      BY <2>2, <3>1, <3>3, <3>4, <3>6 DEF RetryEnqueue
  <2>3. CASE RetryCommit(o)
    <3>1. Updated(row[op[o].d], op[o].write) \in Row
      BY <2>3, UpdatedType DEF RetryCommit, OpType
    <3>2. QED
      BY <2>3, <3>1 DEF RetryCommit, OpType
  <2>4. CASE RetryRollback(o)
    <3>1. op' \in [Operators -> OpType]
      BY <2>4 DEF RetryRollback, OpType
    <3>2. \A v \in Operators : op'[v].pc # "ready" => op'[v].d \in Delivery
      BY <2>4 DEF RetryRollback, OpType
    <3>3. QED
      BY <2>4, <3>1, <3>2, FaultType DEF RetryRollback
  <2>5. QED
    BY <1>5, <2>1, <2>2, <2>3, <2>4 DEF OpStep
<1>6. ASSUME NEW w \in Workers, WorkerStep(w) \/ WorkerAbort(w) PROVE TypeOK'
  <2>0. Idle \in WorkerType /\ Idle.pc = "idle"
    BY DEF Idle, WorkerType, AbsentRow, Row, RowStatus, RetryAt, NoWrite, Write
  <2>1. CASE WorkerPop(w)
    <3>1. Head(queue) \in Delivery /\ Tail(queue) \in Seq(Delivery)
      BY <2>1, HeadTailProperties DEF WorkerPop
    <3>2. worker' \in [Workers -> WorkerType]
      BY <2>1, <3>1 DEF WorkerPop, WorkerType
    <3>3. \A v \in Workers : worker'[v].pc # "idle" => worker'[v].d \in Delivery
      BY <2>1, <3>1 DEF WorkerPop, WorkerType
    <3>4. QED
      BY <2>1, <3>1, <3>2, <3>3 DEF WorkerPop
  <2>2. CASE WorkerLoad(w)
    <3>1. worker[w].d \in Delivery
      BY <2>2 DEF WorkerLoad, Skips
    <3>2. worker' \in [Workers -> WorkerType]
      BY <2>0, <2>2, <3>1 DEF WorkerLoad, Skips, WorkerType
    <3>3. \A v \in Workers : worker'[v].pc # "idle" => worker'[v].d \in Delivery
      BY <2>0, <2>2, <3>1 DEF WorkerLoad, Skips, WorkerType
    <3>4. QED
      BY <2>2, <3>1, <3>2, <3>3 DEF WorkerLoad, Skips
  <2>3. CASE WorkerReadEndpoint(w)
    <3>1. [NoWrite EXCEPT !.status = Changed(worker[w].seen.status, "dlq")] \in Write
      BY DEF NoWrite, Write, Changed, RowStatus
    <3>2. worker[w].d \in Delivery
      BY <2>3 DEF WorkerReadEndpoint, DeadLetter
    <3>3. /\ worker' \in [Workers -> WorkerType]
          /\ \A v \in Workers : worker'[v].pc # "idle" => worker'[v].d \in Delivery
      <4>1. CASE worker' = [worker EXCEPT ![w].pc = "posting"]
        BY <3>2, <4>1 DEF WorkerType
      <4>2. CASE Assign(w, "saving", [NoWrite EXCEPT !.status = Changed(worker[w].seen.status, "dlq")])
        BY <3>1, <3>2, <4>2, AssignType
      <4>3. QED
        BY <2>3, <4>1, <4>2 DEF WorkerReadEndpoint, DeadLetter
    <3>4. QED
      BY <2>3, <3>3 DEF WorkerReadEndpoint, DeadLetter
  <2>4. CASE WorkerPost(w)
    <3> DEFINE d == worker[w].d
               seen == worker[w].seen
    <3>1. d \in Delivery /\ seen \in Row /\ seen.attempt + 1 \in Nat
      BY <2>4 DEF WorkerPost, AfterFailure, WorkerType, Row
    <3>2. \A s \in RowStatus, n \in RetryAt : Dirty(seen, s, seen.attempt + 1, n) \in Write
      BY <3>1, DirtyType
    <3>3. /\ Dirty(seen, "success", seen.attempt + 1, "none") \in Write
          /\ Dirty(seen, "dlq", seen.attempt + 1, "none") \in Write
          /\ Dirty(seen, "pending", seen.attempt + 1, "waiting") \in Write
      BY <3>2 DEF RowStatus, RetryAt
    <3>4. ASSUME NEW pc \in {"saving", "requeue"}, NEW write \in Write, Assign(w, pc, write)
          PROVE  /\ worker' \in [Workers -> WorkerType]
                 /\ \A v \in Workers : worker'[v].pc # "idle" => worker'[v].d \in Delivery
      BY <3>1, <3>4, AssignType
    <3>5. /\ worker' \in [Workers -> WorkerType]
          /\ \A v \in Workers : worker'[v].pc # "idle" => worker'[v].d \in Delivery
      BY <2>4, <3>3, <3>4 DEF WorkerPost, AfterFailure
    <3>6. posts' \in [Delivery -> Nat] /\ accepted' \subseteq Delivery
      BY <2>4, <3>1 DEF WorkerPost, AfterFailure
    <3>7. QED
      BY <2>4, <3>5, <3>6 DEF WorkerPost, AfterFailure
  <2>5. CASE WorkerRequeue(w)
    <3>1. worker[w].d \in Delivery
      BY <2>5 DEF WorkerRequeue, Requeued
    <3>2. Append(queue, worker[w].d) \in Seq(Delivery)
      BY <3>1, AppendProperties
    <3>3. worker' \in [Workers -> WorkerType]
      BY <2>5 DEF WorkerRequeue, Requeued, WorkerType
    <3>4. queue' \in Seq(Delivery) /\ lost' \subseteq Delivery
      BY <2>5, <3>1, <3>2 DEF WorkerRequeue, Requeued
    <3>6. faults' \in 0..MaxFaults
      BY <2>5, FaultType DEF WorkerRequeue, Requeued
    <3>5. QED
      BY <2>5, <3>1, <3>3, <3>4, <3>6 DEF WorkerRequeue, Requeued
  <2>6. CASE WorkerSave(w)
    <3>1. Updated(row[worker[w].d], worker[w].write) \in Row
      BY <2>6, UpdatedType DEF WorkerSave, WorkerType
    <3>2. QED
      BY <2>0, <2>6, <3>1 DEF WorkerSave
  <2>7. CASE WorkerAbort(w)
    <3>1. worker[w].d \in Delivery
      BY <2>7 DEF WorkerAbort
    <3>2. QED
      BY <2>0, <2>7, <3>1, FaultType DEF WorkerAbort
  <2>8. QED
    BY <1>6, <2>1, <2>2, <2>3, <2>4, <2>5, <2>6, <2>7 DEF WorkerStep
<1>7. CASE UNCHANGED vars
  BY <1>7 DEF vars
<1>8. QED
  BY <1>1, <1>2, <1>3, <1>4, <1>5, <1>6, <1>7 DEF Next

\* Every variable keeps its type, for any number of requests, workers and faults.
THEOREM TypeCorrect == Spec => []TypeOK
<1>1. Init => TypeOK
  BY TypeInit
<1>2. TypeOK /\ [Next]_vars => TypeOK'
  BY TypeNext
<1>3. QED
  BY <1>1, <1>2, PTL DEF Spec

-----------------------------------------------------------------------------
(* Idempotency keys.                                                        *)

Open(p) == pub[p].pc \in {"inserted", "fanned", "pushed"}

\* What keeps OneEventPerKey true: an open insert excludes every other open or
\* committed insert of its key, and a request's values stay once it has replied.
KeyInv ==
  /\ OneEventPerKey
  /\ \A p \in events : pub[p].pc = "done"
  /\ \A p \in Publishers : pub[p].pc = "done" =>
       pub[p].reply \in events /\ pub[pub[p].reply].key = pub[p].key
  /\ \A p \in Publishers, q \in events : Open(p) => pub[q].key # pub[p].key
  /\ \A p, q \in Publishers : Open(p) /\ Open(q) /\ pub[p].key = pub[q].key => p = q

\* No key is held initially.
LEMMA KeyInit == Init => KeyInv
BY DEF Init, KeyInv, OneEventPerKey, Open

\* Only publish requests touch KeyInv, and each of their steps keeps it.
LEMMA KeyNext == TypeOK /\ KeyInv /\ [Next]_vars => KeyInv'
<1> SUFFICES ASSUME TypeOK, KeyInv, [Next]_vars PROVE KeyInv'
  OBVIOUS
<1>1. events \subseteq Publishers /\ pub \in [Publishers -> PubType]
  BY DEF TypeOK
<1> USE DEF KeyInv, OneEventPerKey, Open
<1>2. CASE UNCHANGED <<pub, events>>
  BY <1>2
<1>3. ASSUME NEW p \in Publishers, PubStep(p) \/ PublishRollback(p) PROVE KeyInv'
  <2>1. ASSUME NEW k \in Keys, NEW t \in EventTypes, PublishLookup(p, k, t) PROVE KeyInv'
    <3>1. CASE pub' = [pub EXCEPT ![p] = [@ EXCEPT !.pc = "looked", !.key = k, !.type = t]]
      <4>1. /\ \A q \in Publishers : q # p => pub'[q] = pub[q]
            /\ pub'[p].pc = "looked"
        BY <1>1, <3>1 DEF PubType
      <4>2. p \notin events /\ events' = events
        BY <2>1 DEF PublishLookup
      <4>3. \A q \in Publishers : pub[q].pc = "done" => pub[q].reply # p
        BY <4>2
      <4>4. QED
        BY <1>1, <4>1, <4>2, <4>3
    <3>2. ASSUME NEW q \in Holders(k),
                 pub' = [pub EXCEPT ![p] = [@ EXCEPT !.pc = "done", !.key = k, !.type = t, !.reply = q]]
          PROVE  KeyInv'
      <4>1. q \in events /\ pub[q].key = k /\ p \notin events /\ q # p
        BY <2>1 DEF Holders, PublishLookup
      <4>2. /\ \A r \in Publishers : r # p => pub'[r] = pub[r]
            /\ pub'[p].pc = "done" /\ pub'[p].key = k /\ pub'[p].reply = q
        BY <1>1, <3>2 DEF PubType
      <4>3. events' = events
        BY <2>1 DEF PublishLookup
      <4>4. \A r \in Publishers : pub[r].pc = "done" => pub[r].reply # p
        BY <4>1
      <4>5. QED
        BY <1>1, <4>1, <4>2, <4>3, <4>4
    <3>3. QED
      BY <2>1, <3>1, <3>2 DEF PublishLookup
  <2>2. CASE PublishInsert(p)
    <3>1. CASE Holders(pub[p].key) = {}
      <4>1. \A q \in events : pub[q].key # pub[p].key
        BY <3>1 DEF Holders
      <4>2. \A q \in Publishers : Open(q) => pub[q].key # pub[p].key
        BY <2>2 DEF PublishInsert, Taken, Inserting
      <4>3. pub' = [pub EXCEPT ![p].pc = "inserted"]
        BY <2>2, <3>1 DEF PublishInsert, Taken
      <4>4. QED
        BY <1>1, <2>2, <4>1, <4>2, <4>3 DEF PublishInsert, Taken, PubType
    <3>2. CASE Holders(pub[p].key) # {}
      <4>1. pub' = [pub EXCEPT ![p].pc = "failed"]
        BY <2>2, <3>2 DEF PublishInsert, Taken
      <4>2. QED
        BY <1>1, <2>2, <4>1 DEF PublishInsert, Taken, PubType
    <3>3. QED
      BY <3>1, <3>2
  <2>3. CASE PublishFanOut(p)
    BY <1>1, <2>3 DEF PublishFanOut, PubType
  <2>4. CASE PublishEnqueue(p)
    BY <1>1, <2>4 DEF PublishEnqueue, PubType
  <2>5. CASE PublishCommit(p)
    <3>1. p \notin events
      BY <2>5 DEF PublishCommit
    <3>2. \A q \in Publishers : /\ q # p => pub'[q] = pub[q]
                                /\ pub'[q].key = pub[q].key
      BY <1>1, <2>5 DEF PublishCommit, PubType
    <3>3. pub'[p].pc = "done" /\ pub'[p].reply = p
      BY <1>1, <2>5 DEF PublishCommit, PubType
    <3>4. events' = events \cup {p} /\ Open(p)
      BY <2>5 DEF PublishCommit
    <3>5. QED
      BY <1>1, <3>1, <3>2, <3>3, <3>4
  <2>6. CASE PublishRollback(p)
    BY <1>1, <2>6 DEF PublishRollback, PubType
  <2>7. QED
    BY <1>3, <2>1, <2>2, <2>3, <2>4, <2>5, <2>6 DEF PubStep
<1>4. ASSUME NEW e \in Endpoints, CreateEndpoint(e) \/ DeactivateEndpoint(e) PROVE KeyInv'
  BY <1>2, <1>4 DEF CreateEndpoint, DeactivateEndpoint
<1>5. ASSUME NEW d \in Delivery, BackoffElapses(d) PROVE KeyInv'
  BY <1>2, <1>5 DEF BackoffElapses
<1>6. ASSUME NEW o \in Operators, NEW d \in Delivery, RetryLoad(o, d) PROVE KeyInv'
  BY <1>2, <1>6 DEF RetryLoad, Refuses
<1>7. ASSUME NEW o \in Operators, OpStep(o) \/ RetryRollback(o) PROVE KeyInv'
  BY <1>2, <1>7 DEF OpStep, RetryFlush, RetryWrite, RetryEnqueue, RetryCommit, RetryRollback
<1>8. ASSUME NEW w \in Workers, WorkerStep(w) \/ WorkerAbort(w) PROVE KeyInv'
  BY <1>2, <1>8 DEF WorkerStep, WorkerPop, WorkerLoad, Skips, WorkerReadEndpoint, DeadLetter,
                    WorkerPost, AfterFailure,
                    WorkerRequeue, Requeued, WorkerSave, WorkerAbort
<1>9. QED
  BY <1>2, <1>3, <1>4, <1>5, <1>6, <1>7, <1>8 DEF Next, vars

\* KeyInv holds in every reachable state.
LEMMA KeyInvariant == Spec => []KeyInv
<1>1. Init => KeyInv
  BY KeyInit
<1>2. TypeOK /\ KeyInv /\ [Next]_vars => KeyInv'
  BY KeyNext
<1>3. QED
  BY <1>1, <1>2, TypeCorrect, PTL DEF Spec

\* An idempotency key never names two committed events, however many publish
\* requests carry it and however they interleave.
THEOREM OneEventPerKeyHolds == Spec => []OneEventPerKey
<1>1. KeyInv => OneEventPerKey
  BY DEF KeyInv
<1>2. QED
  BY <1>1, KeyInvariant, PTL

\* Requests answered for one key were answered with one committed event.
THEOREM SameKeySameReplyHolds == Spec => []SameKeySameReply
<1>1. TypeOK /\ KeyInv => SameKeySameReply
  <2> SUFFICES ASSUME TypeOK, KeyInv, NEW p \in Publishers, NEW q \in Publishers,
                      pub[p].pc = "done", pub[q].pc = "done", pub[p].key = pub[q].key
               PROVE  pub[p].reply = pub[q].reply /\ pub[p].reply \in events
    BY DEF SameKeySameReply
  <2>1. /\ pub[p].reply \in events /\ pub[pub[p].reply].key = pub[p].key
        /\ pub[q].reply \in events /\ pub[pub[q].reply].key = pub[q].key
    BY DEF KeyInv
  <2>2. QED
    BY <2>1 DEF KeyInv, OneEventPerKey
<1>2. QED
  BY <1>1, TypeCorrect, KeyInvariant, PTL

-----------------------------------------------------------------------------
(* What is recorded of a delivery.                                          *)

Exhausted(d) ==
  posts[d] >= MaxAttempts[EndpointOf(d)] \/ endpoint[EndpointOf(d)] = "inactive"

\* A row, and an UPDATE of it, claims only what happened.
TrueRow(d) ==
  /\ row[d].status = "success" => d \in accepted
  /\ row[d].status = "dlq" => Exhausted(d)
  /\ row[d].attempt <= posts[d]

TrueWrite(d, write) ==
  /\ write.status = "success" => d \in accepted
  /\ write.status = "dlq" => Exhausted(d)
  /\ write.attempt # None => write.attempt <= posts[d]

Visible(d) == row[d].status # "absent"

\* A worker past its load works on a visible row, holds no more attempts than
\* were made, and is about to write only what happened.
WorkerInv(w) ==
  /\ worker[w].pc \in {"loaded", "posting", "requeue", "saving"} =>
       Visible(worker[w].d) /\ worker[w].seen.attempt <= posts[worker[w].d]
  /\ worker[w].pc \in {"requeue", "saving"} => TrueWrite(worker[w].d, worker[w].write)

\* A retry request never writes a settled status or an attempt.
OpInv(o) ==
  /\ op[o].pc \in {"loaded", "flushed", "pushed"} => Visible(op[o].d)
  /\ op[o].pc \in {"flushed", "pushed"} =>
       op[o].write.status \in {None, "pending"} /\ op[o].write.attempt = None

PublishedRow(d) ==
  /\ Visible(d) <=> EventOf(d) \in events /\ EndpointOf(d) \in pub[EventOf(d)].ids
  /\ posts[d] > 0 => Visible(d)

\* A fan-out selects endpoints that exist.
IdsInv == \A p \in Publishers : \A e \in pub[p].ids : endpoint[e] # "absent"

DeliveryInv ==
  /\ IdsInv
  /\ \A d \in Delivery : TrueRow(d) /\ PublishedRow(d)
  /\ \A w \in Workers : WorkerInv(w)
  /\ \A o \in Operators : OpInv(o)

\* No step takes back a row, a POST, an acceptance or a deactivation.
Grows(d) ==
  /\ Visible(d) => Visible(d)'
  /\ posts'[d] >= posts[d]
  /\ d \in accepted => d \in accepted'
  /\ endpoint[EndpointOf(d)] = "inactive" => endpoint'[EndpointOf(d)] = "inactive"

\* Every step of the pipeline grows, for every delivery.
LEMMA GrowsStep ==
  ASSUME TypeOK, Next, NEW d \in Delivery
  PROVE  Grows(d)
<1> USE DEF TypeOK, Grows, Visible
<1>0. EndpointOf(d) \in Endpoints
  BY DEF Delivery, EndpointOf
<1>1. ASSUME NEW e \in Endpoints, CreateEndpoint(e) \/ DeactivateEndpoint(e) PROVE Grows(d)
  BY <1>0, <1>1 DEF CreateEndpoint, DeactivateEndpoint
<1>2. ASSUME NEW c \in Delivery, BackoffElapses(c) PROVE Grows(d)
  BY <1>2 DEF BackoffElapses, Row
<1>3. ASSUME NEW p \in Publishers, PubStep(p) \/ PublishRollback(p) PROVE Grows(d)
  <2>1. CASE PublishCommit(p)
    BY <2>1 DEF PublishCommit, NewRow
  <2>2. QED
    <3>1. CASE UNCHANGED <<row, posts, accepted, endpoint>>
      BY <3>1
    <3>2. ASSUME NEW k \in Keys, NEW t \in EventTypes, PublishLookup(p, k, t)
          PROVE  UNCHANGED <<row, posts, accepted, endpoint>>
      BY <3>2 DEF PublishLookup
    <3>3. QED
      BY <1>3, <2>1, <3>1, <3>2 DEF PubStep, PublishInsert, Taken, PublishFanOut, PublishEnqueue,
                                    PublishRollback
<1>4. ASSUME NEW o \in Operators, NEW c \in Delivery, RetryLoad(o, c) PROVE Grows(d)
  BY <1>4 DEF RetryLoad, Refuses
<1>5. ASSUME NEW o \in Operators, OpStep(o) \/ RetryRollback(o) PROVE Grows(d)
  <2>1. CASE RetryCommit(o)
    <3>1. row' = [row EXCEPT ![op[o].d] = Updated(row[op[o].d], op[o].write)]
      BY <2>1 DEF RetryCommit
    <3>2. op[o].write \in Write
      BY DEF OpType
    <3>3. row[d].status # "absent" => Updated(row[d], op[o].write).status # "absent"
      BY <3>2, UpdatedType
    <3>4. QED
      BY <2>1, <3>1, <3>3 DEF RetryCommit
  <2>2. QED
    BY <1>5, <2>1 DEF OpStep, RetryFlush, RetryWrite, RetryEnqueue, RetryRollback
<1>6. ASSUME NEW w \in Workers, WorkerStep(w) \/ WorkerAbort(w) PROVE Grows(d)
  <2>1. CASE WorkerSave(w)
    <3>1. row' = [row EXCEPT ![worker[w].d] = Updated(row[worker[w].d], worker[w].write)]
      BY <2>1 DEF WorkerSave
    <3>2. worker[w].write \in Write
      BY DEF WorkerType
    <3>3. row[d].status # "absent" => Updated(row[d], worker[w].write).status # "absent"
      BY <3>2, UpdatedType
    <3>4. QED
      BY <2>1, <3>1, <3>3 DEF WorkerSave
  <2>2. CASE WorkerPost(w)
    BY <2>2 DEF WorkerPost, AfterFailure
  <2>3. QED
    BY <1>6, <2>1, <2>2 DEF WorkerStep, WorkerPop, WorkerLoad, Skips, WorkerReadEndpoint,
                            DeadLetter,
                            WorkerRequeue, Requeued, WorkerAbort
<1>7. QED
  BY <1>1, <1>2, <1>3, <1>4, <1>5, <1>6 DEF Next

\* A row that keeps its status and attempt stays true.
LEMMA RowKept ==
  ASSUME TypeOK, TypeOK', NEW d \in Delivery, Grows(d), TrueRow(d),
         row'[d].status = row[d].status, row'[d].attempt = row[d].attempt
  PROVE  TrueRow(d)'
<1>1. EndpointOf(d) \in Endpoints
  BY DEF Delivery, EndpointOf
<1>2. Exhausted(d) => Exhausted(d)'
  BY <1>1, MaxAttemptsType DEF Exhausted, Grows, TypeOK
<1>3. posts[d] \in Nat /\ posts'[d] \in Nat /\ row[d].attempt \in Nat
  BY DEF TypeOK, Row
<1>4. QED
  BY <1>2, <1>3 DEF TrueRow, Grows

\* A true UPDATE of a true row leaves a true row.
LEMMA RowWritten ==
  ASSUME TypeOK, TypeOK', NEW d \in Delivery, Grows(d), TrueRow(d),
         NEW write \in Write, TrueWrite(d, write),
         row'[d] = Updated(row[d], write)
  PROVE  TrueRow(d)'
<1>1. EndpointOf(d) \in Endpoints
  BY DEF Delivery, EndpointOf
<1>2. Exhausted(d) => Exhausted(d)'
  BY <1>1, MaxAttemptsType DEF Exhausted, Grows, TypeOK
<1>3. posts[d] \in Nat /\ posts'[d] \in Nat /\ row[d].attempt \in Nat /\ row'[d].attempt \in Nat
  BY DEF TypeOK, Row
<1>4. /\ row'[d].status = IF write.status = None THEN row[d].status ELSE write.status
      /\ row'[d].attempt = IF write.attempt = None THEN row[d].attempt ELSE write.attempt
  BY DEF Updated, Kept
<1>5. write.attempt # None => write.attempt \in Nat
  BY DEF Write
<1>6. QED
  BY <1>2, <1>3, <1>4, <1>5 DEF TrueRow, TrueWrite, Grows

\* A true UPDATE stays true whatever steps are taken.
LEMMA TrueWriteKept ==
  ASSUME TypeOK, TypeOK', NEW d \in Delivery, Grows(d),
         NEW write \in Write, TrueWrite(d, write)
  PROVE  TrueWrite(d, write)'
<1>1. EndpointOf(d) \in Endpoints
  BY DEF Delivery, EndpointOf
<1>2. Exhausted(d) => Exhausted(d)'
  BY <1>1, MaxAttemptsType DEF Exhausted, Grows, TypeOK
<1>3. posts[d] \in Nat /\ posts'[d] \in Nat
  BY DEF TypeOK
<1>4. write.attempt # None => write.attempt \in Nat
  BY DEF Write
<1>5. QED
  BY <1>2, <1>3, <1>4 DEF TrueWrite, Grows

\* A worker that does not act stays true.
LEMMA WorkerKept ==
  ASSUME TypeOK, TypeOK', NEW w \in Workers, WorkerInv(w), worker'[w] = worker[w],
         \A d \in Delivery : Grows(d)
  PROVE  WorkerInv(w)'
<1>1. CASE worker[w].pc = "idle"
  BY <1>1 DEF WorkerInv
<1>2. CASE worker[w].pc # "idle"
  <2>1. worker[w].d \in Delivery /\ worker[w].seen.attempt \in Nat /\ worker[w].write \in Write
    BY <1>2 DEF TypeOK, WorkerType, Row
  <2>2. posts[worker[w].d] \in Nat /\ posts'[worker[w].d] \in Nat
    BY <2>1 DEF TypeOK
  <2>3. Grows(worker[w].d)
    BY <2>1
  <2>4. Visible(worker[w].d) => Visible(worker[w].d)'
    BY <2>3 DEF Grows
  <2>5. TrueWrite(worker[w].d, worker[w].write) => TrueWrite(worker[w].d, worker[w].write)'
    BY <2>1, <2>3, TrueWriteKept
  <2>6. worker[w].seen.attempt <= posts[worker[w].d] => worker[w].seen.attempt <= posts'[worker[w].d]
    BY <2>1, <2>2, <2>3 DEF Grows
  <2>7. QED
    BY <2>4, <2>5, <2>6 DEF WorkerInv
<1>3. QED
  BY <1>1, <1>2

\* A retry request that does not act stays true.
LEMMA OpKept ==
  ASSUME TypeOK, NEW o \in Operators, OpInv(o), op'[o] = op[o],
         \A d \in Delivery : Grows(d)
  PROVE  OpInv(o)'
<1>1. op[o].pc # "ready" => op[o].d \in Delivery
  BY DEF TypeOK
<1>2. op[o].pc # "ready" /\ Visible(op[o].d) => Visible(op[o].d)'
  BY <1>1 DEF Grows
<1>3. QED
  BY <1>2 DEF OpInv

\* The rows stay true: only BackoffElapses and the three commits write a row.
LEMMA TrueRows ==
  ASSUME TypeOK, TypeOK', DeliveryInv, Next, NEW d \in Delivery, \A c \in Delivery : Grows(c)
  PROVE  TrueRow(d)'
<1>0. TrueRow(d) /\ Grows(d) /\ row \in [Delivery -> Row]
  BY DEF DeliveryInv, TypeOK
<1>1. CASE row'[d] = row[d]
  BY <1>0, <1>1, RowKept
<1>2. ASSUME NEW c \in Delivery, BackoffElapses(c) PROVE TrueRow(d)'
  BY <1>0, <1>2, RowKept DEF BackoffElapses, Row
<1>3. ASSUME NEW p \in Publishers, PubStep(p) \/ PublishRollback(p) PROVE TrueRow(d)'
  <2>1. CASE PublishCommit(p) /\ d \in DeliveriesOf(p)
    <3>1. row'[d] = NewRow
      BY <2>1 DEF PublishCommit
    <3>2. posts'[d] \in Nat
      BY DEF TypeOK
    <3>3. QED
      BY <3>1, <3>2 DEF TrueRow, NewRow
  <2>2. CASE PublishCommit(p) /\ d \notin DeliveriesOf(p)
    BY <1>1, <2>2 DEF PublishCommit
  <2>3. ASSUME NEW k \in Keys, NEW t \in EventTypes, PublishLookup(p, k, t) PROVE TrueRow(d)'
    BY <1>1, <2>3 DEF PublishLookup
  <2>4. QED
    BY <1>1, <1>3, <2>1, <2>2, <2>3 DEF PubStep, PublishInsert, Taken, PublishFanOut,
                                        PublishEnqueue,
                                        PublishRollback
<1>4. ASSUME NEW o \in Operators, OpStep(o) \/ RetryRollback(o) PROVE TrueRow(d)'
  <2>1. CASE RetryCommit(o) /\ op[o].d = d
    <3>1. row'[d] = Updated(row[d], op[o].write)
      BY <1>0, <2>1 DEF RetryCommit
    <3>2. op[o].write \in Write
      BY DEF TypeOK, OpType
    <3>3. TrueWrite(d, op[o].write)
      <4>1. op[o].write.status \in {None, "pending"} /\ op[o].write.attempt = None
        BY <2>1 DEF DeliveryInv, OpInv, RetryCommit
      <4>2. QED
        BY <4>1, NoneIsFresh DEF TrueWrite
    <3>4. QED
      BY <1>0, <3>1, <3>2, <3>3, RowWritten
  <2>2. CASE RetryCommit(o) /\ op[o].d # d
    BY <1>0, <1>1, <2>2 DEF RetryCommit
  <2>3. QED
    BY <1>1, <1>4, <2>1, <2>2 DEF OpStep, RetryFlush, RetryWrite, RetryEnqueue, RetryRollback
<1>5. ASSUME NEW w \in Workers, WorkerStep(w) \/ WorkerAbort(w) PROVE TrueRow(d)'
  <2>1. CASE WorkerSave(w) /\ worker[w].d = d
    <3>1. row'[d] = Updated(row[d], worker[w].write)
      BY <1>0, <2>1 DEF WorkerSave
    <3>2. worker[w].write \in Write
      BY DEF TypeOK, WorkerType
    <3>3. TrueWrite(d, worker[w].write)
      BY <2>1 DEF DeliveryInv, WorkerInv, WorkerSave
    <3>4. QED
      BY <1>0, <3>1, <3>2, <3>3, RowWritten
  <2>2. CASE WorkerSave(w) /\ worker[w].d # d
    BY <1>0, <1>1, <2>2 DEF WorkerSave
  <2>3. QED
    BY <1>1, <1>5, <2>1, <2>2 DEF WorkerStep, WorkerPop, WorkerLoad, Skips, WorkerReadEndpoint,
                                  DeadLetter,
                                  WorkerPost, AfterFailure, WorkerRequeue, Requeued, WorkerAbort
<1>6. QED
  BY <1>1, <1>2, <1>3, <1>4, <1>5 DEF Next, CreateEndpoint, DeactivateEndpoint, RetryLoad, Refuses

\* Every worker stays true: the acting one by its action, the others by WorkerKept.
LEMMA TrueWorkers ==
  ASSUME TypeOK, TypeOK', DeliveryInv, Next, NEW v \in Workers, \A c \in Delivery : Grows(c)
  PROVE  WorkerInv(v)'
<1>0. WorkerInv(v) /\ worker \in [Workers -> WorkerType]
  BY DEF DeliveryInv, TypeOK
<1>1. CASE worker'[v] = worker[v]
  BY <1>0, <1>1, WorkerKept
<1>2. ASSUME WorkerStep(v) \/ WorkerAbort(v) PROVE WorkerInv(v)'
  <2> DEFINE d == worker[v].d
             seen == worker[v].seen
  <2>1. CASE WorkerPop(v)
    <3>1. worker'[v].pc = "popped"
      BY <1>0, <2>1 DEF WorkerPop, WorkerType
    <3>2. QED
      BY <3>1 DEF WorkerInv
  <2>2. CASE WorkerLoad(v)
    <3>1. CASE row[d].status \in {"absent", "success"}
      <4>1. worker'[v].pc = "idle"
        BY <1>0, <2>2, <3>1 DEF WorkerLoad, Skips, Idle
      <4>2. QED
        BY <4>1 DEF WorkerInv
    <3>2. CASE row[d].status \notin {"absent", "success"}
      <4>1. worker'[v].pc = "loaded" /\ worker'[v].d = d /\ worker'[v].seen = row[d]
        BY <1>0, <2>2, <3>2 DEF WorkerLoad, Skips, WorkerType
      <4>2. d \in Delivery
        BY <2>2 DEF TypeOK, WorkerLoad, Skips
      <4>3. row' = row /\ posts' = posts /\ row[d].attempt <= posts[d]
        BY <2>2, <4>2 DEF WorkerLoad, Skips, DeliveryInv, TrueRow
      <4>4. QED
        BY <3>2, <4>1, <4>3 DEF WorkerInv, Visible
    <3>3. QED
      BY <3>1, <3>2
  <2>3. CASE WorkerReadEndpoint(v)
    <3>0. d \in Delivery
      BY <2>3 DEF TypeOK, WorkerReadEndpoint, DeadLetter
    <3>1. UNCHANGED <<row, posts, endpoint, accepted>> /\ Visible(d) /\ seen.attempt <= posts[d]
      BY <2>3, <1>0 DEF WorkerReadEndpoint, DeadLetter, WorkerInv
    <3>2. worker'[v].d = d /\ worker'[v].seen = seen
      BY <1>0, <2>3 DEF WorkerReadEndpoint, DeadLetter, Assign, WorkerType
    <3>3. CASE endpoint[EndpointOf(d)] = "active"
      <4>1. worker'[v].pc = "posting"
        BY <1>0, <2>3, <3>3 DEF WorkerReadEndpoint, DeadLetter, WorkerType
      <4>2. QED
        BY <3>1, <3>2, <4>1 DEF WorkerInv, Visible
    <3>4. CASE endpoint[EndpointOf(d)] # "active"
      <4>1. worker'[v].write = [NoWrite EXCEPT !.status = Changed(seen.status, "dlq")]
        BY <1>0, <2>3, <3>4 DEF WorkerReadEndpoint, DeadLetter, Assign, WorkerType
      <4>2. endpoint[EndpointOf(d)] = "inactive"
        <5>1. EventOf(d) \in Publishers /\ EndpointOf(d) \in Endpoints
          BY <3>0 DEF Delivery, EndpointOf, EventOf
        <5>2. EndpointOf(d) \in pub[EventOf(d)].ids
          BY <3>0, <3>1 DEF DeliveryInv, PublishedRow
        <5>3. endpoint[EndpointOf(d)] # "absent"
          BY <5>1, <5>2 DEF DeliveryInv, IdsInv
        <5>4. QED
          BY <3>4, <5>1, <5>3 DEF TypeOK
      <4>3. worker'[v].write.status \in {None, "dlq"} /\ worker'[v].write.attempt = None
        BY <4>1 DEF NoWrite, Changed
      <4>4. TrueWrite(worker[v].d, worker[v].write)'
        BY <3>1, <3>2, <4>2, <4>3, NoneIsFresh DEF TrueWrite, Exhausted
      <4>5. QED
        BY <3>1, <3>2, <4>4 DEF WorkerInv, Visible
    <3>5. QED
      BY <3>3, <3>4
  <2>4. CASE WorkerPost(v)
    <3>1. d \in Delivery /\ seen \in Row /\ seen.attempt \in Nat /\ posts[d] \in Nat
      BY <1>0, <2>4 DEF TypeOK, WorkerPost, AfterFailure, WorkerType, Row
    <3>2. /\ posts'[d] = posts[d] + 1 /\ endpoint' = endpoint /\ row' = row
          /\ Visible(d) /\ seen.attempt <= posts[d]
      BY <1>0, <2>4, <3>1 DEF TypeOK, WorkerPost, AfterFailure, WorkerInv
    <3>3. ASSUME NEW pc \in {"saving", "requeue"}, NEW s \in {"success", "dlq", "pending"},
                 NEW n \in RetryAt,
                 Assign(v, pc, Dirty(seen, s, seen.attempt + 1, n)),
                 s = "success" => d \in accepted',
                 s = "dlq" => seen.attempt + 1 >= MaxAttempts[EndpointOf(d)]
          PROVE  WorkerInv(v)'
      <4>1. /\ worker'[v].d = d /\ worker'[v].seen = seen
            /\ worker'[v].write = Dirty(seen, s, seen.attempt + 1, n)
        BY <1>0, <3>3 DEF Assign, WorkerType
      <4>2. /\ worker'[v].write.status \in {None, s}
            /\ worker'[v].write.attempt \in {None, seen.attempt + 1}
        BY <4>1 DEF Dirty, Changed
      <4>3. EndpointOf(d) \in Endpoints /\ MaxAttempts[EndpointOf(d)] \in Nat
        BY <3>1, MaxAttemptsType DEF Delivery, EndpointOf
      <4>4. s = "dlq" => posts'[d] >= MaxAttempts[EndpointOf(d)]
        BY <3>1, <3>2, <3>3, <4>3
      <4>5. seen.attempt + 1 <= posts'[d] /\ seen.attempt <= posts'[d]
        BY <3>1, <3>2
      <4>6. TrueWrite(worker[v].d, worker[v].write)'
        BY <3>3, <4>1, <4>2, <4>4, <4>5, NoneIsFresh DEF TrueWrite, Exhausted
      <4>7. QED
        BY <3>2, <4>1, <4>5, <4>6 DEF WorkerInv, Visible
    <3>4. CASE Assign(v, "saving", Dirty(seen, "success", seen.attempt + 1, "none"))
                 /\ accepted' = accepted \cup {d}
      BY <3>3, <3>4 DEF RetryAt
    <3>5. CASE seen.attempt + 1 >= MaxAttempts[EndpointOf(d)]
                 /\ Assign(v, "saving", Dirty(seen, "dlq", seen.attempt + 1, "none"))
      BY <3>3, <3>5 DEF RetryAt
    <3>6. CASE Assign(v, "requeue", Dirty(seen, "pending", seen.attempt + 1, "waiting"))
      BY <3>3, <3>6 DEF RetryAt
    <3>7. QED
      BY <2>4, <3>4, <3>5, <3>6 DEF WorkerPost, AfterFailure, LastAttempt
  <2>5. CASE WorkerRequeue(v)
    <3>1. /\ worker'[v].d = d /\ worker'[v].seen = seen
          /\ worker'[v].write = worker[v].write /\ worker[v].pc = "requeue"
      BY <1>0, <2>5 DEF WorkerRequeue, Requeued, WorkerType
    <3>2. UNCHANGED <<row, posts, endpoint, accepted>>
      BY <2>5 DEF WorkerRequeue, Requeued
    <3>3. QED
      BY <1>0, <3>1, <3>2 DEF WorkerInv, Visible, TrueWrite, Exhausted
  <2>6. CASE WorkerSave(v) \/ WorkerAbort(v)
    <3>1. worker'[v].pc = "idle"
      BY <1>0, <2>6 DEF WorkerSave, WorkerAbort, Idle
    <3>2. QED
      BY <3>1 DEF WorkerInv
  <2>7. QED
    BY <1>2, <2>1, <2>2, <2>3, <2>4, <2>5, <2>6 DEF WorkerStep
<1>3. ASSUME NEW w \in Workers, w # v, WorkerStep(w) \/ WorkerAbort(w) PROVE worker'[v] = worker[v]
  BY <1>0, <1>3 DEF WorkerStep, WorkerPop, WorkerLoad, Skips, WorkerReadEndpoint, DeadLetter,
                    WorkerPost, AfterFailure, Assign,
                    WorkerRequeue, Requeued, WorkerSave, WorkerAbort
<1>4. ASSUME NEW p \in Publishers, PubStep(p) \/ PublishRollback(p) PROVE worker'[v] = worker[v]
  BY <1>4 DEF PubStep, PublishLookup, PublishInsert, Taken, PublishFanOut, PublishEnqueue,
              PublishCommit, PublishRollback
<1>5. ASSUME NEW o \in Operators, OpStep(o) \/ RetryRollback(o) PROVE worker'[v] = worker[v]
  BY <1>5 DEF OpStep, RetryFlush, RetryWrite, RetryEnqueue, RetryCommit, RetryRollback
<1>6. QED
  BY <1>1, <1>2, <1>3, <1>4, <1>5
     DEF Next, CreateEndpoint, DeactivateEndpoint, BackoffElapses, RetryLoad, Refuses

\* Every retry request stays true.
LEMMA TrueOps ==
  ASSUME TypeOK, DeliveryInv, Next, NEW v \in Operators, \A c \in Delivery : Grows(c)
  PROVE  OpInv(v)'
<1>0. OpInv(v) /\ op \in [Operators -> OpType]
  BY DEF DeliveryInv, TypeOK
<1>1. CASE op'[v] = op[v]
  BY <1>0, <1>1, OpKept
<1>2. ASSUME NEW o \in Operators, NEW d \in Delivery, RetryLoad(o, d) PROVE OpInv(v)'
  <2>1. CASE o = v
    <3>1. /\ op'[v].d = d /\ row' = row
          /\ op'[v].pc = IF row[d].status \in {"absent", "success"} THEN "refused" ELSE "loaded"
      BY <1>0, <1>2, <2>1 DEF RetryLoad, Refuses, OpType
    <3>2. QED
      BY <3>1 DEF OpInv, Visible
  <2>2. CASE o # v
    BY <1>0, <1>1, <1>2, <2>2 DEF RetryLoad, Refuses
  <2>3. QED
    BY <2>1, <2>2
<1>3. ASSUME OpStep(v) \/ RetryRollback(v) PROVE OpInv(v)'
  <2>0. op[v].pc \in {"loaded", "flushed", "pushed"} => Visible(op[v].d)
    BY <1>0 DEF OpInv
  <2>1. CASE RetryFlush(v)
    <3>1. /\ op'[v].d = op[v].d /\ row' = row /\ op[v].pc = "loaded" /\ op'[v].pc = "flushed"
          /\ op'[v].write = Dirty(op[v].seen, "pending", op[v].seen.attempt, "none")
      BY <1>0, <2>1 DEF RetryFlush, RetryWrite, OpType
    <3>2. op'[v].write.status \in {None, "pending"} /\ op'[v].write.attempt = None
      BY <3>1 DEF Dirty, Changed
    <3>3. QED
      BY <2>0, <3>1, <3>2 DEF OpInv, Visible
  <2>2. CASE RetryEnqueue(v)
    <3>1. /\ op'[v].d = op[v].d /\ op'[v].write = op[v].write
          /\ row' = row /\ op[v].pc = "flushed"
      BY <1>0, <2>2 DEF RetryEnqueue, OpType
    <3>2. QED
      BY <1>0, <3>1 DEF OpInv, Visible
  <2>3. CASE RetryCommit(v) \/ RetryRollback(v)
    <3>1. op'[v].pc \in {"done", "failed"}
      BY <1>0, <2>3 DEF RetryCommit, RetryRollback, OpType
    <3>2. QED
      BY <3>1 DEF OpInv
  <2>4. QED
    BY <1>3, <2>1, <2>2, <2>3 DEF OpStep
<1>4. ASSUME NEW o \in Operators, o # v, OpStep(o) \/ RetryRollback(o) PROVE op'[v] = op[v]
  BY <1>0, <1>4 DEF OpStep, RetryFlush, RetryWrite, RetryEnqueue, RetryCommit, RetryRollback
<1>5. ASSUME NEW p \in Publishers, PubStep(p) \/ PublishRollback(p) PROVE op'[v] = op[v]
  BY <1>5 DEF PubStep, PublishLookup, PublishInsert, Taken, PublishFanOut, PublishEnqueue,
              PublishCommit, PublishRollback
<1>6. ASSUME NEW w \in Workers, WorkerStep(w) \/ WorkerAbort(w) PROVE op'[v] = op[v]
  BY <1>6 DEF WorkerStep, WorkerPop, WorkerLoad, Skips, WorkerReadEndpoint, DeadLetter,
              WorkerPost, AfterFailure,
              WorkerRequeue, Requeued, WorkerSave, WorkerAbort
<1>7. QED
  BY <1>1, <1>2, <1>3, <1>4, <1>5, <1>6
     DEF Next, CreateEndpoint, DeactivateEndpoint, BackoffElapses

\* A delivery's row stays visible exactly with its event, and no invisible row is posted.
LEMMA PublishedRows ==
  ASSUME TypeOK, KeyInv, DeliveryInv, Next, NEW d \in Delivery, \A c \in Delivery : Grows(c)
  PROVE  PublishedRow(d)'
<1>0. /\ PublishedRow(d) /\ Grows(d)
      /\ row \in [Delivery -> Row] /\ posts \in [Delivery -> Nat]
      /\ pub \in [Publishers -> PubType] /\ events \subseteq Publishers
      /\ EventOf(d) \in Publishers /\ d = <<EventOf(d), EndpointOf(d)>>
  BY DEF DeliveryInv, TypeOK, Delivery, EventOf, EndpointOf
<1>1. CASE /\ UNCHANGED <<pub, events, posts>>
           /\ Visible(d)' <=> Visible(d)
  BY <1>0, <1>1 DEF PublishedRow
<1>2. ASSUME NEW c \in Delivery, BackoffElapses(c) PROVE PublishedRow(d)'
  BY <1>0, <1>1, <1>2 DEF BackoffElapses, Visible, Row
<1>3. ASSUME NEW p \in Publishers, PubStep(p) \/ PublishRollback(p) PROVE PublishedRow(d)'
  <2>1. CASE /\ UNCHANGED <<events, posts, row>>
             /\ \A q \in events : pub'[q].ids = pub[q].ids
    BY <1>0, <2>1 DEF PublishedRow, Visible
  <2>2. CASE PublishCommit(p)
    <3>1. pub[p].pc = "pushed" /\ p \notin events
      BY <2>2 DEF PublishCommit, KeyInv
    <3>2. \A q \in Publishers : pub'[q].ids = pub[q].ids
      BY <1>0, <2>2 DEF PublishCommit, PubType
    <3>3. row'[d] = IF d \in DeliveriesOf(p) THEN NewRow ELSE row[d]
      BY <2>2 DEF PublishCommit
    <3>4. d \in DeliveriesOf(p) <=> EventOf(d) = p /\ EndpointOf(d) \in pub[p].ids
      BY <1>0 DEF DeliveriesOf, EventOf, EndpointOf
    <3>5. events' = events \cup {p} /\ posts' = posts
      BY <2>2 DEF PublishCommit
    <3>6. QED
      BY <1>0, <3>1, <3>2, <3>3, <3>4, <3>5 DEF PublishedRow, Visible, NewRow
  <2>3. ASSUME NEW k \in Keys, NEW t \in EventTypes, PublishLookup(p, k, t)
        PROVE  PublishedRow(d)'
    <3>1. p \notin events
      BY <2>3 DEF PublishLookup, KeyInv
    <3>2. \A q \in Publishers : q # p => pub'[q] = pub[q]
      BY <1>0, <2>3 DEF PublishLookup
    <3>3. QED
      BY <2>1, <2>3, <3>1, <3>2, <1>0 DEF PublishLookup
  <2>4. CASE PublishInsert(p) \/ PublishFanOut(p) \/ PublishEnqueue(p) \/ PublishRollback(p)
    <3>1. p \notin events
      BY <2>4 DEF PublishInsert, Taken, PublishFanOut, PublishEnqueue, PublishRollback, KeyInv
    <3>2. \A q \in Publishers : q # p => pub'[q] = pub[q]
      BY <1>0, <2>4 DEF PublishInsert, Taken, PublishFanOut, PublishEnqueue, PublishRollback
    <3>3. QED
      BY <1>0, <2>1, <2>4, <3>1, <3>2
         DEF PublishInsert, Taken, PublishFanOut, PublishEnqueue, PublishRollback
  <2>5. QED
    BY <1>3, <2>2, <2>3, <2>4 DEF PubStep
<1>4. ASSUME NEW o \in Operators, OpStep(o) \/ RetryRollback(o) PROVE PublishedRow(d)'
  <2>1. CASE RetryCommit(o)
    <3>1. CASE op[o].d = d
      BY <1>0, <1>1, <2>1, <3>1 DEF RetryCommit, DeliveryInv, OpInv, Grows
    <3>2. CASE op[o].d # d
      BY <1>0, <1>1, <2>1, <3>2 DEF RetryCommit, Visible
    <3>3. QED
      BY <3>1, <3>2
  <2>2. QED
    BY <1>1, <1>4, <2>1 DEF OpStep, RetryFlush, RetryWrite, RetryEnqueue, RetryRollback, Visible
<1>5. ASSUME NEW w \in Workers, WorkerStep(w) \/ WorkerAbort(w) PROVE PublishedRow(d)'
  <2>1. CASE WorkerSave(w)
    <3>1. CASE worker[w].d = d
      BY <1>0, <1>1, <2>1, <3>1 DEF WorkerSave, DeliveryInv, WorkerInv, Grows
    <3>2. CASE worker[w].d # d
      BY <1>0, <1>1, <2>1, <3>2 DEF WorkerSave, Visible
    <3>3. QED
      BY <3>1, <3>2
  <2>2. CASE WorkerPost(w)
    <3>1. UNCHANGED <<pub, events, row>>
      BY <2>2 DEF WorkerPost, AfterFailure
    <3>2. CASE worker[w].d = d
      BY <1>0, <2>2, <3>1, <3>2 DEF WorkerPost, AfterFailure, DeliveryInv, WorkerInv,
                                    PublishedRow, Visible
    <3>3. CASE worker[w].d # d
      BY <1>0, <2>2, <3>1, <3>3 DEF WorkerPost, AfterFailure, PublishedRow, Visible
    <3>4. QED
      BY <3>2, <3>3
  <2>3. QED
    BY <1>1, <1>5, <2>1, <2>2 DEF WorkerStep, WorkerPop, WorkerLoad, Skips, WorkerReadEndpoint,
                                  DeadLetter,
                                  WorkerRequeue, Requeued, WorkerAbort, Visible
<1>6. QED
  BY <1>1, <1>2, <1>3, <1>4, <1>5
     DEF Next, CreateEndpoint, DeactivateEndpoint, RetryLoad, Refuses, Visible

\* A fan-out keeps selecting endpoints that exist: no endpoint is deleted.
LEMMA IdsNext ==
  ASSUME TypeOK, IdsInv, Next
  PROVE  IdsInv'
<1>0. /\ pub \in [Publishers -> PubType]
      /\ endpoint \in [Endpoints -> {"absent", "active", "inactive"}]
      /\ \A p \in Publishers : pub[p].ids \subseteq Endpoints
  BY DEF TypeOK, PubType
<1>1. CASE UNCHANGED <<pub, endpoint>>
  BY <1>1 DEF IdsInv
<1>2. ASSUME NEW e \in Endpoints, CreateEndpoint(e) \/ DeactivateEndpoint(e) PROVE IdsInv'
  BY <1>0, <1>2 DEF CreateEndpoint, DeactivateEndpoint, IdsInv
<1>3. ASSUME NEW p \in Publishers, PubStep(p) \/ PublishRollback(p) PROVE IdsInv'
  <2>1. CASE endpoint' = endpoint /\ \A q \in Publishers : pub'[q].ids = pub[q].ids
    BY <2>1 DEF IdsInv
  <2>2. CASE PublishFanOut(p)
    <3>1. /\ pub'[p].ids = Matching(pub[p].type)
          /\ \A q \in Publishers : q # p => pub'[q] = pub[q]
      BY <1>0, <2>2 DEF PublishFanOut, PubType
    <3>2. endpoint' = endpoint
      BY <2>2 DEF PublishFanOut
    <3>3. \A e \in Matching(pub[p].type) : endpoint[e] # "absent"
      BY DEF Matching
    <3>4. QED
      BY <3>1, <3>2, <3>3 DEF IdsInv
  <2>3. ASSUME NEW k \in Keys, NEW t \in EventTypes, PublishLookup(p, k, t) PROVE IdsInv'
    <3>1. CASE pub' = [pub EXCEPT ![p] = [@ EXCEPT !.pc = "looked", !.key = k, !.type = t]]
      BY <1>0, <2>1, <2>3, <3>1 DEF PublishLookup, PubType
    <3>2. ASSUME NEW q \in Holders(k),
                 pub' = [pub EXCEPT ![p] = [@ EXCEPT !.pc = "done", !.key = k, !.type = t, !.reply = q]]
          PROVE  IdsInv'
      BY <1>0, <2>1, <2>3, <3>2 DEF PublishLookup, PubType
    <3>3. QED
      BY <2>3, <3>1, <3>2 DEF PublishLookup
  <2>4. CASE PublishInsert(p)
    BY <1>0, <2>1, <2>4 DEF PublishInsert, Taken, PubType
  <2>5. CASE PublishEnqueue(p)
    BY <1>0, <2>1, <2>5 DEF PublishEnqueue, PubType
  <2>6. CASE PublishCommit(p)
    BY <1>0, <2>1, <2>6 DEF PublishCommit, PubType
  <2>7. CASE PublishRollback(p)
    BY <1>0, <2>1, <2>7 DEF PublishRollback, PubType
  <2>8. QED
    BY <1>3, <2>2, <2>3, <2>4, <2>5, <2>6, <2>7 DEF PubStep
<1>4. ASSUME NEW o \in Operators, OpStep(o) \/ RetryRollback(o) PROVE IdsInv'
  BY <1>1, <1>4 DEF OpStep, RetryFlush, RetryWrite, RetryEnqueue, RetryCommit, RetryRollback
<1>5. ASSUME NEW w \in Workers, WorkerStep(w) \/ WorkerAbort(w) PROVE IdsInv'
  BY <1>1, <1>5 DEF WorkerStep, WorkerPop, WorkerLoad, Skips, WorkerReadEndpoint, DeadLetter,
                    WorkerPost, AfterFailure,
                    WorkerRequeue, Requeued, WorkerSave, WorkerAbort
<1>6. QED
  BY <1>1, <1>2, <1>3, <1>4, <1>5 DEF Next, BackoffElapses, RetryLoad, Refuses

\* Nothing is recorded initially.
LEMMA DeliveryInit == Init => DeliveryInv
<1> SUFFICES ASSUME Init PROVE DeliveryInv
  OBVIOUS
<1>1. \A d \in Delivery : TrueRow(d) /\ PublishedRow(d)
  BY DEF Init, TrueRow, PublishedRow, Visible, AbsentRow
<1>2. (\A w \in Workers : WorkerInv(w)) /\ (\A o \in Operators : OpInv(o))
  BY DEF Init, Idle, NotBegun, WorkerInv, OpInv
<1>3. IdsInv
  BY DEF Init, IdsInv
<1>4. QED
  BY <1>1, <1>2, <1>3 DEF DeliveryInv

\* Every step keeps what is recorded true.
LEMMA DeliveryNext == TypeOK /\ KeyInv /\ DeliveryInv /\ [Next]_vars => DeliveryInv'
<1> SUFFICES ASSUME TypeOK, KeyInv, DeliveryInv, [Next]_vars PROVE DeliveryInv'
  OBVIOUS
<1>1. CASE Next
  <2>1. TypeOK'
    BY TypeNext
  <2>2. \A c \in Delivery : Grows(c)
    BY <1>1, GrowsStep
  <2>3. \A d \in Delivery : TrueRow(d)'
    BY <1>1, <2>1, <2>2, TrueRows
  <2>4. \A d \in Delivery : PublishedRow(d)'
    BY <1>1, <2>2, PublishedRows
  <2>5. \A w \in Workers : WorkerInv(w)'
    BY <1>1, <2>1, <2>2, TrueWorkers
  <2>6. \A o \in Operators : OpInv(o)'
    BY <1>1, <2>2, TrueOps
  <2>7. IdsInv'
    BY <1>1, IdsNext DEF DeliveryInv
  <2>8. QED
    BY <2>3, <2>4, <2>5, <2>6, <2>7 DEF DeliveryInv
<1>2. CASE UNCHANGED vars
  BY <1>2 DEF vars, DeliveryInv, TrueRow, PublishedRow, WorkerInv, OpInv, IdsInv, Visible,
              TrueWrite, Exhausted
<1>3. QED
  BY <1>1, <1>2

\* DeliveryInv holds in every reachable state.
LEMMA DeliveryInvariant == Spec => []DeliveryInv
<1>1. Init => DeliveryInv
  BY DeliveryInit
<1>2. TypeOK /\ KeyInv /\ DeliveryInv /\ [Next]_vars => DeliveryInv'
  BY DeliveryNext
<1>3. QED
  BY <1>1, <1>2, TypeCorrect, KeyInvariant, PTL DEF Spec

\* A row is visible exactly when its event is committed and its endpoint was in
\* the fan-out, although ids are queued before the commit and after rollbacks.
THEOREM FanOutIsAtomicHolds == Spec => []FanOutIsAtomic
<1>1. DeliveryInv => FanOutIsAtomic
  BY DEF DeliveryInv, PublishedRow, Visible, FanOutIsAtomic
<1>2. QED
  BY <1>1, DeliveryInvariant, PTL

\* No POST of a delivery whose event is not committed.
THEOREM NoPhantomPostHolds == Spec => []NoPhantomPost
<1>1. DeliveryInv => NoPhantomPost
  BY DEF DeliveryInv, PublishedRow, NoPhantomPost
<1>2. QED
  BY <1>1, DeliveryInvariant, PTL

\* A recorded success was processed by the endpoint, whatever stale rows the
\* workers and the retry requests that raced for it wrote back.
THEOREM SuccessMeansAcceptedHolds == Spec => []SuccessMeansAccepted
<1>1. DeliveryInv => SuccessMeansAccepted
  BY DEF DeliveryInv, TrueRow, SuccessMeansAccepted
<1>2. QED
  BY <1>1, DeliveryInvariant, PTL

\* A dead letter had its max_attempts POSTs, or its endpoint is inactive, for
\* any number of workers that count attempts on stale rows.
THEOREM DlqMeansExhaustedHolds == Spec => []DlqMeansExhausted
<1>1. DeliveryInv => DlqMeansExhausted
  BY DEF DeliveryInv, TrueRow, Exhausted, DlqMeansExhausted
<1>2. QED
  BY <1>1, DeliveryInvariant, PTL

\* No row claims more attempts than POSTs were sent.
THEOREM AttemptsWereMadeHolds == Spec => []AttemptsWereMade
<1>1. DeliveryInv => AttemptsWereMade
  BY DEF DeliveryInv, TrueRow, AttemptsWereMade
<1>2. QED
  BY <1>1, DeliveryInvariant, PTL
=============================================================================
