------------------------ MODULE WebhookWorkerProofs ------------------------
(***************************************************************************)
(* Theorems about WebhookDispatch with any number of requests, endpoints    *)
(* and faults: with one worker, as the service is deployed, attempts only   *)
(* grow and POSTs are bounded; with any finite number of workers, which     *)
(* lose attempts to each other, POSTs are bounded still.                    *)
(***************************************************************************)
EXTENDS WebhookQueueProofs, WellFoundedInduction

OneWorker == \A v, w \in Workers : v = w

-----------------------------------------------------------------------------
(* How often an id is on the queue.                                         *)

Positions(q, d) == {i \in 1..Len(q) : q[i] = d}
One(condition) == IF condition THEN 1 ELSE 0
Entries(d) == Cardinality(Positions(queue, d))

\* The positions of an id can be counted.
LEMMA PositionsFinite ==
  ASSUME NEW q \in Seq(Delivery), NEW d
  PROVE  /\ IsFiniteSet(Positions(q, d))
         /\ Cardinality(Positions(q, d)) \in Nat
<1>1. Len(q) \in Nat
  BY LenProperties
<1>2. IsFiniteSet(1..Len(q))
  BY <1>1, FS_Interval
<1>3. Positions(q, d) \in SUBSET (1..Len(q))
  BY DEF Positions
<1>4. IsFiniteSet(Positions(q, d))
  BY <1>2, <1>3, FS_Subset
<1>5. QED
  BY <1>4, FS_CardinalityType

\* rpush of one id adds one entry of it.
LEMMA PushCounts ==
  ASSUME NEW q \in Seq(Delivery), NEW c \in Delivery, NEW d
  PROVE  Cardinality(Positions(Append(q, c), d)) = Cardinality(Positions(q, d)) + One(c = d)
<1>1. /\ Len(q) \in Nat /\ Len(Append(q, c)) = Len(q) + 1
      /\ Append(q, c)[Len(q) + 1] = c
      /\ \A i \in 1..Len(q) : Append(q, c)[i] = q[i]
  BY AppendProperties, LenProperties
<1>2. IsFiniteSet(Positions(q, d)) /\ Cardinality(Positions(q, d)) \in Nat
  BY PositionsFinite
<1>3. CASE c = d
  <2>1. Positions(Append(q, c), d) = Positions(q, d) \cup {Len(q) + 1}
    BY <1>1, <1>3 DEF Positions
  <2>2. Len(q) + 1 \notin Positions(q, d)
    BY <1>1 DEF Positions
  <2>3. Cardinality(Positions(q, d) \cup {Len(q) + 1}) = Cardinality(Positions(q, d)) + 1
    BY <1>2, <2>2, FS_AddElement
  <2>4. QED
    BY <1>3, <2>1, <2>3 DEF One
<1>4. CASE c # d
  <2>1. Positions(Append(q, c), d) = Positions(q, d)
    BY <1>1, <1>4 DEF Positions
  <2>2. QED
    BY <1>2, <1>4, <2>1 DEF One
<1>5. QED
  BY <1>3, <1>4

\* blpop takes one entry of the id at the head.
LEMMA PopCounts ==
  ASSUME NEW q \in Seq(Delivery), q # <<>>, NEW d
  PROVE  Cardinality(Positions(q, d)) = Cardinality(Positions(Tail(q), d)) + One(Head(q) = d)
<1>1. /\ Tail(q) \in Seq(Delivery) /\ Len(q) \in Nat /\ Len(q) >= 1
      /\ Len(Tail(q)) = Len(q) - 1
      /\ \A i \in 1..Len(Tail(q)) : Tail(q)[i] = q[i + 1]
      /\ Head(q) = q[1]
  BY HeadTailProperties, LenProperties, EmptySeq
<1> DEFINE R == Positions(q, d) \ {1}
           f == [i \in R |-> i - 1]
<1>2. IsFiniteSet(Positions(q, d)) /\ Cardinality(Positions(q, d)) \in Nat
  BY PositionsFinite
<1>3. ASSUME NEW i \in R PROVE i - 1 \in Positions(Tail(q), d)
  BY <1>1 DEF Positions
<1>4. ASSUME NEW j \in Positions(Tail(q), d) PROVE j + 1 \in R /\ (j + 1) - 1 = j
  BY <1>1 DEF Positions
<1>5. \A i, j \in R : i - 1 = j - 1 => i = j
  BY <1>1 DEF Positions
<1>6. f \in Bijection(R, Positions(Tail(q), d))
  <2>1. f \in [R -> Positions(Tail(q), d)]
    BY <1>3
  <2>2. \A i, j \in R : f[i] = f[j] => i = j
    BY <1>5
  <2>3. \A j \in Positions(Tail(q), d) : \E i \in R : f[i] = j
    BY <1>4
  <2> HIDE DEF f, R
  <2>4. QED
    BY <2>1, <2>2, <2>3 DEF Bijection, Injection, Surjection, IsInjective
<1>7. IsFiniteSet(R) /\ Cardinality(R) = IF 1 \in Positions(q, d)
                                         THEN Cardinality(Positions(q, d)) - 1
                                         ELSE Cardinality(Positions(q, d))
  BY <1>2, FS_RemoveElement
<1>8. Cardinality(Positions(Tail(q), d)) = Cardinality(R)
  <2>1. ExistsBijection(R, Positions(Tail(q), d))
    BY <1>6 DEF ExistsBijection
  <2> HIDE DEF R
  <2>2. QED
    BY <1>7, <2>1, FS_Bijection
<1>9. 1 \in Positions(q, d) <=> Head(q) = d
  BY <1>1 DEF Positions
<1>10. QED
  BY <1>2, <1>7, <1>8, <1>9 DEF One

\* rpush of a fan-out adds one entry of each of its ids: a listing repeats none.
LEMMA ListCounts ==
  ASSUME NEW q \in Seq(Delivery), NEW S \in SUBSET Delivery, IsFiniteSet(S),
         NEW s \in Listings(S), NEW d
  PROVE  Cardinality(Positions(q \o s, d)) = Cardinality(Positions(q, d)) + One(d \in S)
<1>1. Cardinality(S) \in Nat
  BY FS_CardinalityType
<1> DEFINE n == Cardinality(S)
<1>2. s \in [1..n -> S] /\ \A x \in S : \E i \in 1..n : s[i] = x
  BY DEF Listings
<1>3. s \in Seq(Delivery) /\ Len(s) = n
  <2>1. s \in [1..n -> Delivery]
    BY <1>2
  <2>2. s \in Seq(Delivery)
    BY <1>1, <2>1, SeqDef
  <2>3. QED
    BY <1>1, <2>1, <2>2, LenProperties
<1>4. \A i, j \in 1..n : s[i] = s[j] => i = j
  <2> HIDE DEF n
  <2>1. IsFiniteSet(1..n) /\ Cardinality(1..n) = n
    BY <1>1, FS_Interval DEF n
  <2>2. s \in Surjection(1..n, S)
    BY <1>2 DEF Surjection
  <2>3. n = Cardinality(S)
    BY DEF n
  <2>4. s \in Injection(1..n, S)
    BY <2>1, <2>2, <2>3, FS_SurjSameCardinalityImpliesInj
  <2>5. QED
    BY <2>4 DEF Injection, IsInjective
<1>5. /\ Len(q) \in Nat /\ Len(q \o s) = Len(q) + n
      /\ \A i \in 1..Len(q) + n : (q \o s)[i] = IF i <= Len(q) THEN q[i] ELSE s[i - Len(q)]
  BY <1>3, ConcatProperties, LenProperties
<1>6. IsFiniteSet(Positions(q, d)) /\ Cardinality(Positions(q, d)) \in Nat
  BY PositionsFinite
<1> HIDE DEF n
<1>7. n \in Nat
  BY <1>1 DEF n
<1>8. CASE d \in S
  <2>1. PICK k \in 1..n : s[k] = d
    BY <1>2, <1>8
  <2>2. \A i \in 1..n : s[i] = d <=> i = k
    BY <1>4, <2>1
  <2>3. Positions(q \o s, d) = Positions(q, d) \cup {Len(q) + k}
    <3>1. ASSUME NEW i \in Positions(q \o s, d) PROVE i \in Positions(q, d) \cup {Len(q) + k}
      <4>1. i \in 1..Len(q) + n /\ (q \o s)[i] = d
        BY <1>5 DEF Positions
      <4>2. CASE i <= Len(q)
        BY <1>5, <1>7, <4>1, <4>2 DEF Positions
      <4>3. CASE ~(i <= Len(q))
        <5>1. i - Len(q) \in 1..n /\ s[i - Len(q)] = d
          BY <1>5, <1>7, <4>1, <4>3
        <5>2. i - Len(q) = k
          BY <2>2, <5>1
        <5>3. QED
          BY <1>5, <1>7, <4>1, <5>2
      <4>4. QED
        BY <4>2, <4>3
    <3>2. ASSUME NEW i \in Positions(q, d) PROVE i \in Positions(q \o s, d)
      BY <1>5, <1>7 DEF Positions
    <3>3. Len(q) + k \in Positions(q \o s, d)
      <4>1. /\ Len(q) + k \in 1..Len(q) + n /\ ~(Len(q) + k <= Len(q))
            /\ (Len(q) + k) - Len(q) = k
        BY <1>5, <1>7
      <4>2. (q \o s)[Len(q) + k] = d
        BY <1>5, <2>1, <4>1
      <4>3. QED
        BY <1>5, <4>1, <4>2 DEF Positions
    <3>4. QED
      BY <3>1, <3>2, <3>3
  <2>4. Len(q) + k \notin Positions(q, d)
    BY <1>5, <1>7 DEF Positions
  <2>5. Cardinality(Positions(q, d) \cup {Len(q) + k}) = Cardinality(Positions(q, d)) + 1
    BY <1>6, <2>4, FS_AddElement
  <2>6. QED
    BY <1>8, <2>3, <2>5 DEF One
<1>9. CASE d \notin S
  <2>1. \A i \in 1..n : s[i] # d
    BY <1>2, <1>9
  <2>2. Positions(q \o s, d) = Positions(q, d)
    <3>1. ASSUME NEW i \in Positions(q \o s, d) PROVE i \in Positions(q, d)
      <4>1. i \in 1..Len(q) + n /\ (q \o s)[i] = d
        BY <1>5 DEF Positions
      <4>2. CASE i <= Len(q)
        BY <1>5, <1>7, <4>1, <4>2 DEF Positions
      <4>3. CASE ~(i <= Len(q))
        <5>1. i - Len(q) \in 1..n /\ s[i - Len(q)] = d
          BY <1>5, <1>7, <4>1, <4>3
        <5>2. QED
          BY <2>1, <5>1
      <4>4. QED
        BY <4>2, <4>3
    <3>2. ASSUME NEW i \in Positions(q, d) PROVE i \in Positions(q \o s, d)
      BY <1>5, <1>7 DEF Positions
    <3>3. QED
      BY <3>1, <3>2
  <2>3. QED
    BY <1>6, <1>9, <2>2 DEF One
<1>10. QED
  BY <1>8, <1>9

-----------------------------------------------------------------------------
(* Who changes a row.                                                       *)

\* A transaction that commits a change of status or attempt of d's row: the fan-out
\* inserts it, a retry request or a worker updates it.
Inserts(p, d) == PublishCommit(p) /\ d \in DeliveriesOf(p) /\ row'[d] = NewRow
Reopens(o, d) == RetryCommit(o) /\ op[o].d = d /\ row'[d] = Updated(row[d], op[o].write)
Records(w, d) == WorkerSave(w) /\ worker[w].d = d /\ row'[d] = Updated(row[d], worker[w].write)
Stays(d) == row'[d].status = row[d].status /\ row'[d].attempt = row[d].attempt

\* Nothing else does.
LEMMA RowMoves ==
  ASSUME TypeOK, Next, NEW d \in Delivery
  PROVE  \/ Stays(d)
         \/ \E p \in Publishers : Inserts(p, d)
         \/ \E o \in Operators : Reopens(o, d)
         \/ \E w \in Workers : Records(w, d)
<1>0. row \in [Delivery -> Row]
  BY DEF TypeOK
<1>1. CASE row'[d] = row[d]
  BY <1>1 DEF Stays
<1>2. ASSUME NEW c \in Delivery, BackoffElapses(c) PROVE Stays(d)
  BY <1>0, <1>2 DEF BackoffElapses, Row, Stays
<1>3. ASSUME NEW p \in Publishers, PublishCommit(p) PROVE Inserts(p, d) \/ row'[d] = row[d]
  BY <1>3 DEF PublishCommit, Inserts
<1>4. ASSUME NEW o \in Operators, RetryCommit(o) PROVE Reopens(o, d) \/ row'[d] = row[d]
  BY <1>0, <1>4 DEF RetryCommit, Reopens
<1>5. ASSUME NEW w \in Workers, WorkerSave(w) PROVE Records(w, d) \/ row'[d] = row[d]
  BY <1>0, <1>5 DEF WorkerSave, Records
<1>6. QED
  BY <1>1, <1>2, <1>3, <1>4, <1>5
     DEF Next, CreateEndpoint, DeactivateEndpoint, PubStep, PublishLookup, PublishInsert,
         PublishFanOut, PublishEnqueue, PublishRollback, RetryLoad, OpStep, RetryFlush,
         RetryEnqueue, RetryRollback, WorkerStep, WorkerPop, WorkerLoad, WorkerReadEndpoint,
         WorkerPost, WorkerRequeue, WorkerAbort

\* The fan-out inserts rows nobody has seen, posted or counted.
LEMMA InsertsNew ==
  ASSUME TypeOK, KeyInv, DeliveryInv, NEW p \in Publishers, NEW d \in Delivery, Inserts(p, d)
  PROVE  ~Visible(d) /\ row[d].status = "absent" /\ row[d].attempt = 0 /\ posts[d] = 0
<1>1. EventOf(d) = p /\ p \notin events
  BY DEF Inserts, DeliveriesOf, EventOf, PublishCommit, KeyInv
<1>2. ~Visible(d)
  BY <1>1 DEF DeliveryInv, PublishedRow
<1>3. posts[d] \in Nat /\ ~(posts[d] > 0) /\ row[d].attempt \in Nat /\ row[d].attempt <= posts[d]
  BY <1>2 DEF DeliveryInv, PublishedRow, TrueRow, TypeOK, Row
<1>4. QED
  BY <1>2, <1>3 DEF Visible

\* A retry request leaves the attempts, and the status unless it is a dead letter's.
LEMMA ReopensRow ==
  ASSUME TypeOK, DeliveryInv, NEW o \in Operators, NEW d \in Delivery, Reopens(o, d)
  PROVE  /\ row'[d].attempt = row[d].attempt
         /\ row'[d].status \in {row[d].status, "pending"}
         /\ op[o].write.status = None => row'[d].status = row[d].status
BY NoneIsFresh DEF Reopens, RetryCommit, DeliveryInv, OpInv, Updated, Kept

-----------------------------------------------------------------------------
(* One worker.                                                              *)

\* What the worker has read of a row is still what the row says, and it adds at most
\* the one attempt it made.
Current(w) ==
  worker[w].pc \in {"loaded", "posting", "requeue", "saving"} =>
    /\ worker[w].seen.attempt = row[worker[w].d].attempt
    /\ row[worker[w].d].status \in {"pending", "dlq"}
    /\ worker[w].pc \in {"requeue", "saving"} =>
         worker[w].write.attempt \in {None, worker[w].seen.attempt + 1}

CurrentInv == \A w \in Workers : Current(w)

\* While the worker is at a delivery, nobody else settles it or counts an attempt.
LEMMA RowWaits ==
  ASSUME TypeOK, KeyInv, DeliveryInv, OneWorker, Next, NEW w \in Workers,
         ~WorkerSave(w), worker[w].d \in Delivery,
         row[worker[w].d].status \in {"pending", "dlq"}
  PROVE  /\ row'[worker[w].d].attempt = row[worker[w].d].attempt
         /\ row'[worker[w].d].status \in {"pending", "dlq"}
<1> DEFINE d == worker[w].d
<1>1. CASE Stays(d)
  BY <1>1 DEF Stays
<1>2. ASSUME NEW p \in Publishers, Inserts(p, d) PROVE FALSE
  BY <1>2, InsertsNew
<1>3. ASSUME NEW o \in Operators, Reopens(o, d)
      PROVE  row'[d].attempt = row[d].attempt /\ row'[d].status \in {"pending", "dlq"}
  BY <1>3, ReopensRow
<1>4. ASSUME NEW v \in Workers, Records(v, d) PROVE FALSE
  BY <1>4 DEF Records, OneWorker
<1>5. QED
  BY <1>1, <1>2, <1>3, <1>4, RowMoves

\* CurrentInv is kept by every step.
LEMMA CurrentNext ==
  ASSUME TypeOK, KeyInv, DeliveryInv, OneWorker, CurrentInv, Next, NEW w \in Workers
  PROVE  Current(w)'
<1> DEFINE d == worker[w].d
<1>0. worker[w].seen \in Row /\ worker \in [Workers -> WorkerType]
  BY DEF TypeOK, WorkerType
<1>1. CASE worker[w].pc \in {"loaded", "posting", "requeue", "saving"} /\ ~WorkerSave(w)
  <2>1. d \in Delivery /\ row[d].status \in {"pending", "dlq"} /\ worker[w].seen.attempt = row[d].attempt
    BY <1>1 DEF CurrentInv, Current, TypeOK
  <2>2. row'[d].attempt = worker[w].seen.attempt /\ row'[d].status \in {"pending", "dlq"}
    BY <1>1, <2>1, RowWaits
  <2>3. CASE worker'[w] = worker[w]
    BY <1>1, <2>2, <2>3 DEF CurrentInv, Current
  <2>4. CASE worker'[w].pc = "idle"
    BY <2>4 DEF Current
  <2>5. CASE WorkerReadEndpoint(w)
    <3>1. /\ worker'[w].d = d /\ worker'[w].seen = worker[w].seen
          /\ \/ worker'[w].pc = "posting"
             \/ worker'[w].pc = "saving" /\ worker'[w].write = DeadLetter(worker[w].seen)
      BY <1>0, <2>5 DEF WorkerReadEndpoint, Assign, WorkerType
    <3>2. DeadLetter(worker[w].seen).attempt = None
      BY DEF DeadLetter, NoWrite
    <3>3. QED
      BY <2>2, <3>1, <3>2 DEF Current
  <2>6. CASE WorkerPost(w)
    <3>1. worker'[w].d = d /\ worker'[w].seen = worker[w].seen
      BY <1>0, <2>6 DEF WorkerPost, AfterFailure, Assign, WorkerType
    <3>2. worker'[w].write.attempt = worker[w].seen.attempt + 1
      <4> DEFINE a == worker[w].seen.attempt + 1
      <4>1. \/ Assign(w, "saving", Dirty(worker[w].seen, "success", a, "none"))
            \/ Assign(w, "saving", Dirty(worker[w].seen, "dlq", a, "none"))
            \/ Assign(w, "requeue", Dirty(worker[w].seen, "pending", a, "waiting"))
        BY <2>6 DEF WorkerPost, AfterFailure
      <4>2. \A s, n : Dirty(worker[w].seen, s, a, n).attempt = a
        BY <1>0 DEF Dirty, Changed, Row
      <4> HIDE DEF a
      <4>3. ASSUME NEW pc, NEW write, Assign(w, pc, write) PROVE worker'[w].write = write
        BY <1>0, <4>3 DEF Assign, WorkerType
      <4>4. worker'[w].write.attempt = a
        BY <4>1, <4>2, <4>3
      <4>5. QED
        BY <4>4 DEF a
    <3>3. QED
      BY <2>2, <3>1, <3>2 DEF Current
  <2>7. CASE WorkerRequeue(w)
    <3>1. /\ worker'[w].d = d /\ worker'[w].seen = worker[w].seen
          /\ worker'[w].write = worker[w].write /\ worker[w].pc = "requeue"
      BY <1>0, <2>7 DEF WorkerRequeue, WorkerType
    <3>2. QED
      BY <2>2, <3>1 DEF CurrentInv, Current
  <2>8. QED
    BY <1>1, <2>3, <2>4, <2>5, <2>6, <2>7, WorkersRest, WorkerMoves, OneWorkerMoves
       DEF WorkerStep
<1>2. CASE WorkerLoad(w)
  <2>1. CASE Skips(row[d])
    BY <1>0, <1>2, <2>1 DEF WorkerLoad, Idle, Current
  <2>2. CASE ~Skips(row[d])
    <3>1. d \in Delivery
      BY <1>2 DEF WorkerLoad, TypeOK
    <3>2. row[d].status \in {"pending", "dlq"}
      BY <2>2, <3>1 DEF Skips, TypeOK, Row, RowStatus
    <3>3. /\ worker'[w].d = d /\ worker'[w].seen = row[d] /\ worker'[w].pc = "loaded"
          /\ row' = row
      BY <1>0, <1>2, <2>2 DEF WorkerLoad, WorkerType
    <3>4. QED
      BY <3>2, <3>3 DEF Current
  <2>3. QED
    BY <2>1, <2>2
<1>3. CASE (worker[w].pc \in {"idle", "popped"} /\ ~WorkerLoad(w)) \/ WorkerSave(w)
  <2>1. CASE worker'[w] = worker[w] /\ worker[w].pc \in {"idle", "popped"}
    BY <2>1 DEF Current
  <2>2. CASE WorkerSave(w)
    BY <1>0, <2>2 DEF WorkerSave, Idle, Current
  <2>3. CASE WorkerPop(w) \/ WorkerAbort(w)
    <3>1. worker'[w].pc \in {"popped", "idle"}
      <4>1. CASE WorkerPop(w)
        BY <1>0, <4>1 DEF WorkerPop, WorkerType
      <4>2. CASE WorkerAbort(w)
        BY <1>0, <4>2 DEF WorkerAbort, Idle
      <4>3. QED
        BY <2>3, <4>1, <4>2
    <3>2. QED
      BY <3>1 DEF Current
  <2>4. QED
    BY <1>3, <2>1, <2>2, <2>3, WorkersRest, OneWorkerMoves
       DEF WorkerStep, WorkerReadEndpoint, WorkerPost, WorkerRequeue
<1>4. QED
  BY <1>0, <1>1, <1>2, <1>3 DEF WorkerType

\* The worker holds nothing initially.
LEMMA CurrentInit == Init => CurrentInv
BY DEF Init, CurrentInv, Current, Idle

\* With one worker, CurrentInv holds in every reachable state.
LEMMA CurrentInvariant ==
  ASSUME OneWorker
  PROVE  Spec => []CurrentInv
<1>1. Init => CurrentInv
  BY CurrentInit
<1>2. TypeOK /\ KeyInv /\ DeliveryInv /\ CurrentInv /\ [Next]_vars => CurrentInv'
  <2>1. ASSUME TypeOK, KeyInv, DeliveryInv, CurrentInv, Next PROVE CurrentInv'
    BY <2>1, CurrentNext DEF CurrentInv
  <2>2. CurrentInv /\ UNCHANGED vars => CurrentInv'
    BY DEF vars, CurrentInv, Current
  <2>3. QED
    BY <2>1, <2>2
<1>3. QED
  BY <1>1, <1>2, TypeCorrect, KeyInvariant, DeliveryInvariant, PTL DEF Spec

\* A worker that saves adds to the attempts of the row, a retry request leaves them.
LEMMA AttemptsStep ==
  ASSUME TypeOK, KeyInv, DeliveryInv, CurrentInv, [Next]_vars, NEW d \in Delivery
  PROVE  row'[d].attempt >= row[d].attempt
<1>0. row[d].attempt \in Nat /\ row'[d].attempt \in Nat
  BY TypeNext DEF TypeOK, Row
<1>1. CASE UNCHANGED vars
  BY <1>0, <1>1 DEF vars
<1>2. CASE Stays(d)
  BY <1>0, <1>2 DEF Stays
<1>3. ASSUME NEW p \in Publishers, Inserts(p, d) PROVE row'[d].attempt >= row[d].attempt
  BY <1>0, <1>3, InsertsNew
<1>4. ASSUME NEW o \in Operators, Reopens(o, d) PROVE row'[d].attempt >= row[d].attempt
  BY <1>0, <1>4, ReopensRow
<1>5. ASSUME NEW w \in Workers, Records(w, d) PROVE row'[d].attempt >= row[d].attempt
  <2>1. worker[w].write.attempt \in {None, row[d].attempt + 1}
    BY <1>5 DEF Records, WorkerSave, CurrentInv, Current
  <2>2. row'[d].attempt = Kept(row[d].attempt, worker[w].write.attempt)
    BY <1>5 DEF Records, Updated
  <2>3. QED
    BY <1>0, <2>1, <2>2 DEF Kept
<1>6. QED
  BY <1>1, <1>2, <1>3, <1>4, <1>5, RowMoves

\* With one worker the attempt counter of a row never goes back, however many retry
\* requests write the row between its read and its save.
THEOREM AttemptsNeverShrinkHolds ==
  ASSUME OneWorker
  PROVE  Spec => AttemptsNeverShrink
<1>1. TypeOK /\ KeyInv /\ DeliveryInv /\ CurrentInv /\ [Next]_vars
        => \A d \in Delivery : row'[d].attempt >= row[d].attempt
  BY AttemptsStep
<1>2. QED
  BY <1>1, TypeCorrect, KeyInvariant, DeliveryInvariant, CurrentInvariant, PTL
     DEF Spec, AttemptsNeverShrink

-----------------------------------------------------------------------------
(* What a request does, step by step.                                       *)

OpAct(o) == OpStep(o) \/ RetryRollback(o) \/ \E c \in Delivery : RetryLoad(o, c)

\* A step of one retry request leaves the others alone.
LEMMA OneOpMoves ==
  ASSUME TypeOK, NEW o \in Operators, OpAct(o), NEW q \in Operators, q # o
  PROVE  op'[q] = op[q]
BY DEF TypeOK, OpAct, OpStep, RetryFlush, RetryEnqueue, RetryCommit, RetryRollback, RetryLoad

\* What a retry request does, field by field.
LEMMA OpMoves ==
  ASSUME TypeOK, NEW o \in Operators, OpAct(o)
  PROVE  \/ /\ op[o].pc = "ready" /\ op'[o].write = op[o].write
            /\ \E c \in Delivery : /\ RetryLoad(o, c)
                                   /\ op'[o].d = c /\ op'[o].seen = row[c]
                                   /\ op'[o].pc \in {"loaded", "refused"}
         \/ /\ op[o].pc # "ready" /\ op'[o].d = op[o].d /\ op'[o].seen = op[o].seen
            /\ \/ /\ RetryFlush(o) /\ op[o].pc = "loaded" /\ op'[o].pc = "flushed"
                  /\ op'[o].write = RetryWrite(op[o].seen)
               \/ /\ op'[o].write = op[o].write
                  /\ \/ RetryEnqueue(o) /\ op[o].pc = "flushed" /\ op'[o].pc = "pushed"
                     \/ RetryCommit(o) /\ op[o].pc = "pushed" /\ op'[o].pc = "done"
                     \/ /\ RetryRollback(o) /\ op'[o].pc = "failed"
                        /\ op[o].pc \in {"loaded", "flushed", "pushed"}
<1>0. op \in [Operators -> OpType]
  BY DEF TypeOK
<1>1. ASSUME NEW c \in Delivery, RetryLoad(o, c)
      PROVE  /\ op[o].pc = "ready" /\ op'[o].write = op[o].write
             /\ op'[o].d = c /\ op'[o].seen = row[c] /\ op'[o].pc \in {"loaded", "refused"}
  BY <1>0, <1>1 DEF RetryLoad, OpType
<1>2. CASE RetryFlush(o)
  BY <1>0, <1>2 DEF RetryFlush, OpType
<1>3. CASE RetryEnqueue(o)
  BY <1>0, <1>3 DEF RetryEnqueue, OpType
<1>4. CASE RetryCommit(o)
  BY <1>0, <1>4 DEF RetryCommit, OpType
<1>5. CASE RetryRollback(o)
  BY <1>0, <1>5 DEF RetryRollback, OpType
<1>6. QED
  BY <1>1, <1>2, <1>3, <1>4, <1>5 DEF OpAct, OpStep

\* Steps of other processes leave the retry requests alone.
LEMMA OpsRest ==
  ASSUME Next
  PROVE  op' = op \/ \E o \in Operators : OpAct(o)
BY DEF Next, OpAct, CreateEndpoint, DeactivateEndpoint, BackoffElapses, PubStep, PublishLookup,
       PublishInsert, PublishFanOut, PublishEnqueue, PublishCommit, PublishRollback, WorkerStep,
       WorkerPop, WorkerLoad, WorkerReadEndpoint, WorkerPost, WorkerRequeue, WorkerSave,
       WorkerAbort

\* d's publish request has not pushed the ids yet.
NotPushed(d) == pub[EventOf(d)].pc \in {"ready", "looked", "inserted", "fanned"}

\* A publish request that is past its rpush stays past it.
LEMMA PushedForGood ==
  ASSUME TypeOK, Next, NEW d \in Delivery, NotPushed(d)'
  PROVE  NotPushed(d)
<1> DEFINE p == EventOf(d)
<1>0. p \in Publishers /\ pub \in [Publishers -> PubType]
  BY DEF Delivery, EventOf, TypeOK
<1>1. CASE pub'[p] = pub[p]
  BY <1>1 DEF NotPushed
<1>2. ASSUME NEW q \in Publishers, PubStep(q) \/ PublishRollback(q)
      PROVE  pub'[p] = pub[p] \/ NotPushed(d)
  <2>1. CASE q = p
    <3>1. CASE PublishCommit(p)
      <4>1. pub'[p].pc = "done"
        BY <1>0, <3>1 DEF PublishCommit, PubType
      <4>2. QED
        BY <4>1 DEF NotPushed
    <3>2. CASE PublishRollback(p)
      <4>1. pub'[p].pc = "failed"
        BY <1>0, <3>2 DEF PublishRollback, PubType
      <4>2. QED
        BY <4>1 DEF NotPushed
    <3>3. QED
      BY <1>2, <2>1, <3>1, <3>2
         DEF PubStep, PublishLookup, PublishInsert, PublishFanOut, PublishEnqueue, NotPushed
  <2>2. CASE q # p
    BY <1>0, <1>2, <2>2 DEF PubStep, PublishLookup, PublishInsert, PublishFanOut, PublishEnqueue,
                            PublishCommit, PublishRollback
  <2>3. QED
    BY <2>1, <2>2
<1>3. CASE pub' = pub
  BY <1>1, <1>3
<1>4. QED
  BY <1>1, <1>2, <1>3
     DEF Next, CreateEndpoint, DeactivateEndpoint, BackoffElapses, RetryLoad, OpStep,
         RetryFlush, RetryEnqueue, RetryCommit, RetryRollback, WorkerStep, WorkerPop,
         WorkerLoad, WorkerReadEndpoint, WorkerPost, WorkerRequeue, WorkerSave, WorkerAbort

-----------------------------------------------------------------------------
(* Who pushes an id.                                                        *)

\* The retry requests that have begun are finitely many, and the others have chosen
\* no delivery.
Begun == {o \in Operators : op[o].pc # "ready"}
BegunInv == IsFiniteSet(Begun) /\ \A o \in Operators : op[o].pc = "ready" => op[o] = NotBegun

\* The retry requests of d that have pushed its id, or never will.
Pushers(d) == {o \in Operators : op[o].d = d /\ op[o].pc \notin {"loaded", "flushed"}}

\* BegunInv is inductive: a step begins at most one request.
LEMMA BegunNext == TypeOK /\ BegunInv /\ [Next]_vars => BegunInv'
<1> SUFFICES ASSUME TypeOK, BegunInv, [Next]_vars PROVE BegunInv'
  OBVIOUS
<1>1. CASE op' = op
  BY <1>1 DEF BegunInv, Begun
<1>2. ASSUME NEW o \in Operators, OpAct(o) PROVE BegunInv'
  <2>1. op[o].pc # "ready" \/ op'[o].pc # "ready"
    BY <1>2, OpMoves
  <2>2. \A q \in Operators : q # o => op'[q] = op[q]
    BY <1>2, OneOpMoves
  <2>3. op'[o].pc # "ready"
    BY <1>2, OpMoves
  <2>4. Begun' = Begun \cup {o}
    BY <2>2, <2>3 DEF Begun
  <2>5. IsFiniteSet(Begun \cup {o})
    BY FS_AddElement DEF BegunInv
  <2>6. QED
    BY <2>2, <2>3, <2>4, <2>5 DEF BegunInv
<1>3. QED
  BY <1>1, <1>2, OpsRest DEF vars

\* No request has begun initially.
LEMMA BegunInit == Init => BegunInv
<1> SUFFICES ASSUME Init PROVE BegunInv
  OBVIOUS
<1>1. Begun = {}
  BY DEF Init, Begun, NotBegun
<1>2. QED
  BY <1>1, FS_EmptySet DEF BegunInv, Init

\* BegunInv holds in every reachable state.
LEMMA BegunInvariant == Spec => []BegunInv
BY BegunInit, BegunNext, TypeCorrect, PTL DEF Spec

\* The requests of a delivery can be counted.
LEMMA PushersFinite ==
  ASSUME TypeOK, BegunInv, NEW d \in Delivery
  PROVE  /\ IsFiniteSet({o \in Operators : op[o].d = d})
         /\ Pushers(d) \subseteq {o \in Operators : op[o].d = d}
         /\ IsFiniteSet(Pushers(d)) /\ Cardinality(Pushers(d)) \in Nat
         /\ Cardinality(Pushers(d)) <= Cardinality({o \in Operators : op[o].d = d})
         /\ Cardinality({o \in Operators : op[o].d = d}) \in Nat
<1>1. d # None
  BY NoneIsFresh DEF Delivery
<1>2. {o \in Operators : op[o].d = d} \subseteq Begun
  BY <1>1 DEF BegunInv, Begun, NotBegun
<1>3. IsFiniteSet({o \in Operators : op[o].d = d})
  BY <1>2, FS_Subset DEF BegunInv
<1>4. Pushers(d) \subseteq {o \in Operators : op[o].d = d}
  BY DEF Pushers
<1>5. QED
  BY <1>3, <1>4, FS_Subset, FS_CardinalityType

\* A request that has pushed its id stays one that has.
LEMMA PushersKept ==
  ASSUME TypeOK, BegunInv, Next, NEW d \in Delivery
  PROVE  Pushers(d) \subseteq Pushers(d)'
<1> SUFFICES ASSUME NEW o \in Pushers(d) PROVE o \in Pushers(d)'
  OBVIOUS
<1>1. o \in Operators /\ op[o].d = d /\ op[o].pc \notin {"loaded", "flushed"}
  BY DEF Pushers
<1>2. op[o].pc # "ready"
  BY <1>1, NoneIsFresh DEF BegunInv, NotBegun, Delivery
<1>3. CASE op'[o] = op[o]
  BY <1>1, <1>3 DEF Pushers
<1>4. CASE OpAct(o)
  <2>1. op'[o].d = d /\ op'[o].pc \notin {"loaded", "flushed"}
    BY <1>1, <1>2, <1>4, OpMoves
  <2>2. QED
    BY <1>1, <2>1 DEF Pushers
<1>5. QED
  BY <1>1, <1>3, <1>4, OpsRest, OneOpMoves

\* They only become more, and each rpush of a retry request makes them one more.
LEMMA PushersGrow ==
  ASSUME TypeOK, TypeOK', BegunInv, BegunInv', Next, NEW d \in Delivery
  PROVE  /\ Cardinality(Pushers(d)') \in Nat
         /\ Cardinality(Pushers(d)') >= Cardinality(Pushers(d))
         /\ \A o \in Operators : RetryEnqueue(o) /\ op[o].d = d =>
              Cardinality(Pushers(d)') >= Cardinality(Pushers(d)) + 1
<1>1. Pushers(d) \subseteq Pushers(d)'
  BY PushersKept
<1>2. IsFiniteSet(Pushers(d)) /\ Cardinality(Pushers(d)) \in Nat
  BY PushersFinite
<1>3. IsFiniteSet(Pushers(d)')
  <2>1. d # None
    BY NoneIsFresh DEF Delivery
  <2>2. Pushers(d)' \subseteq Begun'
    BY <2>1 DEF BegunInv, Begun, Pushers, NotBegun
  <2>3. QED
    BY <2>2, FS_Subset DEF BegunInv
<1>4. Cardinality(Pushers(d)') \in Nat
  BY <1>3, FS_CardinalityType
<1>5. Cardinality(Pushers(d)) <= Cardinality(Pushers(d)')
  BY <1>1, <1>3, FS_Subset
<1>6. ASSUME NEW o \in Operators, RetryEnqueue(o), op[o].d = d
      PROVE  Cardinality(Pushers(d)') >= Cardinality(Pushers(d)) + 1
  <2>1. op[o].pc = "flushed" /\ op'[o].pc = "pushed" /\ op'[o].d = d
    BY <1>6 DEF RetryEnqueue, TypeOK, OpType
  <2>2. o \notin Pushers(d) /\ o \in Pushers(d)'
    BY <1>6, <2>1 DEF Pushers
  <2>3. Pushers(d) \cup {o} \subseteq Pushers(d)'
    BY <1>1, <2>2
  <2>4. Cardinality(Pushers(d) \cup {o}) = Cardinality(Pushers(d)) + 1
    BY <1>2, <2>2, FS_AddElement
  <2>5. Cardinality(Pushers(d) \cup {o}) <= Cardinality(Pushers(d)')
    BY <1>3, <2>3, FS_Subset
  <2>6. QED
    BY <1>2, <1>4, <2>4, <2>5
<1>7. QED
  BY <1>2, <1>4, <1>5, <1>6

-----------------------------------------------------------------------------
(* The POSTs of a delivery, and the ones its entries can still cause.       *)

\* The worker holds d's id, which it has taken and not pushed again.
DrawnBy(w, d) == worker[w].d = d /\ worker[w].pc \in {"popped", "loaded", "posting", "requeue"}

\* The worker has counted an attempt that the row does not show yet.
MadeBy(w, d) ==
  worker[w].d = d /\ worker[w].pc \in {"requeue", "saving"} /\ worker[w].write.attempt # None

Drawn(d) == One(\E w \in Workers : DrawnBy(w, d))
Attempts(d) == row[d].attempt + One(\E w \in Workers : MadeBy(w, d))

\* The POSTs after which a failure queues d again.
Left(attempts, limit) == IF attempts < limit THEN (limit - 1) - attempts ELSE 0

\* Each of d's ids causes one POST, and a POST below the limit one more id; the ids are
\* pushed by the fan-out and the retry requests, and a fault may make an attempt that no
\* row counts.
Spent(d) ==
  posts[d] + Left(Attempts(d), MaxAttempts[EndpointOf(d)]) + Entries(d) + Drawn(d)
Allowed(d) ==
  (MaxAttempts[EndpointOf(d)] - 1) + One(~NotPushed(d)) + Cardinality(Pushers(d)) + faults
PostsInv == \A d \in Delivery : Spent(d) <= Allowed(d)

\* One more attempt leaves one POST less, and no more than that.
LEMMA LeftShrinks ==
  ASSUME NEW a \in Nat, NEW b \in Nat, NEW m \in Nat \ {0}
  PROVE  /\ Left(a, m) \in Nat
         /\ b >= a => Left(b, m) <= Left(a, m)
         /\ b + 1 >= a => Left(b, m) <= Left(a, m) + 1
         /\ b = a + 1 /\ b < m => Left(b, m) + 1 = Left(a, m)
BY DEF Left

\* The queue changes by four actions.
LEMMA QueueRests ==
  ASSUME Next
  PROVE  \/ queue' = queue
         \/ \E p \in Publishers : PublishEnqueue(p)
         \/ \E o \in Operators : RetryEnqueue(o)
         \/ \E w \in Workers : WorkerPop(w) \/ WorkerRequeue(w)
BY DEF Next, CreateEndpoint, DeactivateEndpoint, BackoffElapses, PubStep, PublishLookup,
       PublishInsert, PublishFanOut, PublishCommit, PublishRollback, RetryLoad, OpStep,
       RetryFlush, RetryCommit, RetryRollback, WorkerStep, WorkerLoad, WorkerReadEndpoint,
       WorkerPost, WorkerSave, WorkerAbort

\* POSTs are sent by workers only, and no step takes back a fault.
LEMMA PostsRest ==
  ASSUME TypeOK, Next
  PROVE  /\ posts' = posts \/ \E w \in Workers : WorkerPost(w)
         /\ faults' >= faults
<1>1. posts' = posts \/ \E w \in Workers : WorkerPost(w)
  BY DEF Next, CreateEndpoint, DeactivateEndpoint, BackoffElapses, PubStep, PublishLookup,
         PublishInsert, PublishFanOut, PublishEnqueue, PublishCommit, PublishRollback, RetryLoad,
         OpStep, RetryFlush, RetryEnqueue, RetryCommit, RetryRollback, WorkerStep, WorkerPop,
         WorkerLoad, WorkerReadEndpoint, WorkerRequeue, WorkerSave, WorkerAbort
<1>2. faults' = faults \/ faults' = faults + 1
  BY DEF Next, CreateEndpoint, DeactivateEndpoint, BackoffElapses, PubStep, PublishLookup,
         PublishInsert, PublishFanOut, PublishEnqueue, PublishCommit, PublishRollback, RetryLoad,
         OpStep, RetryFlush, RetryEnqueue, RetryCommit, RetryRollback, WorkerStep, WorkerPop,
         WorkerLoad, WorkerReadEndpoint, WorkerPost, WorkerRequeue, WorkerSave, WorkerAbort,
         Fault, NoFault
<1>3. faults \in Nat
  BY MaxFaultsType DEF TypeOK
<1>4. QED
  BY <1>1, <1>2, <1>3

\* A retry request adds an entry of its delivery when it pushes, or a fault.
LEMMA RetryPushes ==
  ASSUME TypeOK, NEW o \in Operators, RetryEnqueue(o), NEW d \in Delivery
  PROVE  Entries(d)' = Entries(d) \/ Entries(d)' = Entries(d) + One(op[o].d = d)
<1>1. queue \in Seq(Delivery) /\ op[o].d \in Delivery
  BY DEF TypeOK, RetryEnqueue
<1>2. CASE queue' = queue
  BY <1>2 DEF Entries
<1>3. CASE queue' = Append(queue, op[o].d)
  BY <1>1, <1>3, PushCounts DEF Entries
<1>4. QED
  BY <1>2, <1>3 DEF RetryEnqueue

\* So does a worker that queues its delivery again.
LEMMA WorkerPushes ==
  ASSUME TypeOK, NEW w \in Workers, WorkerRequeue(w), NEW d \in Delivery
  PROVE  Entries(d)' = Entries(d) \/ Entries(d)' = Entries(d) + One(worker[w].d = d)
<1>1. queue \in Seq(Delivery) /\ worker[w].d \in Delivery
  BY DEF TypeOK, WorkerRequeue
<1>2. CASE queue' = queue
  BY <1>2 DEF Entries
<1>3. CASE queue' = Append(queue, worker[w].d)
  BY <1>1, <1>3, PushCounts DEF Entries
<1>4. QED
  BY <1>2, <1>3 DEF WorkerRequeue, Requeued

\* A fan-out adds an entry of each of its deliveries, or of none.
LEMMA PublishPushes ==
  ASSUME TypeOK, NEW p \in Publishers, PublishEnqueue(p), NEW d \in Delivery
  PROVE  Entries(d)' = Entries(d) \/ Entries(d)' = Entries(d) + One(d \in DeliveriesOf(p))
<1>1. queue \in Seq(Delivery)
  BY DEF TypeOK
<1>2. CASE queue' = queue
  BY <1>2 DEF Entries
<1>3. CASE \E s \in Listings(DeliveriesOf(p)) : queue' = queue \o s
  <2>1. DeliveriesOf(p) \in SUBSET Delivery /\ IsFiniteSet(DeliveriesOf(p))
    <3>1. pub[p].ids \subseteq Endpoints
      BY DEF TypeOK, PubType
    <3>2. IsFiniteSet(pub[p].ids)
      BY <3>1, FiniteEndpoints, FS_Subset
    <3>3. QED
      BY <3>1, <3>2, FS_Singleton, FS_Product DEF DeliveriesOf, Delivery
  <2>2. QED
    BY <1>1, <1>3, <2>1, ListCounts DEF Entries
<1>4. QED
  BY <1>2, <1>3 DEF PublishEnqueue

\* blpop takes one entry of the delivery it returns.
LEMMA WorkerPops ==
  ASSUME TypeOK, NEW w \in Workers, WorkerPop(w), NEW d \in Delivery
  PROVE  Entries(d) = Entries(d)' + One(Head(queue) = d)
BY PopCounts DEF TypeOK, WorkerPop, Entries

\* Without a save, the attempts a row shows stay.
LEMMA RowAttemptsRest ==
  ASSUME TypeOK, KeyInv, DeliveryInv, Next, NEW d \in Delivery, \A w \in Workers : ~WorkerSave(w)
  PROVE  row'[d].attempt = row[d].attempt
<1>1. CASE Stays(d)
  BY <1>1 DEF Stays
<1>2. ASSUME NEW p \in Publishers, Inserts(p, d) PROVE row'[d].attempt = row[d].attempt
  BY <1>2, InsertsNew DEF Inserts, NewRow
<1>3. ASSUME NEW o \in Operators, Reopens(o, d) PROVE row'[d].attempt = row[d].attempt
  BY <1>3, ReopensRow
<1>4. QED
  BY <1>1, <1>2, <1>3, RowMoves DEF Records

\* Everything PostsInv adds up is a number.
LEMMA CountsType ==
  ASSUME TypeOK, BegunInv, NEW d \in Delivery
  PROVE  /\ MaxAttempts[EndpointOf(d)] \in Nat \ {0}
         /\ posts[d] \in Nat /\ faults \in Nat /\ row[d].attempt \in Nat
         /\ Entries(d) \in Nat /\ Drawn(d) \in Nat /\ Attempts(d) \in Nat
         /\ Cardinality(Pushers(d)) \in Nat
<1>1. MaxAttempts[EndpointOf(d)] \in Nat \ {0}
  BY MaxAttemptsType DEF Delivery, EndpointOf
<1>2. posts[d] \in Nat /\ faults \in Nat /\ row[d].attempt \in Nat
  BY MaxFaultsType DEF TypeOK, Row
<1>3. Entries(d) \in Nat
  BY PositionsFinite DEF TypeOK, Entries
<1>4. Drawn(d) \in Nat /\ Attempts(d) \in Nat
  BY <1>2 DEF Drawn, Attempts, One
<1>5. QED
  BY <1>1, <1>2, <1>3, <1>4, PushersFinite

\* And stays one.
LEMMA CountsTypeNext ==
  ASSUME TypeOK', NEW d \in Delivery
  PROVE  /\ posts'[d] \in Nat /\ faults' \in Nat /\ row'[d].attempt \in Nat
         /\ Entries(d)' \in Nat /\ Drawn(d)' \in Nat /\ Attempts(d)' \in Nat
<1>1. posts'[d] \in Nat /\ faults' \in Nat /\ row'[d].attempt \in Nat
  BY MaxFaultsType DEF TypeOK, Row
<1>2. Entries(d)' \in Nat
  BY PositionsFinite DEF TypeOK, Entries
<1>3. Drawn(d)' \in Nat /\ Attempts(d)' \in Nat
  BY <1>1 DEF Drawn, Attempts, One
<1>4. QED
  BY <1>1, <1>2, <1>3

\* The POSTs allowed never become fewer; an rpush of d's id by a request, and a fault,
\* allow one more.
LEMMA AllowedGrows ==
  ASSUME TypeOK, TypeOK', BegunInv, BegunInv', Next, NEW d \in Delivery
  PROVE  /\ Allowed(d) \in Nat /\ Allowed(d)' \in Nat
         /\ Allowed(d)' >= Allowed(d)
         /\ \/ \E p \in Publishers : PublishEnqueue(p) /\ d \in DeliveriesOf(p)
            \/ \E o \in Operators : RetryEnqueue(o) /\ op[o].d = d
            \/ \E w \in Workers : WorkerAbort(w)
            => Allowed(d)' >= Allowed(d) + 1
<1> DEFINE m == MaxAttempts[EndpointOf(d)] - 1
           b == One(~NotPushed(d))
           bn == One(~NotPushed(d)')
           c == Cardinality(Pushers(d))
           cn == Cardinality(Pushers(d)')
<1>1. m \in Nat /\ c \in Nat /\ cn \in Nat /\ faults \in Nat /\ faults' \in Nat
  BY CountsType, CountsTypeNext, PushersGrow
<1>2. b \in Nat /\ bn \in Nat /\ bn >= b
  <2>1. NotPushed(d)' => NotPushed(d)
    BY PushedForGood
  <2>2. QED
    BY <2>1 DEF One
<1>3. cn >= c /\ faults' >= faults
  BY PushersGrow, PostsRest
<1>4. Allowed(d) = m + b + c + faults /\ Allowed(d)' = m + bn + cn + faults'
  BY DEF Allowed
<1>5. ASSUME NEW p \in Publishers, PublishEnqueue(p), d \in DeliveriesOf(p) PROVE bn >= b + 1
  <2>1. EventOf(d) = p
    BY <1>5 DEF DeliveriesOf, EventOf
  <2>2. pub[p].pc = "fanned" /\ pub'[p].pc = "pushed"
    BY <1>5 DEF PublishEnqueue, TypeOK, PubType
  <2>3. NotPushed(d) /\ ~NotPushed(d)'
    BY <2>1, <2>2 DEF NotPushed
  <2>4. QED
    BY <2>3 DEF One
<1>6. ASSUME NEW o \in Operators, RetryEnqueue(o), op[o].d = d PROVE cn >= c + 1
  BY <1>6, PushersGrow
<1>7. ASSUME NEW w \in Workers, WorkerAbort(w) PROVE faults' >= faults + 1
  BY <1>1, <1>7 DEF WorkerAbort, Fault
<1> HIDE DEF m, b, bn, c, cn
<1>8. ASSUME NEW i \in Nat, NEW x \in Nat, NEW y \in Nat, NEW z \in Nat,
             NEW u \in Nat, NEW v \in Nat, NEW w \in Nat, u >= x, v >= y, w >= z
      PROVE  /\ i + x + y + z \in Nat /\ i + u + v + w \in Nat
             /\ i + u + v + w >= i + x + y + z
             /\ u >= x + 1 \/ v >= y + 1 \/ w >= z + 1 => i + u + v + w >= i + x + y + z + 1
  BY <1>8
<1>9. /\ Allowed(d) \in Nat /\ Allowed(d)' \in Nat /\ Allowed(d)' >= Allowed(d)
      /\ bn >= b + 1 \/ cn >= c + 1 \/ faults' >= faults + 1 => Allowed(d)' >= Allowed(d) + 1
  <2>1. /\ m + b + c + faults \in Nat /\ m + bn + cn + faults' \in Nat
        /\ m + bn + cn + faults' >= m + b + c + faults
        /\ bn >= b + 1 \/ cn >= c + 1 \/ faults' >= faults + 1
             => m + bn + cn + faults' >= m + b + c + faults + 1
    BY <1>1, <1>2, <1>3, <1>8
  <2>2. QED
    BY <1>4, <2>1
<1>10. QED
  BY <1>5, <1>6, <1>7, <1>9

\* With one worker, its state is all there is to count.
LEMMA TheWorker ==
  ASSUME OneWorker, NEW w \in Workers, NEW d \in Delivery
  PROVE  /\ Drawn(d) = One(DrawnBy(w, d))
         /\ Attempts(d) = row[d].attempt + One(MadeBy(w, d))
         /\ Drawn(d)' = One(DrawnBy(w, d)')
         /\ Attempts(d)' = row'[d].attempt + One(MadeBy(w, d)')
<1>1. \A v \in Workers : v = w
  BY DEF OneWorker
<1>2. (\E v \in Workers : DrawnBy(v, d)) <=> DrawnBy(w, d)
  BY <1>1
<1>3. (\E v \in Workers : MadeBy(v, d)) <=> MadeBy(w, d)
  BY <1>1
<1>4. (\E v \in Workers : DrawnBy(v, d)') <=> DrawnBy(w, d)'
  BY <1>1
<1>5. (\E v \in Workers : MadeBy(v, d)') <=> MadeBy(w, d)'
  BY <1>1
<1>6. QED
  BY <1>2, <1>3, <1>4, <1>5 DEF Drawn, Attempts, One

\* What a step of another process adds to POSTs, attempts and entries.
LEMMA RequestCounts ==
  ASSUME TypeOK, TypeOK', KeyInv, DeliveryInv, BegunInv, Next, NEW d \in Delivery,
         \A w \in Workers : ~WorkerStep(w) /\ ~WorkerAbort(w)
  PROVE  /\ posts'[d] = posts[d] /\ Attempts(d)' = Attempts(d) /\ Drawn(d)' = Drawn(d)
         /\ \/ Entries(d)' = Entries(d)
            \/ /\ Entries(d)' = Entries(d) + 1
               /\ \/ \E p \in Publishers : PublishEnqueue(p) /\ d \in DeliveriesOf(p)
                  \/ \E o \in Operators : RetryEnqueue(o) /\ op[o].d = d
<1>1. worker' = worker
  BY WorkersRest
<1>2. posts' = posts
  BY PostsRest DEF WorkerStep
<1>3. row'[d].attempt = row[d].attempt
  BY RowAttemptsRest DEF WorkerStep
<1>4. Attempts(d)' = Attempts(d) /\ Drawn(d)' = Drawn(d)
  BY <1>1, <1>3 DEF Attempts, Drawn, MadeBy, DrawnBy
<1>5. Entries(d) \in Nat
  BY CountsType
<1>6. CASE queue' = queue
  BY <1>2, <1>4, <1>6 DEF Entries
<1>7. ASSUME NEW p \in Publishers, PublishEnqueue(p)
      PROVE  Entries(d)' = Entries(d) \/ (Entries(d)' = Entries(d) + 1 /\ d \in DeliveriesOf(p))
  BY <1>5, <1>7, PublishPushes DEF One
<1>8. ASSUME NEW o \in Operators, RetryEnqueue(o)
      PROVE  Entries(d)' = Entries(d) \/ (Entries(d)' = Entries(d) + 1 /\ op[o].d = d)
  BY <1>5, <1>8, RetryPushes DEF One
<1>9. QED
  BY <1>2, <1>4, <1>6, <1>7, <1>8, QueueRests DEF WorkerStep

\* The attempt a POST makes is one the row does not show.
LEMMA PostMakes ==
  ASSUME TypeOK, CurrentInv, NEW w \in Workers, WorkerPost(w)
  PROVE  /\ worker[w].d \in Delivery /\ worker'[w].d = worker[w].d
         /\ worker'[w].write.attempt # None
         /\ \/ worker'[w].pc = "saving"
            \/ /\ worker'[w].pc = "requeue"
               /\ row[worker[w].d].attempt + 1 < MaxAttempts[EndpointOf(worker[w].d)]
<1> DEFINE a == worker[w].seen.attempt + 1
<1>0. worker \in [Workers -> WorkerType] /\ worker[w].seen.attempt \in Nat /\ worker[w].d \in Delivery
  BY DEF TypeOK, WorkerType, WorkerPost, Row
<1>1. a # worker[w].seen.attempt /\ a \in Nat /\ a # None
  BY <1>0, NoneIsFresh
<1>2. \/ Assign(w, "saving", Dirty(worker[w].seen, "success", a, "none"))
      \/ Assign(w, "saving", Dirty(worker[w].seen, "dlq", a, "none"))
      \/ /\ Assign(w, "requeue", Dirty(worker[w].seen, "pending", a, "waiting"))
         /\ ~LastAttempt(worker[w].d, a)
  BY DEF WorkerPost, AfterFailure
<1>3. a = row[worker[w].d].attempt + 1
  BY DEF CurrentInv, Current, WorkerPost
<1>4. MaxAttempts[EndpointOf(worker[w].d)] \in Nat
  BY <1>0, MaxAttemptsType DEF Delivery, EndpointOf
<1>5. ~LastAttempt(worker[w].d, a) => a < MaxAttempts[EndpointOf(worker[w].d)]
  BY <1>1, <1>4 DEF LastAttempt
<1>6. \A s, n : Dirty(worker[w].seen, s, a, n).attempt = a
  BY <1>1 DEF Dirty, Changed
<1> HIDE DEF a
<1>7. ASSUME NEW pc, NEW write, Assign(w, pc, write)
      PROVE  worker'[w].d = worker[w].d /\ worker'[w].pc = pc /\ worker'[w].write = write
  BY <1>0, <1>7 DEF Assign, WorkerType
<1>8. CASE Assign(w, "saving", Dirty(worker[w].seen, "success", a, "none"))
  BY <1>0, <1>1, <1>6, <1>7, <1>8
<1>9. CASE Assign(w, "saving", Dirty(worker[w].seen, "dlq", a, "none"))
  BY <1>0, <1>1, <1>6, <1>7, <1>9
<1>10. CASE /\ Assign(w, "requeue", Dirty(worker[w].seen, "pending", a, "waiting"))
            /\ ~LastAttempt(worker[w].d, a)
  BY <1>0, <1>1, <1>3, <1>5, <1>6, <1>7, <1>10
<1>11. QED
  BY <1>2, <1>8, <1>9, <1>10

\* What a step of the worker adds to POSTs, attempts, entries and the id it holds.
LEMMA WorkerCounts ==
  ASSUME TypeOK, TypeOK', BegunInv, OneWorker, CurrentInv, NEW w \in Workers,
         WorkerStep(w) \/ WorkerAbort(w), NEW d \in Delivery
  PROVE  \/ /\ posts'[d] = posts[d] /\ Attempts(d)' = Attempts(d)
            /\ Entries(d)' + Drawn(d)' <= Entries(d) + Drawn(d)
         \/ /\ posts'[d] = posts[d] + 1 /\ Attempts(d)' = Attempts(d) + 1
            /\ Entries(d)' = Entries(d) /\ Drawn(d) = 1
            /\ Drawn(d)' = 0 \/ Attempts(d)' < MaxAttempts[EndpointOf(d)]
         \/ /\ WorkerAbort(w) /\ posts'[d] = posts[d] /\ Attempts(d)' + 1 >= Attempts(d)
            /\ Entries(d)' = Entries(d) /\ Drawn(d)' <= Drawn(d)
<1> DEFINE D == One(DrawnBy(w, d))
           Dn == One(DrawnBy(w, d)')
           M == One(MadeBy(w, d))
           Mn == One(MadeBy(w, d)')
<1>0. /\ Drawn(d) = D /\ Drawn(d)' = Dn
      /\ Attempts(d) = row[d].attempt + M /\ Attempts(d)' = row'[d].attempt + Mn
  BY TheWorker
<1>1. /\ posts \in [Delivery -> Nat] /\ row \in [Delivery -> Row]
      /\ worker \in [Workers -> WorkerType]
      /\ row[d].attempt \in Nat /\ row'[d].attempt \in Nat
      /\ Entries(d) \in Nat /\ Entries(d)' \in Nat
  BY CountsType, CountsTypeNext DEF TypeOK
<1>2. D \in {0, 1} /\ Dn \in {0, 1} /\ M \in {0, 1} /\ Mn \in {0, 1}
  BY DEF One
<1>3. CASE WorkerPop(w)
  <2>1. posts' = posts /\ row' = row /\ worker[w].pc = "idle"
    BY <1>3 DEF WorkerPop
  <2>2. worker'[w].pc = "popped" /\ worker'[w].d = Head(queue)
    BY <1>1, <1>3 DEF WorkerPop, WorkerType
  <2>3. D = 0 /\ M = 0 /\ Mn = 0 /\ Dn = One(Head(queue) = d)
    BY <2>1, <2>2 DEF One, DrawnBy, MadeBy
  <2>4. Entries(d) = Entries(d)' + One(Head(queue) = d)
    BY <1>3, WorkerPops
  <2> HIDE DEF D, Dn, M, Mn
  <2>5. Entries(d)' + Dn <= Entries(d) + D
    BY <1>1, <1>2, <2>3, <2>4
  <2>6. QED
    BY <1>0, <2>1, <2>3, <2>5
<1>4. CASE WorkerLoad(w)
  <2>1. posts' = posts /\ row' = row /\ queue' = queue /\ worker[w].pc = "popped"
    BY <1>4 DEF WorkerLoad
  <2>2. worker'[w].pc = "idle" \/ (worker'[w].pc = "loaded" /\ worker'[w].d = worker[w].d)
    BY <1>1, <1>4 DEF WorkerLoad, WorkerType, Idle
  <2>3. M = 0 /\ Mn = 0 /\ (Dn = 0 \/ D = 1)
    BY <2>1, <2>2 DEF One, DrawnBy, MadeBy
  <2>4. Entries(d)' = Entries(d)
    BY <2>1 DEF Entries
  <2> HIDE DEF D, Dn, M, Mn
  <2>5. Entries(d)' + Dn <= Entries(d) + D
    BY <1>1, <1>2, <2>3, <2>4
  <2>6. QED
    BY <1>0, <2>1, <2>3, <2>5
<1>5. CASE WorkerReadEndpoint(w)
  <2>1. posts' = posts /\ row' = row /\ queue' = queue /\ worker[w].pc = "loaded"
    BY <1>5 DEF WorkerReadEndpoint
  <2>2. /\ worker'[w].d = worker[w].d
        /\ \/ worker'[w].pc = "posting"
           \/ worker'[w].pc = "saving" /\ worker'[w].write.attempt = None
    <3>1. DeadLetter(worker[w].seen).attempt = None
      BY DEF DeadLetter, NoWrite
    <3> DEFINE write == DeadLetter(worker[w].seen)
    <3> HIDE DEF write
    <3>2. CASE worker' = [worker EXCEPT ![w].pc = "posting"]
      BY <1>1, <3>2 DEF WorkerType
    <3>3. CASE Assign(w, "saving", write)
      BY <1>1, <3>1, <3>3 DEF Assign, WorkerType, write
    <3>4. QED
      BY <1>5, <3>2, <3>3 DEF WorkerReadEndpoint, write
  <2>3. M = 0 /\ Mn = 0 /\ (Dn = 0 \/ D = 1)
    BY <2>1, <2>2 DEF One, DrawnBy, MadeBy
  <2>4. Entries(d)' = Entries(d)
    BY <2>1 DEF Entries
  <2> HIDE DEF D, Dn, M, Mn
  <2>5. Entries(d)' + Dn <= Entries(d) + D
    BY <1>1, <1>2, <2>3, <2>4
  <2>6. QED
    BY <1>0, <2>1, <2>3, <2>5
<1>6. CASE WorkerPost(w)
  <2>1. row' = row /\ queue' = queue /\ worker[w].pc = "posting"
        /\ posts' = [posts EXCEPT ![worker[w].d] = @ + 1]
    BY <1>6 DEF WorkerPost
  <2>2. /\ worker[w].d \in Delivery /\ worker'[w].d = worker[w].d
        /\ worker'[w].write.attempt # None
        /\ \/ worker'[w].pc = "saving"
           \/ /\ worker'[w].pc = "requeue"
              /\ row[worker[w].d].attempt + 1 < MaxAttempts[EndpointOf(worker[w].d)]
    BY <1>6, PostMakes
  <2>3. Entries(d)' = Entries(d)
    BY <2>1 DEF Entries
  <2>4. CASE worker[w].d = d
    <3>1. posts'[d] = posts[d] + 1
      BY <1>1, <2>1, <2>4
    <3>2. /\ D = 1 /\ M = 0 /\ Mn = 1
          /\ Dn = 0 \/ row[d].attempt + 1 < MaxAttempts[EndpointOf(d)]
      BY <2>1, <2>2, <2>4 DEF One, DrawnBy, MadeBy
    <3> HIDE DEF D, Dn, M, Mn
    <3>3. Attempts(d)' = row[d].attempt + 1 /\ Attempts(d) = row[d].attempt
      BY <1>0, <1>1, <2>1, <3>2
    <3>4. QED
      BY <1>0, <2>3, <3>1, <3>2, <3>3
  <2>5. CASE worker[w].d # d
    <3>1. posts'[d] = posts[d]
      BY <1>1, <2>1, <2>5
    <3>2. D = 0 /\ M = 0 /\ Mn = 0 /\ Dn = 0
      BY <2>2, <2>5 DEF One, DrawnBy, MadeBy
    <3> HIDE DEF D, Dn, M, Mn
    <3>3. Entries(d)' + Dn <= Entries(d) + D
      BY <1>1, <2>3, <3>2
    <3>4. QED
      BY <1>0, <2>1, <3>1, <3>2, <3>3
  <2>6. QED
    BY <2>4, <2>5
<1>7. CASE WorkerRequeue(w)
  <2>1. posts' = posts /\ row' = row /\ worker[w].pc = "requeue"
    BY <1>7 DEF WorkerRequeue
  <2>2. /\ worker'[w].pc = "saving" /\ worker'[w].d = worker[w].d
        /\ worker'[w].write = worker[w].write
    BY <1>1, <1>7 DEF WorkerRequeue, WorkerType
  <2>3. M = Mn /\ Dn = 0 /\ D = One(worker[w].d = d)
    BY <2>1, <2>2 DEF One, DrawnBy, MadeBy
  <2>4. Entries(d)' = Entries(d) \/ Entries(d)' = Entries(d) + One(worker[w].d = d)
    BY <1>7, WorkerPushes
  <2> HIDE DEF D, Dn, M, Mn
  <2>5. Entries(d)' + Dn <= Entries(d) + D
    BY <1>1, <1>2, <2>3, <2>4
  <2>6. QED
    BY <1>0, <2>1, <2>3, <2>5
<1>8. CASE WorkerSave(w)
  <2>1. posts' = posts /\ queue' = queue /\ worker[w].pc = "saving"
        /\ row' = [row EXCEPT ![worker[w].d] = Updated(@, worker[w].write)]
    BY <1>8 DEF WorkerSave
  <2>2. worker'[w].pc = "idle"
    BY <1>1, <1>8 DEF WorkerSave, Idle
  <2>3. D = 0 /\ Dn = 0 /\ Mn = 0
    BY <2>1, <2>2 DEF One, DrawnBy, MadeBy
  <2>4. Entries(d)' = Entries(d)
    BY <2>1 DEF Entries
  <2>5. row'[d].attempt = row[d].attempt + M
    <3>1. CASE worker[w].d = d
      <4>1. row'[d].attempt = Kept(row[d].attempt, worker[w].write.attempt)
        BY <1>1, <2>1, <3>1 DEF Updated
      <4>2. worker[w].write.attempt \in {None, row[d].attempt + 1}
        BY <2>1, <3>1 DEF CurrentInv, Current
      <4>3. M = One(worker[w].write.attempt # None)
        BY <2>1, <3>1 DEF MadeBy, One
      <4>4. row[d].attempt + 1 # None
        BY <1>1, NoneIsFresh
      <4> HIDE DEF M
      <4>5. QED
        BY <1>1, <4>1, <4>2, <4>3, <4>4 DEF Kept, One
    <3>2. CASE worker[w].d # d
      <4>1. row'[d] = row[d] /\ M = 0
        BY <1>1, <2>1, <3>2 DEF MadeBy, One
      <4> HIDE DEF M
      <4>2. QED
        BY <1>1, <4>1
    <3>3. QED
      BY <3>1, <3>2
  <2> HIDE DEF D, Dn, M, Mn
  <2>6. Attempts(d)' = Attempts(d)
    BY <1>0, <1>1, <1>2, <2>3, <2>5
  <2>7. Entries(d)' + Dn <= Entries(d) + D
    BY <1>1, <2>3, <2>4
  <2>8. QED
    BY <1>0, <2>1, <2>6, <2>7
<1>9. CASE WorkerAbort(w)
  <2>1. posts' = posts /\ queue' = queue /\ row' = row
    BY <1>9 DEF WorkerAbort
  <2>2. worker'[w].pc = "idle"
    BY <1>1, <1>9 DEF WorkerAbort, Idle
  <2>3. Dn = 0 /\ Mn = 0
    BY <2>2 DEF One, DrawnBy, MadeBy
  <2>4. Entries(d)' = Entries(d)
    BY <2>1 DEF Entries
  <2> HIDE DEF D, Dn, M, Mn
  <2>5. Attempts(d)' + 1 >= Attempts(d) /\ Drawn(d)' <= Drawn(d)
    BY <1>0, <1>1, <1>2, <2>1, <2>3
  <2>6. QED
    BY <1>9, <2>1, <2>4, <2>5
<1>10. QED
  BY <1>3, <1>4, <1>5, <1>6, <1>7, <1>8, <1>9 DEF WorkerStep

\* A POST uses up an entry of its delivery, and either an attempt that would have
\* queued it again or the delivery itself.
LEMMA SpentStep ==
  ASSUME TypeOK, TypeOK', KeyInv, DeliveryInv, BegunInv, OneWorker, CurrentInv, Next,
         NEW d \in Delivery
  PROVE  /\ Spent(d) \in Nat /\ Spent(d)' \in Nat
         /\ \/ Spent(d)' <= Spent(d)
            \/ /\ Spent(d)' <= Spent(d) + 1
               /\ \/ \E p \in Publishers : PublishEnqueue(p) /\ d \in DeliveriesOf(p)
                  \/ \E o \in Operators : RetryEnqueue(o) /\ op[o].d = d
                  \/ \E w \in Workers : WorkerAbort(w)
<1> DEFINE m == MaxAttempts[EndpointOf(d)]
           p == posts[d]
           pn == posts'[d]
           a == Attempts(d)
           an == Attempts(d)'
           e == Entries(d)
           en == Entries(d)'
           r == Drawn(d)
           rn == Drawn(d)'
<1>1. /\ m \in Nat \ {0} /\ p \in Nat /\ pn \in Nat /\ a \in Nat /\ an \in Nat
      /\ e \in Nat /\ en \in Nat /\ r \in Nat /\ rn \in Nat
  BY CountsType, CountsTypeNext
<1>2. Spent(d) = p + Left(a, m) + e + r /\ Spent(d)' = pn + Left(an, m) + en + rn
  BY DEF Spent
<1>3. CASE \A w \in Workers : ~WorkerStep(w) /\ ~WorkerAbort(w)
  <2>1. /\ pn = p /\ an = a /\ rn = r
        /\ \/ en = e
           \/ /\ en = e + 1
              /\ \/ \E q \in Publishers : PublishEnqueue(q) /\ d \in DeliveriesOf(q)
                 \/ \E o \in Operators : RetryEnqueue(o) /\ op[o].d = d
    BY <1>3, RequestCounts
  <2> HIDE DEF m, p, pn, a, an, e, en, r, rn
  <2>2. Left(a, m) \in Nat
    BY <1>1, LeftShrinks
  <2>3. Spent(d) \in Nat /\ (Spent(d)' = Spent(d) \/ (Spent(d)' = Spent(d) + 1 /\ en = e + 1))
    BY <1>1, <1>2, <2>1, <2>2
  <2>4. QED
    BY <1>1, <2>1, <2>3
<1>4. ASSUME NEW w \in Workers, WorkerStep(w) \/ WorkerAbort(w)
      PROVE  /\ Spent(d) \in Nat /\ Spent(d)' \in Nat
             /\ \/ Spent(d)' <= Spent(d)
                \/ Spent(d)' <= Spent(d) + 1 /\ WorkerAbort(w)
  <2>1. \/ pn = p /\ an = a /\ en + rn <= e + r
        \/ /\ pn = p + 1 /\ an = a + 1 /\ en = e /\ r = 1
           /\ rn = 0 \/ an < m
        \/ WorkerAbort(w) /\ pn = p /\ an + 1 >= a /\ en = e /\ rn <= r
    BY <1>4, WorkerCounts
  <2>2. rn \in {0, 1}
    BY DEF Drawn, One
  <2> HIDE DEF m, p, pn, a, an, e, en, r, rn
  <2>3. /\ Left(a, m) \in Nat /\ Left(an, m) \in Nat
        /\ an >= a => Left(an, m) <= Left(a, m)
        /\ an + 1 >= a => Left(an, m) <= Left(a, m) + 1
        /\ an = a + 1 /\ an < m => Left(an, m) + 1 = Left(a, m)
    BY <1>1, LeftShrinks
  <2> DEFINE l == Left(a, m)
             ln == Left(an, m)
  <2>4. l \in Nat /\ ln \in Nat
    BY <2>3
  <2>5. CASE pn = p /\ an = a /\ en + rn <= e + r
    <3>1. ln = l
      BY <2>5
    <3> HIDE DEF l, ln
    <3>2. pn + ln + en + rn <= p + l + e + r
      BY <1>1, <2>4, <2>5, <3>1
    <3>3. QED
      BY <1>1, <1>2, <2>4, <3>2 DEF l, ln
  <2>6. CASE pn = p + 1 /\ an = a + 1 /\ en = e /\ r = 1 /\ (rn = 0 \/ an < m)
    <3>1. ln <= l /\ (rn = 0 \/ ln + 1 = l)
      BY <1>1, <2>3, <2>6
    <3> HIDE DEF l, ln
    <3>2. pn + ln + en + rn <= p + l + e + r
      BY <1>1, <2>2, <2>4, <2>6, <3>1
    <3>3. QED
      BY <1>1, <1>2, <2>4, <3>2 DEF l, ln
  <2>7. CASE WorkerAbort(w) /\ pn = p /\ an + 1 >= a /\ en = e /\ rn <= r
    <3>1. ln <= l + 1
      BY <2>3, <2>7
    <3> HIDE DEF l, ln
    <3>2. pn + ln + en + rn <= p + l + e + r + 1
      BY <1>1, <2>4, <2>7, <3>1
    <3>3. QED
      BY <1>1, <1>2, <2>4, <2>7, <3>2 DEF l, ln
  <2>8. QED
    BY <2>1, <2>5, <2>6, <2>7
<1>5. QED
  BY <1>3, <1>4

\* PostsInv is kept by every step.
LEMMA PostsNext ==
  ASSUME TypeOK, TypeOK', KeyInv, DeliveryInv, BegunInv, BegunInv', OneWorker, CurrentInv,
         PostsInv, [Next]_vars
  PROVE  PostsInv'
<1>1. CASE UNCHANGED vars
  <2> SUFFICES ASSUME NEW d \in Delivery PROVE Spent(d)' <= Allowed(d)'
    BY DEF PostsInv
  <2>1. posts' = posts /\ Attempts(d)' = Attempts(d) /\ Entries(d)' = Entries(d)
        /\ Drawn(d)' = Drawn(d) /\ NotPushed(d)' = NotPushed(d) /\ Pushers(d)' = Pushers(d)
        /\ faults' = faults
    BY <1>1 DEF vars, Attempts, MadeBy, Entries, Drawn, DrawnBy, NotPushed, Pushers
  <2>2. Spent(d)' = Spent(d) /\ Allowed(d)' = Allowed(d)
    BY <2>1 DEF Spent, Allowed, One
  <2>3. QED
    BY <2>2 DEF PostsInv
<1>2. CASE Next
  <2> SUFFICES ASSUME NEW d \in Delivery PROVE Spent(d)' <= Allowed(d)'
    BY DEF PostsInv
  <2>1. Spent(d) <= Allowed(d)
    BY DEF PostsInv
  <2>2. QED
    BY <1>2, <2>1, AllowedGrows, SpentStep
<1>3. QED
  BY <1>1, <1>2

\* Nothing is posted, queued or taken initially.
LEMMA PostsInit == Init => PostsInv
<1> SUFFICES ASSUME Init, NEW d \in Delivery PROVE Spent(d) <= Allowed(d)
  BY DEF PostsInv
<1>1. MaxAttempts[EndpointOf(d)] \in Nat \ {0}
  BY MaxAttemptsType DEF Delivery, EndpointOf
<1>2. Entries(d) = 0
  <2>1. Positions(queue, d) = {}
    BY EmptySeq, LenProperties DEF Init, Positions
  <2>2. QED
    BY <2>1, FS_EmptySet DEF Entries
<1>3. Drawn(d) = 0 /\ Attempts(d) = 0
  BY DEF Init, Drawn, DrawnBy, Attempts, MadeBy, Idle, AbsentRow, One
<1>4. Left(0, MaxAttempts[EndpointOf(d)]) = MaxAttempts[EndpointOf(d)] - 1
  BY <1>1 DEF Left
<1>5. One(~NotPushed(d)) = 0
  BY DEF Init, NotPushed, One, Delivery, EventOf
<1>6. Cardinality(Pushers(d)) = 0
  <2>1. Pushers(d) = {}
    BY NoneIsFresh DEF Init, Pushers, NotBegun, Delivery
  <2>2. QED
    BY <2>1, FS_EmptySet
<1>7. posts[d] = 0 /\ faults = 0
  BY DEF Init
<1>8. QED
  BY <1>1, <1>2, <1>3, <1>4, <1>5, <1>6, <1>7 DEF Spent, Allowed

\* With one worker, an endpoint receives at most max_attempts POSTs of an event, one more
\* for each retry request and one more for each fault, however the requests, the crashes and
\* the lost rpushes fall between the worker's steps.
THEOREM PostsAreBoundedHolds ==
  ASSUME OneWorker
  PROVE  Spec => []PostsAreBounded
<1>1. TypeOK /\ BegunInv /\ PostsInv => PostsAreBounded
  <2> SUFFICES ASSUME TypeOK, BegunInv, PostsInv, NEW d \in Delivery
               PROVE  posts[d] <= MaxAttempts[EndpointOf(d)]
                                    + Cardinality({o \in Operators : op[o].d = d}) + faults
    BY DEF PostsAreBounded
  <2> DEFINE m == MaxAttempts[EndpointOf(d)]
             l == Left(Attempts(d), m)
             b == One(~NotPushed(d))
             c == Cardinality(Pushers(d))
             n == Cardinality({o \in Operators : op[o].d = d})
  <2>1. /\ m \in Nat \ {0} /\ posts[d] \in Nat /\ l \in Nat /\ Entries(d) \in Nat
        /\ Drawn(d) \in Nat /\ c \in Nat /\ n \in Nat /\ faults \in Nat /\ c <= n
    BY CountsType, LeftShrinks, PushersFinite
  <2>2. b \in {0, 1}
    BY DEF One
  <2>3. posts[d] + l + Entries(d) + Drawn(d) <= (m - 1) + b + c + faults
    BY DEF PostsInv, Spent, Allowed
  <2> HIDE DEF m, l, b, c, n
  <2>4. posts[d] <= m + n + faults
    BY <2>1, <2>2, <2>3
  <2>5. QED
    BY <2>4 DEF m, n
<1>2. Init => PostsInv
  BY PostsInit
<1>3. TypeOK /\ TypeOK' /\ KeyInv /\ DeliveryInv /\ BegunInv /\ BegunInv' /\ CurrentInv /\ PostsInv
        /\ [Next]_vars => PostsInv'
  BY PostsNext
<1>4. QED
  BY <1>1, <1>2, <1>3, TypeCorrect, KeyInvariant, DeliveryInvariant, BegunInvariant,
     CurrentInvariant, PTL DEF Spec

-----------------------------------------------------------------------------
(* Several workers: what one id may still cause.                            *)

\* The POSTs one id may cause until its attempts reach the limit: a POST, and whatever
\* every worker may still do when the POST's outcome is the last to be saved.
Rounds(limit) ==
  LET rounds[n \in 0..limit] == IF n = 0 THEN 0 ELSE 1 + Cardinality(Workers) * rounds[n - 1]
  IN rounds

\* A set of natural numbers has a least element: induction without an operator.
LEMMA LeastNumber ==
  ASSUME NEW T \in SUBSET Nat, T # {}
  PROVE  \E x \in T : \A y \in T : x <= y
<1>1. IsWellFoundedOn(OpToRel(<, Nat), Nat)
  BY NatLessThanWellFounded
<1>2. PICK x \in T : \A y \in T : <<y, x>> \notin OpToRel(<, Nat)
  BY <1>1, WFMin
<1>3. \A y \in T : ~(y < x)
  BY <1>2 DEF OpToRel
<1>4. QED
  BY <1>3

\* What holds of 0 and of a successor holds up to any number.
LEMMA UpTo ==
  ASSUME NEW m \in Nat, NEW G \in SUBSET (0..m), 0 \in G,
         \A n \in 0..m : n + 1 \in 0..m /\ n \in G => n + 1 \in G
  PROVE  G = 0..m
<1> DEFINE B == (0..m) \ G
<1> SUFFICES ASSUME B # {} PROVE FALSE
  OBVIOUS
<1>1. B \in SUBSET Nat
  OBVIOUS
<1>2. PICK n \in B : \A k \in B : n <= k
  BY <1>1, LeastNumber
<1>3. n # 0 /\ n \in 0..m
  OBVIOUS
<1>4. n - 1 \in 0..m /\ ~(n <= n - 1) /\ (n - 1) + 1 = n
  BY <1>3
<1>5. n - 1 \in G
  BY <1>2, <1>4
<1>6. n \in G
  BY <1>3, <1>4, <1>5
<1>7. QED
  BY <1>6

\* r satisfies the recursion up to n.
IsRounds(r, n) ==
  /\ r \in [0..n -> Nat]
  /\ r[0] = 0
  /\ \A i \in 1..n : r[i] = 1 + Cardinality(Workers) * r[i - 1]

\* Something does.
LEMMA RoundsExist ==
  ASSUME IsFiniteSet(Workers), NEW m \in Nat
  PROVE  \E r : IsRounds(r, m)
<1>0. Cardinality(Workers) \in Nat
  BY FS_CardinalityType
<1> DEFINE G == {n \in 0..m : \E r : IsRounds(r, n)}
<1>1. 0 \in G
  <2>1. IsRounds([i \in 0..0 |-> 0], 0)
    BY DEF IsRounds
  <2>2. QED
    BY <2>1
<1>2. ASSUME NEW n \in 0..m, n + 1 \in 0..m, n \in G PROVE n + 1 \in G
  <2>1. PICK r : IsRounds(r, n)
    BY <1>2
  <2>2. PICK c : c = 1 + Cardinality(Workers) * r[n]
    OBVIOUS
  <2>3. n \in Nat /\ r \in [0..n -> Nat] /\ r[n] \in Nat
    BY <2>1 DEF IsRounds
  <2>4. c \in Nat
    BY <1>0, <2>2, <2>3
  <2> DEFINE t == [i \in 0..n + 1 |-> IF i = n + 1 THEN c ELSE r[i]]
  <2>5. t \in [0..n + 1 -> Nat] /\ t[0] = 0
    BY <2>1, <2>3, <2>4 DEF IsRounds
  <2>6. ASSUME NEW i \in 1..n + 1 PROVE t[i] = 1 + Cardinality(Workers) * t[i - 1]
    <3>1. CASE i = n + 1
      <4>1. i - 1 = n /\ n \in 0..n + 1 /\ n # n + 1 /\ i \in 0..n + 1
        BY <3>1, <2>3
      <4>2. t[i] = c /\ t[i - 1] = r[n]
        BY <3>1, <4>1
      <4>3. QED
        BY <2>2, <4>2
    <3>2. CASE i # n + 1
      <4>1. i \in 1..n /\ i \in 0..n + 1 /\ i - 1 \in 0..n + 1 /\ i - 1 # n + 1
        BY <3>2, <2>3
      <4>2. t[i] = r[i] /\ t[i - 1] = r[i - 1]
        BY <3>2, <4>1
      <4>3. r[i] = 1 + Cardinality(Workers) * r[i - 1]
        BY <2>1, <4>1 DEF IsRounds
      <4>4. QED
        BY <4>2, <4>3
    <3>3. QED
      BY <3>1, <3>2
  <2>7. IsRounds(t, n + 1)
    BY <2>5, <2>6 DEF IsRounds
  <2>8. QED
    BY <1>2, <2>7
<1>3. G = 0..m
  <2> HIDE DEF G
  <2>1. G \in SUBSET (0..m)
    BY DEF G
  <2>2. QED
    BY <1>1, <1>2, <2>1, UpTo
<1>4. m \in G
  BY <1>3
<1>5. QED
  BY <1>4

\* So Rounds does, and what it counts only grows.
LEMMA RoundsGrow ==
  ASSUME IsFiniteSet(Workers), Workers # {}, NEW m \in Nat
  PROVE  /\ IsRounds(Rounds(m), m)
         /\ \A n \in 0..m : \A i \in 0..n : Rounds(m)[i] <= Rounds(m)[n]
<1> DEFINE W == Cardinality(Workers)
           R(s) == s = [n \in 0..m |-> IF n = 0 THEN 0 ELSE 1 + W * s[n - 1]]
           a == Rounds(m)
<1>0. W \in Nat /\ W # 0
  BY FS_EmptySet, FS_CardinalityType
<1>1. PICK r : IsRounds(r, m)
  BY RoundsExist
<1>2. R(r)
  <2>1. r = [n \in 0..m |-> r[n]]
    BY <1>1 DEF IsRounds
  <2>2. \A n \in 0..m : r[n] = IF n = 0 THEN 0 ELSE 1 + W * r[n - 1]
    BY <1>1 DEF IsRounds
  <2> HIDE DEF W
  <2>3. QED
    BY <2>1, <2>2
<1>3. a = CHOOSE s : R(s)
  BY DEF Rounds
<1>4. R(a)
  BY <1>2, <1>3
<1> HIDE DEF a, W
<1>5. /\ a = [n \in 0..m |-> a[n]]
      /\ a[0] = 0
      /\ \A i \in 1..m : a[i] = 1 + W * a[i - 1]
  BY <1>4
<1> HIDE DEF R
<1> DEFINE G == {n \in 0..m : a[n] \in Nat /\ \A i \in 0..n : a[i] \in Nat /\ a[i] <= a[n]}
<1>6. 0 \in G
  BY <1>5
<1>7. ASSUME NEW n \in 0..m, n + 1 \in 0..m, n \in G PROVE n + 1 \in G
  <2>1. /\ n + 1 \in 1..m /\ (n + 1) - 1 = n /\ a[n] \in Nat
        /\ \A i \in 0..n : a[i] \in Nat /\ a[i] <= a[n]
    BY <1>7
  <2>2. a[n + 1] = 1 + W * a[n]
    BY <1>5, <2>1
  <2>3. a[n + 1] \in Nat /\ a[n] <= a[n + 1]
    <3>1. ASSUME NEW x \in Nat, NEW v \in Nat, v # 0 PROVE 1 + v * x \in Nat /\ x <= 1 + v * x
      <4>1. PICK k \in Nat : v = k + 1
        <5>1. v - 1 \in Nat /\ v = (v - 1) + 1
          BY <3>1
        <5>2. QED
          BY <5>1
      <4>2. v * x = k * x + x /\ k * x \in Nat
        BY <4>1
      <4>3. QED
        BY <4>2
    <3>2. QED
      BY <1>0, <2>1, <2>2, <3>1
  <2>4. ASSUME NEW i \in 0..n + 1 PROVE a[i] \in Nat /\ a[i] <= a[n + 1]
    <3>1. CASE i = n + 1
      BY <2>3, <3>1
    <3>2. CASE i # n + 1
      <4>1. i \in 0..n /\ i \in 0..m
        BY <3>2
      <4>2. a[i] \in Nat /\ a[i] <= a[n]
        BY <2>1, <4>1
      <4>3. QED
        BY <2>1, <2>3, <4>2
    <3>3. QED
      BY <3>1, <3>2
  <2>5. QED
    BY <1>7, <2>3, <2>4
<1>8. G = 0..m
  <2> HIDE DEF G
  <2>1. G \in SUBSET (0..m)
    BY DEF G
  <2>2. QED
    BY <1>6, <1>7, <2>1, UpTo
<1>9. \A n \in 0..m : a[n] \in Nat /\ \A i \in 0..n : a[i] <= a[n]
  BY <1>8
<1>10. IsRounds(a, m)
  BY <1>5, <1>9 DEF IsRounds, W
<1>11. QED
  BY <1>9, <1>10 DEF a

-----------------------------------------------------------------------------
(* Several workers: what is posted and what may still be.                   *)

FinitelyMany == IsFiniteSet(Workers) /\ Workers # {}

\* The POSTs that one id may cause when the row counts so many attempts.
Worth(d, attempts) ==
  LET limit == MaxAttempts[EndpointOf(d)] IN
  IF attempts < limit THEN Rounds(limit)[limit - attempts] ELSE 0

\* A POST below the limit is worth one more than what every worker may do after it; an
\* attempt more is never worth more.
LEMMA WorthShrinks ==
  ASSUME FinitelyMany, NEW d \in Delivery, NEW v \in Nat
  PROVE  /\ Worth(d, v) \in Nat
         /\ v < MaxAttempts[EndpointOf(d)] => Worth(d, v) = 1 + Cardinality(Workers) * Worth(d, v + 1)
         /\ ~(v < MaxAttempts[EndpointOf(d)]) => Worth(d, v) = 0
         /\ \A u \in Nat : u <= v => Worth(d, v) <= Worth(d, u)
<1>1. PICK m \in Nat \ {0} : m = MaxAttempts[EndpointOf(d)]
  BY MaxAttemptsType DEF Delivery, EndpointOf
<1>2. PICK r : r = Rounds(m)
  OBVIOUS
<1>3. /\ r \in [0..m -> Nat] /\ r[0] = 0
      /\ \A i \in 1..m : r[i] = 1 + Cardinality(Workers) * r[i - 1]
      /\ \A n \in 0..m : \A i \in 0..n : r[i] <= r[n]
  BY <1>2, RoundsGrow DEF FinitelyMany, IsRounds
<1>4. \A u \in Nat : Worth(d, u) = IF u < m THEN r[m - u] ELSE 0
  BY <1>1, <1>2 DEF Worth
<1>5. \A u \in Nat : u < m => m - u \in 1..m /\ (m - u) - 1 = m - (u + 1) /\ u + 1 \in Nat
  OBVIOUS
<1>6. \A u \in Nat : Worth(d, u) \in Nat
  BY <1>3, <1>4, <1>5
<1>7. ASSUME v < m PROVE Worth(d, v) = 1 + Cardinality(Workers) * Worth(d, v + 1)
  <2>1. /\ Worth(d, v) = r[m - v]
        /\ r[m - v] = 1 + Cardinality(Workers) * r[(m - v) - 1]
    BY <1>3, <1>4, <1>5, <1>7
  <2>2. Worth(d, v + 1) = r[(m - v) - 1]
    <3>1. CASE v + 1 < m
      BY <1>4, <1>5, <1>7, <3>1
    <3>2. CASE ~(v + 1 < m)
      <4>1. (m - v) - 1 = 0
        BY <1>7, <3>2
      <4>2. QED
        BY <1>3, <1>4, <3>2, <4>1
    <3>3. QED
      BY <3>1, <3>2
  <2>3. QED
    BY <2>1, <2>2
<1>8. ASSUME NEW u \in Nat, u <= v PROVE Worth(d, v) <= Worth(d, u)
  <2>1. CASE v < m
    <3>1. u < m /\ m - u \in 0..m /\ m - v \in 0..(m - u)
      BY <1>8, <2>1
    <3>2. r[m - v] <= r[m - u]
      BY <1>3, <3>1
    <3>3. QED
      BY <1>4, <2>1, <3>1, <3>2
  <2>2. CASE ~(v < m)
    BY <1>4, <1>6, <2>2
  <2>3. QED
    BY <2>1, <2>2
<1>9. QED
  BY <1>1, <1>4, <1>6, <1>7, <1>8

\* The attempts from which the worker would go on, were it to end now or to post.
Low(a, b) == IF a < b THEN a ELSE b
Reach(w, d) ==
  IF worker[w].d = d /\ worker[w].pc \in {"loaded", "posting", "requeue", "saving"}
  THEN Low(worker[w].seen.attempt, row[d].attempt) ELSE row[d].attempt

\* What the worker may still cause: a save that would set the attempts anew counts for
\* every worker.
Potential(w, d) ==
  IF MadeBy(w, d) THEN Cardinality(Workers) * Worth(d, worker[w].write.attempt)
                  ELSE Worth(d, Reach(w, d))

\* The sum of the potentials, as the size of a set.
Most(d) == Cardinality(Workers) * Worth(d, 0)
Cells(d) == {c \in Workers \X (1..Most(d)) : c[2] <= Potential(c[1], d)}

\* The workers that hold an id of d.
Holding(d) == {w \in Workers : DrawnBy(w, d)}

\* Products of natural numbers.
LEMMA Products ==
  ASSUME NEW v \in Nat, NEW x \in Nat, NEW y \in Nat, x <= y
  PROVE  /\ v * x \in Nat /\ v * x <= v * y
         /\ (v + 1) * x = v * x + x
         /\ v # 0 => x <= v * x
<1>1. PICK k \in Nat : y = x + k
  <2>1. y - x \in Nat /\ y = x + (y - x)
    OBVIOUS
  <2>2. QED
    BY <2>1
<1>2. v * y = v * x + v * k /\ v * k \in Nat /\ v * x \in Nat
  BY <1>1
<1>3. v * x <= v * y
  BY <1>2
<1>4. (v + 1) * x = v * x + x
  OBVIOUS
<1>5. ASSUME v # 0 PROVE x <= v * x
  <2>1. PICK n \in Nat : v = n + 1
    <3>1. v - 1 \in Nat /\ v = (v - 1) + 1
      BY <1>5
    <3>2. QED
      BY <3>1
  <2>2. v * x = n * x + x /\ n * x \in Nat
    BY <2>1
  <2>3. QED
    BY <2>2
<1>6. QED
  BY <1>2, <1>3, <1>4, <1>5

\* Workers can be counted, and there is one.
LEMMA WorkersCount ==
  ASSUME FinitelyMany
  PROVE  Cardinality(Workers) \in Nat /\ Cardinality(Workers) # 0
BY FS_EmptySet, FS_CardinalityType DEF FinitelyMany

\* What is read and written of attempts are numbers.
LEMMA ReachType ==
  ASSUME TypeOK, NEW w \in Workers, NEW d \in Delivery
  PROVE  /\ Reach(w, d) \in Nat /\ Reach(w, d) <= row[d].attempt
         /\ worker[w].seen.attempt \in Nat /\ row[d].attempt \in Nat
         /\ MadeBy(w, d) => worker[w].write.attempt \in Nat
<1>1. worker[w].seen.attempt \in Nat /\ row[d].attempt \in Nat
  BY DEF TypeOK, WorkerType, Row
<1>2. worker[w].write.attempt \in Nat \cup {None}
  BY DEF TypeOK, WorkerType, Write
<1>3. QED
  BY <1>1, <1>2 DEF Reach, Low, MadeBy

\* A worker's potential fits its column of cells.
LEMMA PotentialType ==
  ASSUME TypeOK, FinitelyMany, NEW w \in Workers, NEW d \in Delivery
  PROVE  Potential(w, d) \in Nat /\ Potential(w, d) <= Most(d) /\ Most(d) \in Nat
<1>1. Cardinality(Workers) \in Nat /\ Cardinality(Workers) # 0
  BY WorkersCount
<1>2. /\ Reach(w, d) \in Nat
      /\ MadeBy(w, d) => worker[w].write.attempt \in Nat
  BY ReachType
<1>3. \A v \in Nat : Worth(d, v) \in Nat /\ Worth(d, v) <= Worth(d, 0)
  BY WorthShrinks
<1>4. \A v \in Nat : /\ Cardinality(Workers) * Worth(d, v) \in Nat
                     /\ Cardinality(Workers) * Worth(d, v) <= Cardinality(Workers) * Worth(d, 0)
                     /\ Worth(d, v) <= Cardinality(Workers) * Worth(d, v)
  BY <1>1, <1>3, Products
<1>5. CASE MadeBy(w, d)
  BY <1>2, <1>4, <1>5 DEF Potential, Most
<1>6. CASE ~MadeBy(w, d)
  <2>1. PICK v \in Nat : Potential(w, d) = Worth(d, v)
    BY <1>2, <1>6 DEF Potential
  <2> DEFINE x == Cardinality(Workers) * Worth(d, v)
             y == Cardinality(Workers) * Worth(d, 0)
  <2>2. x \in Nat /\ y \in Nat /\ x <= y /\ Worth(d, v) <= x /\ Worth(d, v) \in Nat
    BY <1>3, <1>4
  <2>3. Most(d) = y
    BY DEF Most
  <2> HIDE DEF x, y
  <2>4. QED
    BY <2>1, <2>2, <2>3
<1>7. QED
  BY <1>5, <1>6

\* A set that loses a column of n elements and gains no more than S.
LEMMA ColumnSwap ==
  ASSUME NEW A, IsFiniteSet(A), NEW x, NEW n \in Nat, {x} \X (1..n) \subseteq A,
         NEW S, IsFiniteSet(S), NEW C, C \subseteq (A \ ({x} \X (1..n))) \cup S
  PROVE  IsFiniteSet(C) /\ Cardinality(C) + n <= Cardinality(A) + Cardinality(S)
<1> DEFINE B == {x} \X (1..n)
<1>1. IsFiniteSet(B) /\ Cardinality(B) = n
  <2>1. IsFiniteSet(1..n) /\ Cardinality(1..n) = n
    BY FS_Interval
  <2>2. IsFiniteSet({x}) /\ Cardinality({x}) = 1
    BY FS_Singleton
  <2>3. IsFiniteSet(B) /\ Cardinality(B) = Cardinality({x}) * Cardinality(1..n)
    BY <2>1, <2>2, FS_Product
  <2>4. QED
    BY <2>1, <2>2, <2>3
<1> HIDE DEF B
<1>2. A \cap B = B
  BY DEF B
<1>3. IsFiniteSet(A \ B) /\ Cardinality(A \ B) = Cardinality(A) - n
  <2>1. IsFiniteSet(A \ B) /\ Cardinality(A \ B) = Cardinality(A) - Cardinality(A \cap B)
    BY FS_Difference
  <2>2. QED
    BY <1>1, <1>2, <2>1
<1> DEFINE D == A \ B
<1>4. IsFiniteSet(D) /\ Cardinality(D) = Cardinality(A) - n
  BY <1>3
<1>5. C \in SUBSET (D \cup S)
  BY DEF B
<1> HIDE DEF D
<1>6. IsFiniteSet(D \cup S) /\ Cardinality(D \cup S) = Cardinality(D) + Cardinality(S) - Cardinality(D \cap S)
  BY <1>4, FS_Union
<1>7. IsFiniteSet(D \cap S)
  BY <1>4, FS_Subset
<1>8. IsFiniteSet(C) /\ Cardinality(C) <= Cardinality(D \cup S)
  BY <1>5, <1>6, FS_Subset
<1>9. /\ Cardinality(A) \in Nat /\ Cardinality(S) \in Nat /\ Cardinality(D) \in Nat
      /\ Cardinality(D \cap S) \in Nat /\ Cardinality(C) \in Nat /\ Cardinality(D \cup S) \in Nat
  BY <1>4, <1>6, <1>7, <1>8, FS_CardinalityType
<1>10. QED
  BY <1>4, <1>6, <1>8, <1>9

\* The cells can be counted, and a worker's column is as high as its potential.
LEMMA CellsCount ==
  ASSUME TypeOK, FinitelyMany, NEW d \in Delivery
  PROVE  /\ IsFiniteSet(Cells(d)) /\ Cardinality(Cells(d)) \in Nat
         /\ \A w \in Workers : {w} \X (1..Potential(w, d)) \subseteq Cells(d)
<1>1. Most(d) \in Nat
  BY PotentialType DEF FinitelyMany
<1>2. IsFiniteSet(1..Most(d))
  BY <1>1, FS_Interval
<1>3. IsFiniteSet(Workers \X (1..Most(d)))
  BY <1>2, FS_Product DEF FinitelyMany
<1>4. IsFiniteSet(Cells(d)) /\ Cardinality(Cells(d)) \in Nat
  BY <1>3, FS_Subset, FS_CardinalityType DEF Cells
<1>5. ASSUME NEW w \in Workers PROVE {w} \X (1..Potential(w, d)) \subseteq Cells(d)
  BY <1>1, PotentialType DEF Cells
<1>6. QED
  BY <1>4, <1>5

\* And stays a number.
LEMMA PotentialTypeNext ==
  ASSUME TypeOK', FinitelyMany, NEW w \in Workers, NEW d \in Delivery
  PROVE  Potential(w, d)' \in Nat
<1>1. Cardinality(Workers) \in Nat
  BY WorkersCount
<1>2. \A v \in Nat : Worth(d, v) \in Nat /\ Cardinality(Workers) * Worth(d, v) \in Nat
  BY <1>1, WorthShrinks
<1>3. /\ worker'[w].seen.attempt \in Nat /\ row'[d].attempt \in Nat
      /\ worker'[w].write.attempt \in Nat \cup {None}
  BY DEF TypeOK, WorkerType, Row, Write
<1>4. Reach(w, d)' \in Nat
  BY <1>3 DEF Reach, Low
<1>5. QED
  BY <1>2, <1>3, <1>4 DEF Potential, MadeBy, Worth

\* A step of one worker that leaves the attempts of the row changes its own column.
LEMMA ColumnMoves ==
  ASSUME TypeOK, TypeOK', FinitelyMany, NEW d \in Delivery, NEW w \in Workers,
         \A v \in Workers : v # w => worker'[v] = worker[v], row'[d].attempt = row[d].attempt
  PROVE  Cardinality(Cells(d)') + Potential(w, d) <= Cardinality(Cells(d)) + Potential(w, d)'
<1>1. Potential(w, d) \in Nat /\ IsFiniteSet(Cells(d)) /\ {w} \X (1..Potential(w, d)) \subseteq Cells(d)
  BY PotentialType, CellsCount
<1>2. PICK n : n = Potential(w, d)'
  OBVIOUS
<1>3. n \in Nat
  BY <1>2, PotentialTypeNext
<1>4. \A v \in Workers : v # w => Potential(v, d)' = Potential(v, d)
  BY DEF Potential, MadeBy, Reach, Worth
<1>5. Cells(d)' = {c \in Workers \X (1..Most(d)) : c[2] <= Potential(c[1], d)'}
  BY DEF Cells, Most, Worth
<1>6. Cells(d)' \subseteq (Cells(d) \ ({w} \X (1..Potential(w, d)))) \cup ({w} \X (1..n))
  <2> SUFFICES ASSUME NEW c \in Cells(d)'
               PROVE  c \in (Cells(d) \ ({w} \X (1..Potential(w, d)))) \cup ({w} \X (1..n))
    OBVIOUS
  <2>1. PICK v \in Workers, i \in 1..Most(d) : c = <<v, i>> /\ i <= Potential(v, d)'
    BY <1>5
  <2>2. CASE v = w
    <3>1. Most(d) \in Nat
      BY PotentialType
    <3>2. i \in 1..n
      BY <1>2, <1>3, <2>1, <2>2, <3>1
    <3>3. QED
      BY <2>1, <2>2, <3>2
  <2>3. CASE v # w
    BY <1>4, <2>1, <2>3 DEF Cells
  <2>4. QED
    BY <2>2, <2>3
<1>7. IsFiniteSet({w} \X (1..n)) /\ Cardinality({w} \X (1..n)) = n
  <2>1. IsFiniteSet(1..n) /\ Cardinality(1..n) = n
    BY <1>3, FS_Interval
  <2>2. IsFiniteSet({w}) /\ Cardinality({w}) = 1
    BY FS_Singleton
  <2>3. /\ IsFiniteSet({w} \X (1..n))
        /\ Cardinality({w} \X (1..n)) = Cardinality({w}) * Cardinality(1..n)
    BY <2>1, <2>2, FS_Product
  <2>4. QED
    BY <1>3, <2>1, <2>2, <2>3
<1>8. Cardinality(Cells(d)') + Potential(w, d) <= Cardinality(Cells(d)) + Cardinality({w} \X (1..n))
  BY <1>1, <1>6, <1>7, ColumnSwap
<1>9. QED
  BY <1>2, <1>7, <1>8

\* A save that sets the attempts anew has been counted for every worker.
LEMMA SavePays ==
  ASSUME TypeOK, TypeOK', FinitelyMany, NEW d \in Delivery, NEW w \in Workers,
         WorkerSave(w), MadeBy(w, d)
  PROVE  Cardinality(Cells(d)') <= Cardinality(Cells(d))
<1> DEFINE v == worker[w].write.attempt
           c == Worth(d, v)
           P == Cardinality(Workers) * c
<1>1. /\ Potential(w, d) = P
      /\ P \in Nat /\ IsFiniteSet(Cells(d)) /\ {w} \X (1..P) \subseteq Cells(d)
  <2>1. Potential(w, d) = P
    BY DEF Potential
  <2> HIDE DEF P
  <2>2. QED
    BY <2>1, PotentialType, CellsCount
<1>2. v \in Nat /\ c \in Nat /\ v # None
  BY ReachType, WorthShrinks DEF MadeBy
<1>3. row'[d].attempt = v
  <2>1. worker[w].d = d
    BY DEF MadeBy
  <2>2. row'[d] = Updated(row[d], worker[w].write)
    BY <2>1 DEF WorkerSave, TypeOK
  <2>3. QED
    BY <1>2, <2>2 DEF Updated, Kept
<1>4. worker'[w].pc = "idle" /\ \A u \in Workers : u # w => worker'[u] = worker[u]
  BY OneWorkerMoves DEF WorkerSave, WorkerStep, Idle, TypeOK
<1> HIDE DEF v
<1>5. Potential(w, d)' = c
  BY <1>3, <1>4 DEF Potential, MadeBy, Reach, Worth
<1>6. ASSUME NEW u \in Workers, u # w
      PROVE  Potential(u, d)' <= Potential(u, d) \/ Potential(u, d)' = c
  <2>1. worker'[u] = worker[u]
    BY <1>4, <1>6
  <2>2. Potential(u, d) \in Nat
    BY PotentialType
  <2>3. CASE MadeBy(u, d)
    <3>1. Potential(u, d)' = Potential(u, d)
      BY <2>1, <2>3 DEF Potential, MadeBy, Worth
    <3>2. QED
      BY <2>2, <3>1
  <2>4. CASE ~MadeBy(u, d)
    <3>1. ~MadeBy(u, d)'
      BY <2>1, <2>4 DEF MadeBy
    <3>2. /\ Potential(u, d) = Worth(d, Reach(u, d))
          /\ Potential(u, d)' = Worth(d, Reach(u, d)')
      BY <2>4, <3>1 DEF Potential, Worth
    <3>3. /\ Reach(u, d) \in Nat /\ worker[u].seen.attempt \in Nat /\ row[d].attempt \in Nat
      BY ReachType
    <3>4. Reach(u, d)' = v \/ (Reach(u, d)' \in Nat /\ Reach(u, d) <= Reach(u, d)')
      BY <1>2, <1>3, <2>1, <3>3 DEF Reach, Low
    <3>5. QED
      BY <3>2, <3>3, <3>4, WorthShrinks
  <2>5. QED
    BY <2>3, <2>4
<1> HIDE DEF c
<1>7. Cells(d)' = {x \in Workers \X (1..Most(d)) : x[2] <= Potential(x[1], d)'}
  BY DEF Cells, Most, Worth
<1>8. Cells(d)' \subseteq (Cells(d) \ ({w} \X (1..P))) \cup (Workers \X (1..c))
  <2> HIDE DEF P
  <2> SUFFICES ASSUME NEW x \in Cells(d)'
               PROVE  x \in (Cells(d) \ ({w} \X (1..P))) \cup (Workers \X (1..c))
    OBVIOUS
  <2>1. PICK u \in Workers, i \in 1..Most(d) : x = <<u, i>> /\ i <= Potential(u, d)'
    BY <1>7
  <2>2. Most(d) \in Nat /\ i \in Nat /\ 1 <= i /\ Potential(u, d) \in Nat
    BY PotentialType
  <2>3. CASE Potential(u, d)' = c
    BY <1>2, <2>1, <2>2, <2>3
  <2>4. CASE u # w /\ Potential(u, d)' <= Potential(u, d)
    <3>1. i <= Potential(u, d)
      <4>1. Potential(u, d)' \in Nat
        BY PotentialTypeNext
      <4>2. QED
        BY <2>1, <2>2, <2>4, <4>1
    <3>2. QED
      BY <2>1, <2>4, <3>1 DEF Cells
  <2>5. QED
    BY <1>5, <1>6, <2>3, <2>4
<1>9. IsFiniteSet(Workers \X (1..c)) /\ Cardinality(Workers \X (1..c)) = P
  <2>1. IsFiniteSet(1..c) /\ Cardinality(1..c) = c
    BY <1>2, FS_Interval
  <2>2. QED
    BY <2>1, FS_Product DEF FinitelyMany
<1>10. Cardinality(Cells(d)') + P <= Cardinality(Cells(d)) + P /\ IsFiniteSet(Cells(d)')
  <2> HIDE DEF P
  <2>1. PICK A, C, S : A = Cells(d) /\ C = Cells(d)' /\ S = Workers \X (1..c)
    OBVIOUS
  <2>2. /\ IsFiniteSet(A) /\ P \in Nat /\ {w} \X (1..P) \subseteq A
        /\ IsFiniteSet(S) /\ C \subseteq (A \ ({w} \X (1..P))) \cup S
    BY <1>1, <1>8, <1>9, <2>1
  <2>3. IsFiniteSet(C) /\ Cardinality(C) + P <= Cardinality(A) + Cardinality(S)
    BY <2>2, ColumnSwap
  <2>4. QED
    BY <1>9, <2>1, <2>3
<1>11. Cardinality(Cells(d)') \in Nat /\ Cardinality(Cells(d)) \in Nat
  BY <1>1, <1>10, FS_CardinalityType
<1> HIDE DEF P
<1>12. QED
  BY <1>1, <1>10, <1>11

\* Off its delivery, or done with it, a worker may do what the row allows.
LEMMA AwayFrom ==
  ASSUME NEW w \in Workers, NEW d \in Delivery
  PROVE  /\ \/ worker[w].d # d
            \/ worker[w].pc \notin {"loaded", "posting", "requeue", "saving"}
            => Potential(w, d) = Worth(d, row[d].attempt) /\ ~MadeBy(w, d)
         /\ \/ worker'[w].d # d
            \/ worker'[w].pc \notin {"loaded", "posting", "requeue", "saving"}
            => Potential(w, d)' = Worth(d, row'[d].attempt)
BY DEF Potential, MadeBy, Reach, Worth

\* A POST costs the potential of the attempts the worker has seen: below the limit the
\* POST itself and all that its outcome may set anew, and then the worker keeps its id.
LEMMA PostPays ==
  ASSUME TypeOK, FinitelyMany, NEW w \in Workers, WorkerPost(w), NEW d \in Delivery,
         worker[w].d = d
  PROVE  /\ posts'[d] = posts[d] + 1 /\ DrawnBy(w, d)
         /\ \/ Potential(w, d)' + 1 <= Potential(w, d)
            \/ Potential(w, d)' = 0 /\ ~DrawnBy(w, d)'
<1> DEFINE s == worker[w].seen.attempt
           a == s + 1
<1>0. /\ worker \in [Workers -> WorkerType] /\ posts \in [Delivery -> Nat]
      /\ s \in Nat /\ row[d].attempt \in Nat
      /\ worker[w].pc = "posting" /\ row' = row
      /\ posts' = [posts EXCEPT ![d] = @ + 1]
      /\ Cardinality(Workers) \in Nat
  BY ReachType, WorkersCount DEF TypeOK, WorkerPost
<1>1. a # s /\ a \in Nat /\ a # None
  BY <1>0, NoneIsFresh
<1>2. \/ Assign(w, "saving", Dirty(worker[w].seen, "success", a, "none"))
      \/ Assign(w, "saving", Dirty(worker[w].seen, "dlq", a, "none"))
      \/ /\ Assign(w, "requeue", Dirty(worker[w].seen, "pending", a, "waiting"))
         /\ ~LastAttempt(d, a)
  BY DEF WorkerPost, AfterFailure
<1>3. MaxAttempts[EndpointOf(d)] \in Nat
  BY MaxAttemptsType DEF Delivery, EndpointOf
<1>4. ~LastAttempt(d, a) => s < MaxAttempts[EndpointOf(d)]
  BY <1>0, <1>3 DEF LastAttempt
<1>5. \A status, next : Dirty(worker[w].seen, status, a, next).attempt = a
  BY <1>1 DEF Dirty, Changed
<1>6. Potential(w, d) = Worth(d, Low(s, row[d].attempt))
  BY <1>0 DEF Potential, MadeBy, Reach
<1>7. /\ Worth(d, s) \in Nat /\ Worth(d, a) \in Nat /\ Worth(d, s) <= Potential(w, d)
      /\ Potential(w, d) \in Nat
      /\ s < MaxAttempts[EndpointOf(d)] => Worth(d, s) = 1 + Cardinality(Workers) * Worth(d, a)
      /\ ~(s < MaxAttempts[EndpointOf(d)]) => Worth(d, a) = 0
  <2>1. Low(s, row[d].attempt) \in Nat /\ Low(s, row[d].attempt) <= s
    BY <1>0 DEF Low
  <2>2. ~(s < MaxAttempts[EndpointOf(d)]) => ~(a < MaxAttempts[EndpointOf(d)])
    BY <1>0, <1>3
  <2>3. Worth(d, s) <= Worth(d, Low(s, row[d].attempt))
    BY <1>0, <2>1, WorthShrinks
  <2>4. QED
    BY <1>0, <1>1, <1>6, <2>1, <2>2, <2>3, WorthShrinks
<1> HIDE DEF a, s
<1>8. ASSUME NEW pc, NEW write, Assign(w, pc, write)
      PROVE  worker'[w].d = worker[w].d /\ worker'[w].pc = pc /\ worker'[w].write = write
  BY <1>0, <1>8 DEF Assign, WorkerType
<1>9. /\ worker'[w].d = d /\ worker'[w].write.attempt = a
      /\ \/ worker'[w].pc = "saving"
         \/ worker'[w].pc = "requeue" /\ s < MaxAttempts[EndpointOf(d)]
  <2>1. CASE Assign(w, "saving", Dirty(worker[w].seen, "success", a, "none"))
    BY <1>5, <1>8, <2>1
  <2>2. CASE Assign(w, "saving", Dirty(worker[w].seen, "dlq", a, "none"))
    BY <1>5, <1>8, <2>2
  <2>3. CASE /\ Assign(w, "requeue", Dirty(worker[w].seen, "pending", a, "waiting"))
             /\ ~LastAttempt(d, a)
    BY <1>4, <1>5, <1>8, <2>3
  <2>4. QED
    BY <1>2, <2>1, <2>2, <2>3
<1>10. Potential(w, d)' = Cardinality(Workers) * Worth(d, a)
  BY <1>1, <1>9 DEF Potential, MadeBy, Worth
<1>11. posts'[d] = posts[d] + 1 /\ DrawnBy(w, d)
  BY <1>0 DEF DrawnBy
<1>12. CASE s < MaxAttempts[EndpointOf(d)]
  <2> DEFINE x == Cardinality(Workers) * Worth(d, a)
  <2>1. x \in Nat /\ Worth(d, s) = 1 + x /\ Potential(w, d)' = x
    BY <1>0, <1>7, <1>10, <1>12, Products
  <2> HIDE DEF x
  <2>2. QED
    BY <1>7, <1>11, <2>1
<1>13. CASE ~(s < MaxAttempts[EndpointOf(d)])
  <2>1. Potential(w, d)' = 0
    BY <1>0, <1>7, <1>10, <1>13
  <2>2. ~DrawnBy(w, d)'
    BY <1>9, <1>13 DEF DrawnBy
  <2>3. QED
    BY <1>11, <2>1, <2>2
<1>14. QED
  BY <1>12, <1>13

\* What a step of one worker costs and pays, but for a save that sets the attempts anew.
LEMMA WorkerPays ==
  ASSUME TypeOK, TypeOK', FinitelyMany, NEW w \in Workers, WorkerStep(w) \/ WorkerAbort(w),
         NEW d \in Delivery, ~(WorkerSave(w) /\ MadeBy(w, d))
  PROVE  /\ row'[d].attempt = row[d].attempt
         /\ \/ posts'[d] + Potential(w, d)' + Entries(d)' + One(DrawnBy(w, d)') <=
                 posts[d] + Potential(w, d) + Entries(d) + One(DrawnBy(w, d))
            \/ /\ WorkerAbort(w)
               /\ posts'[d] + Potential(w, d)' + Entries(d)' + One(DrawnBy(w, d)') <=
                    posts[d] + Potential(w, d) + Entries(d) + One(DrawnBy(w, d)) + Worth(d, 0)
<1> DEFINE D == One(DrawnBy(w, d))
           Dn == One(DrawnBy(w, d)')
           P == Potential(w, d)
           Pn == Potential(w, d)'
           E == Entries(d)
           En == Entries(d)'
           r == Worth(d, row[d].attempt)
<1>0. /\ posts \in [Delivery -> Nat] /\ row \in [Delivery -> Row] /\ posts[d] \in Nat
      /\ worker \in [Workers -> WorkerType]
      /\ row[d].attempt \in Nat
  BY DEF TypeOK, Row
<1>1. E \in Nat /\ En \in Nat
  BY PositionsFinite DEF TypeOK, Entries
<1>2. /\ D \in {0, 1} /\ Dn \in {0, 1} /\ P \in Nat /\ Pn \in Nat
      /\ r \in Nat /\ Worth(d, 0) \in Nat /\ r <= Worth(d, 0)
  BY <1>0, PotentialType, PotentialTypeNext, WorthShrinks DEF One
<1>3. ASSUME posts'[d] = posts[d], row'[d].attempt = row[d].attempt, Pn <= P, En + Dn <= E + D
      PROVE  /\ row'[d].attempt = row[d].attempt
             /\ posts'[d] + Pn + En + Dn <= posts[d] + P + E + D
  <2> HIDE DEF D, Dn, P, Pn, E, En
  <2>1. QED
    BY <1>0, <1>1, <1>2, <1>3
<1>4. CASE WorkerPop(w)
  <2>1. posts' = posts /\ row' = row /\ worker[w].pc = "idle"
    BY <1>4 DEF WorkerPop
  <2>2. worker'[w].pc = "popped" /\ worker'[w].d = Head(queue)
    BY <1>0, <1>4 DEF WorkerPop, WorkerType
  <2>3. P = r /\ Pn = r
    BY <2>1, <2>2, AwayFrom
  <2>4. D = 0 /\ Dn = One(Head(queue) = d)
    BY <2>1, <2>2 DEF One, DrawnBy
  <2>5. E = En + One(Head(queue) = d)
    BY <1>4, WorkerPops
  <2> HIDE DEF D, Dn, P, Pn, E, En, r
  <2>6. Pn <= P /\ En + Dn <= E + D
    BY <1>1, <1>2, <2>3, <2>4, <2>5
  <2>7. QED
    BY <1>3, <2>1, <2>6 DEF D, Dn, P, Pn, E, En
<1>5. CASE WorkerLoad(w)
  <2>1. posts' = posts /\ row' = row /\ queue' = queue /\ worker[w].pc = "popped"
    BY <1>5 DEF WorkerLoad
  <2>2. P = r
    BY <2>1, AwayFrom
  <2>3. /\ Pn = r
        /\ worker'[w].pc = "idle" \/ (worker'[w].pc = "loaded" /\ worker'[w].d = worker[w].d)
    <3>1. CASE Skips(row[worker[w].d])
      <4>1. worker'[w].pc = "idle"
        BY <1>0, <1>5, <3>1 DEF WorkerLoad, Idle
      <4>2. QED
        BY <2>1, <4>1, AwayFrom
    <3>2. CASE ~Skips(row[worker[w].d])
      <4>1. /\ worker'[w].pc = "loaded" /\ worker'[w].d = worker[w].d
            /\ worker'[w].seen = row[worker[w].d]
        BY <1>0, <1>5, <3>2 DEF WorkerLoad, WorkerType
      <4>2. CASE worker[w].d = d
        BY <1>0, <2>1, <4>1, <4>2 DEF Potential, MadeBy, Reach, Low, Worth
      <4>3. CASE worker[w].d # d
        BY <2>1, <4>1, <4>3, AwayFrom
      <4>4. QED
        BY <4>1, <4>2, <4>3
    <3>3. QED
      BY <3>1, <3>2
  <2>4. Dn = 0 \/ D = 1
    BY <2>1, <2>3 DEF One, DrawnBy
  <2>5. En = E
    BY <2>1 DEF Entries
  <2>6. Pn = P
    BY <2>2, <2>3
  <2> HIDE DEF D, Dn, P, Pn, E, En, r
  <2>7. Pn <= P /\ En + Dn <= E + D
    BY <1>1, <1>2, <2>4, <2>5, <2>6
  <2>8. QED
    BY <1>3, <2>1, <2>7 DEF D, Dn, P, Pn, E, En
<1>6. CASE WorkerReadEndpoint(w)
  <2>1. posts' = posts /\ row' = row /\ queue' = queue /\ worker[w].pc = "loaded"
    BY <1>6 DEF WorkerReadEndpoint
  <2>2. /\ worker'[w].d = worker[w].d /\ worker'[w].seen = worker[w].seen
        /\ \/ worker'[w].pc = "posting"
           \/ worker'[w].pc = "saving" /\ worker'[w].write.attempt = None
    <3>1. DeadLetter(worker[w].seen).attempt = None
      BY DEF DeadLetter, NoWrite
    <3> DEFINE write == DeadLetter(worker[w].seen)
    <3> HIDE DEF write
    <3>2. CASE worker' = [worker EXCEPT ![w].pc = "posting"]
      BY <1>0, <3>2 DEF WorkerType
    <3>3. CASE Assign(w, "saving", write)
      BY <1>0, <3>1, <3>3 DEF Assign, WorkerType, write
    <3>4. QED
      BY <1>6, <3>2, <3>3 DEF WorkerReadEndpoint, write
  <2>3. Pn = P
    BY <2>1, <2>2 DEF Potential, MadeBy, Reach, Worth
  <2>4. Dn = 0 \/ D = 1
    BY <2>1, <2>2 DEF One, DrawnBy
  <2>5. En = E
    BY <2>1 DEF Entries
  <2> HIDE DEF D, Dn, P, Pn, E, En
  <2>6. Pn <= P /\ En + Dn <= E + D
    BY <1>1, <1>2, <2>3, <2>4, <2>5
  <2>7. QED
    BY <1>3, <2>1, <2>6 DEF D, Dn, P, Pn, E, En
<1>7. CASE WorkerPost(w)
  <2>1. row' = row /\ queue' = queue /\ worker[w].pc = "posting"
        /\ posts' = [posts EXCEPT ![worker[w].d] = @ + 1]
    BY <1>7 DEF WorkerPost
  <2>2. En = E
    BY <2>1 DEF Entries
  <2>3. CASE worker[w].d = d
    <3>1. posts'[d] = posts[d] + 1 /\ D = 1 /\ (Pn + 1 <= P \/ (Pn = 0 /\ Dn = 0))
      BY <1>7, <2>3, PostPays DEF One
    <3> HIDE DEF D, Dn, P, Pn, E, En
    <3>2. posts'[d] + Pn + En + Dn <= posts[d] + P + E + D
      BY <1>0, <1>1, <1>2, <2>2, <3>1
    <3>3. QED
      BY <2>1, <3>2 DEF D, Dn, P, Pn, E, En
  <2>4. CASE worker[w].d # d
    <3>1. worker'[w].d = worker[w].d
      BY <1>7, PostMoves
    <3>2. posts'[d] = posts[d] /\ P = r /\ Pn = r /\ Dn = 0
      BY <1>0, <2>1, <2>4, <3>1, AwayFrom DEF DrawnBy, One
    <3> HIDE DEF D, Dn, P, Pn, E, En, r
    <3>3. Pn <= P /\ En + Dn <= E + D
      BY <1>1, <1>2, <2>2, <3>2
    <3>4. QED
      BY <1>3, <2>1, <3>2, <3>3 DEF D, Dn, P, Pn, E, En
  <2>5. QED
    BY <2>3, <2>4
<1>8. CASE WorkerRequeue(w)
  <2>1. posts' = posts /\ row' = row /\ worker[w].pc = "requeue"
    BY <1>8 DEF WorkerRequeue
  <2>2. /\ worker'[w].pc = "saving" /\ worker'[w].d = worker[w].d
        /\ worker'[w].write = worker[w].write /\ worker'[w].seen = worker[w].seen
    BY <1>0, <1>8 DEF WorkerRequeue, WorkerType
  <2>3. Pn = P
    BY <2>1, <2>2 DEF Potential, MadeBy, Reach, Worth
  <2>4. Dn = 0 /\ D = One(worker[w].d = d)
    BY <2>1, <2>2 DEF One, DrawnBy
  <2>5. En = E \/ En = E + One(worker[w].d = d)
    BY <1>8, WorkerPushes
  <2> HIDE DEF D, Dn, P, Pn, E, En
  <2>6. Pn <= P /\ En + Dn <= E + D
    BY <1>1, <1>2, <2>3, <2>4, <2>5
  <2>7. QED
    BY <1>3, <2>1, <2>6 DEF D, Dn, P, Pn, E, En
<1>9. CASE WorkerSave(w)
  <2>1. posts' = posts /\ queue' = queue /\ worker[w].pc = "saving"
        /\ row' = [row EXCEPT ![worker[w].d] = Updated(@, worker[w].write)]
    BY <1>9 DEF WorkerSave
  <2>2. worker'[w].pc = "idle" /\ ~MadeBy(w, d)
    BY <1>0, <1>9 DEF WorkerSave, Idle
  <2>3. row'[d].attempt = row[d].attempt
    <3>1. CASE worker[w].d = d
      <4>1. row'[d].attempt = Kept(row[d].attempt, worker[w].write.attempt)
        BY <1>0, <2>1, <3>1 DEF Updated
      <4>2. QED
        BY <2>1, <2>2, <3>1, <4>1 DEF MadeBy, Kept
    <3>2. CASE worker[w].d # d
      BY <1>0, <2>1, <3>2
    <3>3. QED
      BY <3>1, <3>2
  <2>4. Pn = r
    BY <2>2, <2>3, AwayFrom
  <2>5. r <= P
    <3>1. Reach(w, d) \in Nat /\ Reach(w, d) <= row[d].attempt
      BY ReachType
    <3>2. P = Worth(d, Reach(w, d))
      BY <2>2 DEF Potential
    <3>3. Worth(d, row[d].attempt) <= Worth(d, Reach(w, d))
      BY <1>0, <3>1, WorthShrinks
    <3>4. QED
      BY <3>2, <3>3
  <2>6. Dn = 0
    BY <2>2 DEF One, DrawnBy
  <2>7. En = E
    BY <2>1 DEF Entries
  <2> HIDE DEF D, Dn, P, Pn, E, En, r
  <2>8. Pn <= P /\ En + Dn <= E + D
    BY <1>1, <1>2, <2>4, <2>5, <2>6, <2>7
  <2>9. QED
    BY <1>3, <2>1, <2>3, <2>8 DEF D, Dn, P, Pn, E, En
<1>10. CASE WorkerAbort(w)
  <2>1. posts' = posts /\ queue' = queue /\ row' = row
    BY <1>10 DEF WorkerAbort
  <2>2. worker'[w].pc = "idle"
    BY <1>0, <1>10 DEF WorkerAbort, Idle
  <2>3. Pn = r /\ Dn = 0
    BY <2>1, <2>2, AwayFrom DEF One, DrawnBy
  <2>4. En = E
    BY <2>1 DEF Entries
  <2> HIDE DEF D, Dn, P, Pn, E, En, r
  <2>5. posts'[d] + Pn + En + Dn <= posts[d] + P + E + D + Worth(d, 0)
    BY <1>0, <1>1, <1>2, <2>1, <2>3, <2>4
  <2>6. QED
    BY <1>10, <2>1, <2>5 DEF D, Dn, P, Pn, E, En
<1>11. QED
  BY <1>3, <1>4, <1>5, <1>6, <1>7, <1>8, <1>9, <1>10 DEF WorkerStep

\* The workers that hold an id can be counted.
LEMMA HoldingCount ==
  ASSUME FinitelyMany, NEW d \in Delivery
  PROVE  /\ IsFiniteSet(Holding(d)) /\ Cardinality(Holding(d)) \in Nat
         /\ IsFiniteSet(Holding(d)') /\ Cardinality(Holding(d)') \in Nat
BY FS_Subset, FS_CardinalityType DEF FinitelyMany, Holding

\* A step of one worker adds it to those that hold an id of d, or removes it.
LEMMA HoldingMoves ==
  ASSUME FinitelyMany, NEW d \in Delivery, NEW w \in Workers,
         \A v \in Workers : v # w => worker'[v] = worker[v]
  PROVE  Cardinality(Holding(d)') + One(DrawnBy(w, d)) =
           Cardinality(Holding(d)) + One(DrawnBy(w, d)')
<1>1. PICK H, G : H = Holding(d) /\ G = Holding(d)'
  OBVIOUS
<1>2. /\ IsFiniteSet(H) /\ IsFiniteSet(G)
      /\ Cardinality(H) \in Nat /\ Cardinality(G) \in Nat
  BY <1>1, HoldingCount
<1>3. H \ {w} = G \ {w}
  <2>1. \A v \in Workers : v # w => (DrawnBy(v, d) <=> DrawnBy(v, d)')
    BY DEF DrawnBy
  <2>2. H = {v \in Workers : DrawnBy(v, d)} /\ G = {v \in Workers : DrawnBy(v, d)'}
    BY <1>1 DEF Holding
  <2>3. QED
    BY <2>1, <2>2
<1>4. /\ Cardinality(H \ {w}) = IF w \in H THEN Cardinality(H) - 1 ELSE Cardinality(H)
      /\ Cardinality(G \ {w}) = IF w \in G THEN Cardinality(G) - 1 ELSE Cardinality(G)
  BY <1>2, FS_RemoveElement
<1>5. PICK x, y : x = One(DrawnBy(w, d)) /\ y = One(DrawnBy(w, d)')
  OBVIOUS
<1>6. x = (IF w \in H THEN 1 ELSE 0) /\ y = (IF w \in G THEN 1 ELSE 0)
  BY <1>1, <1>5 DEF Holding, One
<1>7. Cardinality(G) + x = Cardinality(H) + y
  BY <1>2, <1>3, <1>4, <1>6
<1>8. QED
  BY <1>1, <1>5, <1>7

\* What is posted, and what the workers and the ids queued or held may still cause; it stays
\* within what the workers may cause, an id of each request that pushes one, and what a
\* fault may undo.
Debt(d) == posts[d] + Cardinality(Cells(d)) + Entries(d) + Cardinality(Holding(d))
Credit(d) == Most(d) + One(~NotPushed(d)) + Cardinality(Pushers(d)) + faults * Worth(d, 0)
DebtInv == \A d \in Delivery : Debt(d) <= Credit(d)

\* A step adds to the debt of d by an rpush of a request, or by a worker that dies.
LEMMA DebtStep ==
  ASSUME TypeOK, TypeOK', KeyInv, DeliveryInv, BegunInv, FinitelyMany, Next, NEW d \in Delivery
  PROVE  /\ Debt(d) \in Nat /\ Debt(d)' \in Nat
         /\ \/ Debt(d)' <= Debt(d)
            \/ /\ Debt(d)' <= Debt(d) + 1
               /\ \/ \E p \in Publishers : PublishEnqueue(p) /\ d \in DeliveriesOf(p)
                  \/ \E o \in Operators : RetryEnqueue(o) /\ op[o].d = d
            \/ /\ Debt(d)' <= Debt(d) + Worth(d, 0)
               /\ \E w \in Workers : WorkerAbort(w)
<1>1. PICK p, c, e, h, pn, cn, en, hn :
        /\ p = posts[d] /\ c = Cardinality(Cells(d)) /\ e = Entries(d)
        /\ h = Cardinality(Holding(d))
        /\ pn = posts'[d] /\ cn = Cardinality(Cells(d)') /\ en = Entries(d)'
        /\ hn = Cardinality(Holding(d)')
  OBVIOUS
<1>2. Debt(d) = p + c + e + h /\ Debt(d)' = pn + cn + en + hn
  BY <1>1 DEF Debt
<1>3. /\ p \in Nat /\ c \in Nat /\ e \in Nat /\ h \in Nat
      /\ pn \in Nat /\ cn \in Nat /\ en \in Nat /\ hn \in Nat
  <2>1. cn \in Nat
    <3>1. Most(d) \in Nat
      BY PotentialType DEF FinitelyMany
    <3>2. IsFiniteSet(Workers \X (1..Most(d)))
      <4>1. IsFiniteSet(1..Most(d))
        BY <3>1, FS_Interval
      <4>2. QED
        BY <4>1, FS_Product DEF FinitelyMany
    <3>3. Cells(d)' \subseteq Workers \X (1..Most(d))
      BY DEF Cells, Most, Worth
    <3>4. QED
      BY <1>1, <3>2, <3>3, FS_Subset, FS_CardinalityType
  <2>2. QED
    BY <1>1, <2>1, CountsType, CountsTypeNext, CellsCount, HoldingCount
<1>4. CASE \A w \in Workers : ~WorkerStep(w) /\ ~WorkerAbort(w)
  <2>1. worker' = worker
    BY <1>4, WorkersRest
  <2>2. row'[d].attempt = row[d].attempt
    BY <1>4, RowAttemptsRest DEF WorkerStep
  <2>3. Cells(d)' = Cells(d) /\ Holding(d)' = Holding(d)
    BY <2>1, <2>2 DEF Cells, Most, Worth, Potential, MadeBy, Reach, Holding, DrawnBy
  <2>4. pn = p /\ cn = c /\ hn = h
    BY <1>1, <1>4, <2>3, RequestCounts
  <2>5. \/ en = e
        \/ /\ en = e + 1
           /\ \/ \E q \in Publishers : PublishEnqueue(q) /\ d \in DeliveriesOf(q)
              \/ \E o \in Operators : RetryEnqueue(o) /\ op[o].d = d
    BY <1>1, <1>4, RequestCounts
  <2>6. QED
    BY <1>2, <1>3, <2>4, <2>5
<1>5. ASSUME NEW w \in Workers, WorkerStep(w) \/ WorkerAbort(w)
      PROVE  Debt(d)' <= Debt(d) \/ (WorkerAbort(w) /\ Debt(d)' <= Debt(d) + Worth(d, 0))
  <2>1. \A v \in Workers : v # w => worker'[v] = worker[v]
    BY <1>5, OneWorkerMoves
  <2>2. PICK P, Pn, D, Dn : /\ P = Potential(w, d) /\ Pn = Potential(w, d)'
                            /\ D = One(DrawnBy(w, d)) /\ Dn = One(DrawnBy(w, d)')
    OBVIOUS
  <2>3. P \in Nat /\ Pn \in Nat /\ D \in {0, 1} /\ Dn \in {0, 1} /\ Worth(d, 0) \in Nat
    BY <2>2, PotentialType, PotentialTypeNext, WorthShrinks DEF One
  <2>4. hn + D = h + Dn
    BY <1>1, <2>1, <2>2, HoldingMoves
  <2>5. CASE WorkerSave(w) /\ MadeBy(w, d)
    <3>1. cn <= c
      BY <1>1, <2>5, SavePays
    <3>2. pn = p /\ en = e
      BY <1>1, <2>5 DEF WorkerSave, Entries
    <3>3. D = 0 /\ Dn = 0
      BY <2>2, <2>5 DEF WorkerSave, DrawnBy, One, Idle, TypeOK
    <3>4. QED
      BY <1>2, <1>3, <2>4, <3>1, <3>2, <3>3
  <2>6. CASE ~(WorkerSave(w) /\ MadeBy(w, d))
    <3>1. /\ row'[d].attempt = row[d].attempt
          /\ \/ pn + Pn + en + Dn <= p + P + e + D
             \/ WorkerAbort(w) /\ pn + Pn + en + Dn <= p + P + e + D + Worth(d, 0)
      BY <1>1, <1>5, <2>2, <2>6, WorkerPays
    <3>2. cn + P <= c + Pn
      BY <1>1, <2>1, <2>2, <3>1, ColumnMoves
    <3>3. PICK x : x = Worth(d, 0)
      OBVIOUS
    <3>4. CASE pn + Pn + en + Dn <= p + P + e + D
      <4>1. pn + cn + en + hn <= p + c + e + h
        BY <1>3, <2>3, <2>4, <3>2, <3>4
      <4>2. QED
        BY <1>2, <4>1
    <3>5. CASE WorkerAbort(w) /\ pn + Pn + en + Dn <= p + P + e + D + x
      <4>1. pn + cn + en + hn <= p + c + e + h + x
        BY <1>3, <2>3, <2>4, <3>2, <3>3, <3>5
      <4>2. QED
        BY <1>2, <3>3, <3>5, <4>1
    <3>6. QED
      BY <3>1, <3>3, <3>4, <3>5
  <2>7. QED
    BY <2>5, <2>6
<1>6. Debt(d) \in Nat /\ Debt(d)' \in Nat
  BY <1>2, <1>3
<1>7. QED
  BY <1>4, <1>5, <1>6

\* The credit never shrinks; an rpush of d's id by a request adds one to it, and a worker
\* that dies what its deliveries are worth anew.
LEMMA CreditGrows ==
  ASSUME TypeOK, TypeOK', BegunInv, BegunInv', FinitelyMany, Next, NEW d \in Delivery
  PROVE  /\ Credit(d) \in Nat /\ Credit(d)' \in Nat
         /\ Credit(d)' >= Credit(d)
         /\ \/ \E p \in Publishers : PublishEnqueue(p) /\ d \in DeliveriesOf(p)
            \/ \E o \in Operators : RetryEnqueue(o) /\ op[o].d = d
            => Credit(d)' >= Credit(d) + 1
         /\ (\E w \in Workers : WorkerAbort(w)) => Credit(d)' >= Credit(d) + Worth(d, 0)
<1>1. PICK m, b, bn, c, cn, x, f, fn :
        /\ m = Most(d) /\ b = One(~NotPushed(d)) /\ bn = One(~NotPushed(d)')
        /\ c = Cardinality(Pushers(d)) /\ cn = Cardinality(Pushers(d)')
        /\ x = Worth(d, 0) /\ f = faults * Worth(d, 0) /\ fn = faults' * Worth(d, 0)
  OBVIOUS
<1>2. /\ m \in Nat /\ c \in Nat /\ cn \in Nat /\ x \in Nat
      /\ faults \in Nat /\ faults' \in Nat
  BY <1>1, CountsType, CountsTypeNext, PushersGrow, PotentialType, WorthShrinks DEF FinitelyMany
<1>3. b \in Nat /\ bn \in Nat /\ bn >= b
  <2>1. NotPushed(d)' => NotPushed(d)
    BY PushedForGood
  <2>2. QED
    BY <1>1, <2>1 DEF One
<1>4. cn >= c /\ faults' >= faults
  BY <1>1, PushersGrow, PostsRest
<1>5. Credit(d) = m + b + c + f /\ Credit(d)' = m + bn + cn + fn
  BY <1>1 DEF Credit, Most, Worth
<1>6. f \in Nat /\ fn \in Nat /\ fn >= f
  <2>1. \A u, v \in Nat : u <= v => x * u \in Nat /\ x * v \in Nat /\ x * u <= x * v
    BY <1>2, Products
  <2>2. f = x * faults /\ fn = x * faults'
    BY <1>1, <1>2
  <2>3. QED
    BY <1>2, <1>4, <2>1, <2>2
<1>7. ASSUME NEW p \in Publishers, PublishEnqueue(p), d \in DeliveriesOf(p) PROVE bn >= b + 1
  <2>1. EventOf(d) = p
    BY <1>7 DEF DeliveriesOf, EventOf
  <2>2. pub[p].pc = "fanned" /\ pub'[p].pc = "pushed"
    BY <1>7 DEF PublishEnqueue, TypeOK, PubType
  <2>3. NotPushed(d) /\ ~NotPushed(d)'
    BY <2>1, <2>2 DEF NotPushed
  <2>4. QED
    BY <1>1, <2>3 DEF One
<1>8. ASSUME NEW o \in Operators, RetryEnqueue(o), op[o].d = d PROVE cn >= c + 1
  BY <1>1, <1>8, PushersGrow
<1>9. ASSUME NEW w \in Workers, WorkerAbort(w) PROVE fn = f + x
  <2>1. faults' = faults + 1
    BY <1>9 DEF WorkerAbort, Fault
  <2>2. (faults + 1) * x = faults * x + x
    BY <1>2, Products
  <2>3. QED
    BY <1>1, <2>1, <2>2
<1>10. /\ Credit(d) \in Nat /\ Credit(d)' \in Nat /\ Credit(d)' >= Credit(d)
       /\ bn >= b + 1 \/ cn >= c + 1 => Credit(d)' >= Credit(d) + 1
       /\ fn = f + x => Credit(d)' >= Credit(d) + x
  BY <1>2, <1>3, <1>4, <1>5, <1>6
<1>11. QED
  BY <1>1, <1>7, <1>8, <1>9, <1>10

\* DebtInv is kept by every step.
LEMMA DebtNext ==
  ASSUME TypeOK, TypeOK', KeyInv, DeliveryInv, BegunInv, BegunInv', FinitelyMany, DebtInv,
         [Next]_vars
  PROVE  DebtInv'
<1>1. CASE UNCHANGED vars
  <2>1. \A d \in Delivery : Debt(d)' = Debt(d) /\ Credit(d)' = Credit(d)
    <3> SUFFICES ASSUME NEW d \in Delivery PROVE Debt(d)' = Debt(d) /\ Credit(d)' = Credit(d)
      OBVIOUS
    <3>1. /\ posts' = posts /\ Cells(d)' = Cells(d) /\ Entries(d)' = Entries(d)
          /\ Holding(d)' = Holding(d) /\ NotPushed(d)' = NotPushed(d)
          /\ Pushers(d)' = Pushers(d) /\ faults' = faults
      BY <1>1 DEF vars, Cells, Most, Worth, Potential, MadeBy, Reach, Entries, Holding,
                  DrawnBy, NotPushed, Pushers
    <3>2. QED
      BY <3>1 DEF Debt, Credit, One, Most, Worth
  <2>2. QED
    BY <2>1 DEF DebtInv
<1>2. CASE Next
  <2> SUFFICES ASSUME NEW d \in Delivery PROVE Debt(d)' <= Credit(d)'
    BY DEF DebtInv
  <2>1. PICK x, y, xn, yn, z : /\ x = Debt(d) /\ y = Credit(d) /\ xn = Debt(d)' /\ yn = Credit(d)'
                               /\ z = Worth(d, 0)
    OBVIOUS
  <2>2. x \in Nat /\ y \in Nat /\ xn \in Nat /\ yn \in Nat /\ z \in Nat /\ x <= y
    BY <1>2, <2>1, DebtStep, CreditGrows, WorthShrinks DEF DebtInv
  <2>3. yn >= y /\ (xn <= x \/ (xn <= x + 1 /\ yn >= y + 1) \/ (xn <= x + z /\ yn >= y + z))
    BY <1>2, <2>1, DebtStep, CreditGrows
  <2>4. xn <= yn
    BY <2>2, <2>3
  <2>5. QED
    BY <2>1, <2>4
<1>3. QED
  BY <1>1, <1>2

\* Initially every worker may cause what a delivery is worth, and nothing else is owed.
LEMMA DebtInit == FinitelyMany /\ TypeOK /\ Init => DebtInv
<1> SUFFICES ASSUME FinitelyMany, TypeOK, Init, NEW d \in Delivery PROVE Debt(d) <= Credit(d)
  BY DEF DebtInv
<1>1. Entries(d) = 0
  <2>1. Positions(queue, d) = {}
    BY EmptySeq, LenProperties DEF Init, Positions
  <2>2. QED
    BY <2>1, FS_EmptySet DEF Entries
<1>2. Cardinality(Holding(d)) = 0
  <2>1. Holding(d) = {}
    BY DEF Init, Holding, DrawnBy, Idle
  <2>2. QED
    BY <2>1, FS_EmptySet
<1>3. One(~NotPushed(d)) = 0
  BY DEF Init, NotPushed, One, Delivery, EventOf
<1>4. Cardinality(Pushers(d)) = 0
  <2>1. Pushers(d) = {}
    BY NoneIsFresh DEF Init, Pushers, NotBegun, Delivery
  <2>2. QED
    BY <2>1, FS_EmptySet
<1>5. posts[d] = 0 /\ faults = 0
  BY DEF Init
<1>6. Worth(d, 0) \in Nat /\ Cardinality(Workers) \in Nat /\ Most(d) \in Nat
  BY WorthShrinks, WorkersCount, PotentialType DEF FinitelyMany
<1>7. Cardinality(Cells(d)) <= Most(d) /\ Cardinality(Cells(d)) \in Nat
  <2>1. \A w \in Workers : Potential(w, d) = Worth(d, 0)
    <3>1. \A w \in Workers : worker[w].pc = "idle" /\ row[d].attempt = 0
      BY DEF Init, Idle, AbsentRow
    <3>2. QED
      BY <3>1, AwayFrom
  <2>2. PICK x : x = Worth(d, 0)
    OBVIOUS
  <2>3. Cells(d) \subseteq Workers \X (1..x)
    <3> SUFFICES ASSUME NEW c \in Cells(d) PROVE c \in Workers \X (1..x)
      OBVIOUS
    <3>1. PICK w \in Workers, i \in 1..Most(d) : c = <<w, i>> /\ i <= Potential(w, d)
      BY DEF Cells
    <3>2. i \in 1..x
      BY <1>6, <2>1, <2>2, <3>1
    <3>3. QED
      BY <3>1, <3>2
  <2>4. IsFiniteSet(1..x) /\ Cardinality(1..x) = x
    BY <1>6, <2>2, FS_Interval
  <2>5. /\ IsFiniteSet(Workers \X (1..x))
        /\ Cardinality(Workers \X (1..x)) = Cardinality(Workers) * Cardinality(1..x)
    BY <2>4, FS_Product DEF FinitelyMany
  <2>6. Cardinality(Workers \X (1..x)) = Most(d)
    BY <2>2, <2>4, <2>5 DEF Most
  <2>7. QED
    BY <2>3, <2>5, <2>6, CellsCount, FS_Subset
<1>8. faults * Worth(d, 0) = 0
  BY <1>5, <1>6
<1>9. QED
  BY <1>1, <1>2, <1>3, <1>4, <1>5, <1>6, <1>7, <1>8 DEF Debt, Credit

\* The POSTs that several workers send of an event to an endpoint: what one id is worth to
\* every worker and anew after every fault, one for the id the fan-out pushes and one for
\* each retry request.
PostsWithin ==
  \A d \in Delivery :
    posts[d] <= (Cardinality(Workers) + faults) * Worth(d, 0) + 1
                  + Cardinality({o \in Operators : op[o].d = d})

\* However many workers take ids from the queue, post one delivery at the same time and save
\* its attempts over each other's, an endpoint receives no more than PostsWithin of an event:
\* a lost attempt is posted again, and the losses cannot repeat for ever.
THEOREM PostsStayBounded ==
  ASSUME IsFiniteSet(Workers), Workers # {}
  PROVE  Spec => []PostsWithin
<1>0. FinitelyMany
  BY DEF FinitelyMany
<1>1. TypeOK /\ BegunInv /\ DebtInv => PostsWithin
  <2> SUFFICES ASSUME TypeOK, BegunInv, DebtInv, NEW d \in Delivery
               PROVE  posts[d] <= (Cardinality(Workers) + faults) * Worth(d, 0) + 1
                                    + Cardinality({o \in Operators : op[o].d = d})
    BY DEF PostsWithin
  <2>1. PICK p, c, e, h, m, b, s, n, f, x, k :
          /\ p = posts[d] /\ c = Cardinality(Cells(d)) /\ e = Entries(d)
          /\ h = Cardinality(Holding(d)) /\ m = Most(d) /\ b = One(~NotPushed(d))
          /\ s = Cardinality(Pushers(d)) /\ n = Cardinality({o \in Operators : op[o].d = d})
          /\ f = faults * Worth(d, 0) /\ x = Worth(d, 0) /\ k = Cardinality(Workers)
    OBVIOUS
  <2>2. /\ p \in Nat /\ c \in Nat /\ e \in Nat /\ h \in Nat /\ m \in Nat /\ s \in Nat
        /\ n \in Nat /\ s <= n /\ x \in Nat /\ k \in Nat /\ faults \in Nat
    BY <1>0, <2>1, CountsType, CellsCount, HoldingCount, PotentialType, PushersFinite,
       WorthShrinks, WorkersCount DEF FinitelyMany
  <2>3. b \in {0, 1}
    BY <2>1 DEF One
  <2>4. p + c + e + h <= m + b + s + f
    BY <2>1 DEF DebtInv, Debt, Credit
  <2>5. f \in Nat
    <3>1. faults * x \in Nat
      BY <2>2, Products
    <3>2. QED
      BY <2>1, <3>1
  <2>6. (k + faults) * x = m + f
    <3>1. (k + faults) * x = k * x + faults * x
      BY <2>2
    <3>2. QED
      BY <2>1, <3>1 DEF Most
  <2>7. p <= (m + f) + 1 + n
    BY <2>2, <2>3, <2>4, <2>5
  <2>8. QED
    BY <2>1, <2>6, <2>7
<1>2. TypeOK /\ Init => DebtInv
  BY <1>0, DebtInit
<1>3. TypeOK /\ TypeOK' /\ KeyInv /\ DeliveryInv /\ BegunInv /\ BegunInv' /\ DebtInv
        /\ [Next]_vars => DebtInv'
  BY <1>0, DebtNext
<1>4. QED
  BY <1>1, <1>2, <1>3, TypeCorrect, KeyInvariant, DeliveryInvariant, BegunInvariant, PTL
     DEF Spec
=============================================================================
