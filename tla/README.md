# Verification of sso-webhook-service

TLA+ models of the service in `src/`, TLC configurations that check them on small
instances, and TLAPS proofs. Paths below are relative to `src/`.

## 1. The system

One FastAPI process (possibly several) and one dispatch worker (possibly several) share a
PostgreSQL database and a Redis. An HTTP request has one database session: `get_session`
(`app/core/db.py:12`) commits it when the handler returns and rolls it back when anything
raises; with the pinned FastAPI the reply is sent after the commit. Everything between two
`await`s is atomic in a process, nothing else is. PostgreSQL runs at its default, READ
COMMITTED, and no query takes `FOR UPDATE`: a request reads committed rows, keeps them in
memory, and its UPDATE lands on whatever the row is by then. Redis commands take effect at
once and are not part of the transaction.

| Component | State | Operations | Talks to | What makes it correct |
| :-- | :-- | :-- | :-- | :-- |
| Webhook publishing (`app/services/webhook_service.py`, `app/api/webhooks.py`) | `webhook_endpoints`, `webhook_events`, new `webhook_deliveries` | create endpoint, publish event (look up the idempotency key, insert, fan out, enqueue, commit) | pushes on `webhook:queue` | one event per key, replies that agree, a fan-out that is atomic with its event |
| Dispatch worker (`app/workers/dispatch_worker.py`) | its memory, `webhook_deliveries` | pop, load row, load endpoint, POST, requeue, save | pops from and pushes on `webhook:queue`, POSTs to subscribers | a recorded outcome is true; bounded POSTs; a pending delivery is still queued somewhere |
| Manual retry (`app/api/webhooks.py:132`) | `webhook_deliveries` | load, flush, enqueue, commit | races the workers on the row and the queue | a delivery that succeeded is not reopened; a reopened one is served |
| Refresh tokens (`app/services/auth_service.py:84-168`) | `refresh_tokens`, `blacklist:refresh:{jti}` | login, refresh (rotation), logout | row and blacklist say the same thing twice | a revoked token stays refused; rotation chains are sound; row and blacklist agree |
| Password reset (`app/services/auth_service.py:195-285`) | `password_reset_tokens`, `users.password_hash` | request, confirm | the two race on the token rows | a used token is refused, a token is not spent for nothing |
| Rate limiter (`app/core/ratelimit.py`) | `ratelimit:{scope}:{ip}` | INCR, EXPIRE, decide | before login, register, token, reset | bounded admission, a block that ends |
| Accounts (`app/services/auth_service.py:54-81`), seeds (`app/core/seed.py`) | `users`, `service_clients` | register, authenticate, seed client and administrator | race each other on the unique names | one account per name; what a seed was told to create is there when it has finished |
| M2M tokens (`app/services/auth_service.py:171`) | none | look the client up, refuse or sign | | refused for an unknown or inactive client |
| Audit log (`app/services/auth_service.py:32`) | `audit_logs` | a row in the request's session, or in a session of its own for a refusal | takes a second pooled connection | it tells the truth about what was committed |
| Access tokens and authorization (`app/core/deps.py`) | none | decode, blacklist, active user or client | reads what the others write | out for whoever was deactivated |
| Connection pool (`app/core/db.py:8`) | its connections | lend, take back, time out | every request with a database session | waits end |
| Health, settings, schemas, migrations | | | | see section 8 |

The hard behaviours: reads before an `await` used after it (every request and the worker), a
queue written before the transaction it belongs to commits, a queue entry that exists only in a
worker's memory, a Redis key that survives a rollback, two Redis commands that should have been
one, requests waiting for row locks, for the unique index and for pooled connections that other
waiting requests hold. `PROJECT.json` lists each of them
at its line ("hazards") with the properties that cover it.

## 2. Modules

| Module | Models | Built on |
| :-- | :-- | :-- |
| `WebhookDispatch` | publish requests, dispatch workers and manual retries around one queue | |
| `EventDelivery` | abstract specification: what the pipeline promises a subscriber | |
| `WebhookDispatchContract` | the refinement mapping from the first to the second | `WebhookDispatch`, `INSTANCE EventDelivery` |
| `WebhookDispatchProofs` | theorems: types, idempotency, true rows | `WebhookDispatch`, TLAPS |
| `WebhookQueueProofs` | theorem: a pending delivery is stranded only by a lost entry | `WebhookDispatchProofs` |
| `WebhookWorkerProofs` | theorems: what one worker adds (`AttemptsNeverShrink`, `PostsAreBounded`), and the bound on POSTs of several | `WebhookQueueProofs` |
| `WebhookContractProofs` | theorem: the refinement, with its one exception | `WebhookDispatchContract`, `WebhookWorkerProofs` |
| `Sessions` | login, refresh, logout, blacklist, calls with an access token | |
| `PasswordReset` | reset and confirm requests | |
| `Accounts` | register, login, client token, reset, confirm and endpoint creation as users of the pool, the accounts and the audit log; the seeds | |
| `RateLimiter` | one fixed-window counter | |
| `SessionsProofs`, `PasswordResetProofs`, `AccountsProofs`, `RateLimiterProofs` | theorems | the module they name, TLAPS |
| `MC*` | model values and symmetry for TLC | the module they name |

Actions are named after the code's operations and marked with the request or worker that takes
them. In `WebhookDispatch`, `publish_event` is `PublishLookup`, `PublishInsert`,
`PublishFanOut`, `PublishEnqueue`, `PublishCommit`; `retry_delivery` is `RetryLoad`,
`RetryFlush`, `RetryEnqueue`, `RetryCommit`; the worker is `WorkerPop`, `WorkerLoad`,
`WorkerReadEndpoint`, `WorkerPost`, `WorkerRequeue`, `WorkerSave`. Each is the code from one
`await` that reads or writes shared state to the next. In `Accounts` a request of any kind is
`Begin` (asks for a connection), `Lookup` (the SELECT and the decision), then `Write` and
`Commit`, or `AuditOpen`, `AuditCommit` and `Refuse`; `Kinds` names the routes, which differ in
what they look for (`Accepts`) and write (`Violates`, `Inserted`). The three modules of
`auth_service.py` are separate because their state is: `Accounts` keeps names, connections and
the audit trail, `Sessions` tokens, `PasswordReset` reset tokens and passwords. A kind they
share (login, reset, confirm) is in `Accounts` what it does to connections and the audit log,
and in the other module what it does to its own tables. `row`, `events`, `endpoint`, `token` and
`password` are committed tables; what an open transaction has read or written is in the record
of its request (`pub`, `op`, `worker`, `req`) until it commits.

Points where the models follow the code closely because properties depend on it:

- *Partial writes.* The ORM writes only columns whose value differs from the loaded one.
  `Dirty` and `Updated` compute that; a retry of a row it loaded as pending writes nothing, and
  a worker that confirms a status leaves a concurrent change of it standing.
- *Locks.* A flushed UPDATE holds the row's lock until commit or rollback (`Locked`); an insert
  of a duplicate key waits for the open transaction that has it and then fails (`Inserting`).
  `process_delivery` flushes and commits at once, so a worker waits for locks but holds none.
  Rows of one flush are locked in primary key order, so one step stands for all of them.
- *Autoflush.* In `confirm_password_reset` the SELECT of the user sends the token's UPDATE
  first: `ConfirmFlush` comes before `ConfirmUpdate`.
- *Failed POSTs.* A failure may hide that the endpoint processed the event; `accepted` records
  what the endpoint did, `row` what the service knows.
- *Pool.* A request holds a connection from its first SELECT to its commit or rollback. A
  refused one asks for a second before it lets the first go (`AuditOpen`); `PoolTimeout` is
  what ends that wait. Refused refreshes, logouts and access tokens write no audit row.
- *Foreign key.* `_principal_user_id` gives a machine client the owner `client:{id}`, which is no
  `users.id`: `Violates`.
- *Access tokens.* They are stored nowhere; one is issued with each refresh token, so its expiry
  is derived from that row (`AccessExpires`).
- *Expiry.* `expires_at` is computed before the flush that may wait for a row lock
  (`RefreshBlacklist` and `RequestIssue` fix it, `RefreshFlush` and `RequestFlush` wait).
- *Seeds.* The environment may name the client, the administrator, both or neither (`plan`);
  what it does not name is skipped and the seed ends normally, and a short password ends it with
  an error before the administrator (`SeedAdmin`).
- *Blacklist.* `setex` uses a whole lifetime from now, not what remains of the token
  (`app/services/auth_service.py:137,164`; `README.en.md:295` says the latter).
  `BlacklistCoversRevoked` is what either choice must guarantee.

Data is abstracted to what the properties tell apart: payloads, addresses, HMACs, hashes and
JWTs are absent; a JWT is its jti and expiry, a timestamp `next_retry_at` is none, in the future
or past. Environment actions are `DeactivateEndpoint` and `DeactivateUser` (no route does it, an
administrator may), the clock, and Redis losing its keys.

History variables (`posts`, `accepted`, `lost`, `dead`, `signedOut`, `orphaned`, `redisLost`, `changes`,
`seen`, `recent`, `created`) are only written by the actions and read by properties.

Definitions whose comment says *Mutant* are deliberate bugs. The specifications do not use them;
`PROJECT.json` says which definition each replaces and which property then fails.

## 3. Runs

| Run | Bounds | Shows |
| :-- | :-- | :-- |
| `dispatch_publish` | 2 publishers, 2 keys, 2 types, 2 endpoints with different limits, 1 worker, 1 fault; 1.5M states | `OneEventPerKey`, `SameKeySameReply`, `PublishersMove`, `FanOutIsAtomic`, `NoPhantomPost` |
| `dispatch_concurrent` | 1 delivery, 2 workers, 2 retries, 2 attempts, 1 fault; 1.4M states | `TypeOK`, `SuccessMeansAccepted`, `DlqMeansExhausted`, `AttemptsWereMade`, `StrandedOnlyByLoss` |
| `dispatch_single` | 1 delivery, 1 worker, 2 retries, 2 attempts, 1 fault; 185k states | `PostsAreBounded`, `AttemptsNeverShrink`, refinement `ImplementsContract`, liveness `EventuallySettled`, `WorkEnds`, `RequestsAnswered` |
| `sessions` | 1 user, 3 tokens, 3 requests, lifetime 2, access lifetime 1, clock to 2, 1 fault; 1.7M states | `TypeOK`, `RevokedTokenIsRefused`, `DeactivatedUserIsOut`, `PredecessorIsRevoked`, `BlacklistCoversRevoked`, `OnlyFailuresOrphan`, `SomeoneMoves` |
| `passwordreset` | 2 users, 3 tokens, 4 requests, lifetime 2, clock to 3, 1 fault; 75k states | `TypeOK`, `UsedTokenIsRefused`, `SpentForAReason`, `OlderTokensAreSpent` |
| `accounts` | 1 address (the administrator's), 1 client, 3 requests of any kind, 1 seed, pool of 2, 1 fault; 499k states | `TypeOK`, `OneAccountPerName`, `RefusalsAreAudited`, `AuditIsTrue`, `OnlyRefusalsStall`, `SeededForGood`, liveness `RequestsEnd` |
| `ratelimit` | 3 requests, limit 2, window 3, counter to 4, 2 faults; 4.5k states | `TypeOK`, `TwoWindowsAtMost`, `WindowIsFixed`, liveness `BlockEndsWithoutFaults` |

Five further runs check a sentence of the documentation or of the code that the program does
not keep; TLC finds the counterexample.

| Run | Sentence | What the code does |
| :-- | :-- | :-- |
| `dispatch_silent_loss` | "No event is ever silently lost" (`README.en.md:42`) | ids are pushed before the rows commit; a worker that is faster finds no row and drops the id, with no fault involved |
| `sessions_signout` | "Signing out in one place signs out everywhere" (`README.en.md:79`), "without waiting for it to expire" (`:106-107`) | a logout ends the refresh token only; nothing writes `blacklist:access:{jti}` |
| `sessions_rotation` | "the old one becomes invalid" (`README.en.md:61`) | two overlapping refreshes of one token both succeed |
| `passwordreset_reuse` | "Single-use reset tokens" (`README.en.md:222`) | two overlapping confirmations with one token both set the password |
| `ratelimit_stuck` | "fail-open (no bloquea)" (`ratelimit.py:1`) | a failure between INCR and EXPIRE leaves a counter that never expires |

Why the bounds are enough. Deliveries share only the queue and their event, so two events with
two endpoints show every interaction of publish requests, and one delivery with two workers and
two retries shows every race on a row: a stale write needs one reader and one writer in between,
a requeue race two workers. Publish requests that wait for each other's insert are in
`dispatch_publish`, retries that wait for each other's row and overtake each other, with the one
worker that is deployed, in `dispatch_single`. Two attempts separate first, middle and last attempt. A lost update
of a token needs two requests; a chain of rotations needs a third token, which two requests
issue, and a third request calls the API or logs out meanwhile. Two refusals fill a pool of two
and the third request waits outside; one address is enough, because rows of different addresses
meet only in the pool, and it is the one the seed wants, so a registration, a second
registration and the seed race for it. Rate limiting needs the request that opens a window, one that counts before EXPIRE and
one over the limit. Fault bounds of 1 or 2 allow a failure at any step; `dispatch_single` gives
PostsAreBounded one POST per fault and would notice two. `JtiLeft` (Sessions) keeps a request
from starting when the bounded set of jtis could not supply its new token: jtis are unbounded in
the code. `MaxCount` stops the counter, which in the code only goes on counting refusals.

Symmetry is used in the runs that check invariants only, on sets whose members the models treat
alike. Every run but the limiter's has `CHECK_DEADLOCK FALSE`, because requests are finite: when
all are answered the system rests. That no request waits for ever is checked as liveness or, in
`sessions` and `dispatch_publish`, as an invariant: some request under way always has a step
(`SomeoneMoves`, `PublishersMove`).

## 4. Fairness

`WF` on each step of a running request (`PubStep`, `OpStep`, `Step` of `Accounts`, `Expire`): its coroutine is
resumed by the event loop, and a lock or index entry it waits for is released by a transaction
that itself goes on. `WF` on `WorkerStep`: `run_forever` loops on `blpop`. Nothing is assumed
about requests arriving (`PubStep` only once begun, `RetryLoad`, `Begin`), endpoints
being created, POSTs succeeding, or faults. In `Accounts` a request's `WF` includes `PoolTimeout`: a wait for a
connection ends with one or with the pool's timeout. `Sessions` and `PasswordReset` state no
liveness and no fairness. `RateLimiter` adds `WF` on `Tick`, as time passes.
Weak fairness is enough: once a step of a process is enabled, only another transaction's lock
can disable it, and the finitely many requests of a behaviour take finitely many locks.

## 5. What holds, and with which reservations

- Publishing is idempotent through the unique index, whatever the lookup saw. The price is that
  the loser of a race gets an unhandled IntegrityError instead of the existing event.
- A recorded success or dead letter is true under any number of concurrent writers. It is not
  final: with two workers it can be overwritten by pending or dlq, and with two overlapping
  retries of one delivery by pending: both select the dead letter, the first commits, the worker
  delivers, and the second then writes pending over the success (`app/api/webhooks.py:145-151`),
  although "Already delivered" (`:146`) is what it should answer; the event is posted again.
  `ImplementsContract` says that with one worker nothing else undoes a success, and is proved;
  without its exception `SuccessUndone` TLC finds this trace in `dispatch_single`.
- There is no back-off: the comment "Requeue with delay" (`app/workers/dispatch_worker.py:74`) and
  "waits of 2s, 4s, ..." (`README.en.md:41`) notwithstanding, a failed delivery goes back on
  `webhook:queue` at once (`dispatch_worker.py:79`), and nothing reads the `next_retry_at` that is
  recorded.
- With several workers an endpoint can receive more than `max_attempts` POSTs of an event without
  any fault: workers that load a row before either saves write the same counter, or an older one
  over a newer one, and a lost attempt is made again. The excess is bounded
  (`PostsStayBounded`): attempts cannot be lost for ever.
- A delivery is stranded (pending, on no queue, in no worker) only when an entry of it was
  dropped: rpush failed, a worker died, or it read the row too early. The last needs no fault
  (`dispatch_silent_loss`) and also happens after a manual retry: a worker that takes the id
  before the retry commits may settle from the old row. A retry repairs the delivery.
- A refused or failed refresh never leaves two valid tokens, but a failed one may leave its
  token blacklisted and unrotated (`OnlyFailuresOrphan`): the client has to log in again.
- The refresh token's row alone refuses a revoked token, so losing Redis reopens nothing.
- The limiter admits up to twice the limit in a span of one window's length, the usual price of
  fixed windows; a request counted before EXPIRE lengthens its window and does not shorten it.
- Overlapping reset requests of one user leave both tokens live (they do not see each other);
  every token a request could see is superseded by the one it issues (`OlderTokensAreSpent`).
- A logout ends the refresh token at once and leaves the access token to its own expiry
  (`sessions_signout`): nothing writes `blacklist:access:{jti}`, and other sessions of the user
  go on. A logout of a revoked token is not refused, it only writes the key again. A password
  reset revokes no session. Deactivating a user takes effect at once.
- A refresh that overlaps a logout of the same token may leave a successor that is still valid.
- Addresses and client ids are unique through the index alone. The loser of a registration race
  gets an unhandled IntegrityError, not the 409 of `register`.
- The audit trail is true for `register`, `login`, `token` and password reset: no success
  without its effect, no refusal answered without its row. A request that fails, by a lost race
  or a timeout of the pool, leaves none.
- Refused requests can fill the pool, each of them waiting for a second connection; that is
  the only circle of waits (`OnlyRefusalsStall`, `OnlyRefusalsWait`). It lasts until the pool's timeout, 30 s by
  default, and those requests then end as errors, unaudited.
- A seed that finishes leaves what its environment told it to create, the client, the
  administrator, both or neither, whoever registered the address first; a promoted user keeps
  the password of the registration. A seed may fail with an IntegrityError or because of a short
  password, perhaps with the client already there, and has to be run again.
- A machine client is let in and may create no endpoint (`client:{id}` is in no row of `users`:
  the foreign key fails with an IntegrityError nobody catches) and publish no event (a 403,
  `app/api/webhooks.py:91`), although the seed gives it the scope `webhooks:publish`
  (`app/core/seed.py:19`) and `README.en.md:81` says that its flow "lets a backend call the API
  with no human user behind it". This is read from the code; no run is needed to see it.

## 6. Proofs

The theorems hold for every value of the constants that the models' `ASSUME`s allow: any sets of
requests, workers, endpoints, tokens and names, any limits and any number of faults; a theorem that needs more says so (`OneWorker`, finitely
many workers or tokens). The runs of section 3 evaluate these assumptions. Every safety invariant, action property and refinement of
the passing runs is a theorem except three that contain ENABLED (below).

### The pipeline (`WebhookDispatchProofs` and the three modules on top of it)

1. `TypeCorrect` by induction, one step per action.
2. `KeyInv`: every committed event has a finished request with its key, no request past its
   insert shares a key with a committed event or with another open insert, and a reply names a
   committed event of the request's key. `OneEventPerKey` alone is not inductive: it is
   `PublishInsert` that must not start while another insert of the key is open. `OneEventPerKey`
   and `SameKeySameReply` follow.
3. `DeliveryInv` joins five parts. `TrueRow`: what a committed row claims is true (a success was
   accepted, a dlq exhausted, `attempt <= posts`). `WorkerInv` and `OpInv` say the same of what
   workers and retry requests hold in memory: the row they loaded was true, and so is the write
   they will make. `PublishedRow` and `IdsInv` tie rows to events and fan-outs. The point that
   makes it inductive is monotonicity (lemma `GrowsStep`): POSTs, accepted deliveries and
   inactive endpoints only grow, so a claim that was true when read is true when written, and
   merging any two true claims column by column (`RowWritten`) gives a true row. Hence
   `SuccessMeansAccepted`, `DlqMeansExhausted`, `AttemptsWereMade`, `FanOutIsAtomic` and
   `NoPhantomPost` hold without any lock on the row.
4. `WebhookQueueProofs`: `StrandedOnlyByLoss` for any number of workers and retry requests. An id
   may be pushed before its row commits and popped before it is visible, so the property has to
   be strengthened by who may still bring the id back: `QueueInv` says a pending row has an id
   that is still to be read (`Fresh`: on the queue, popped by a worker that has not loaded the
   row, or dropped before) or a worker that serves it, and that an id pushed by an open
   transaction is still to be read when that commits.
5. `WebhookWorkerProofs` adds the hypothesis `OneWorker`. `CurrentInv` (what the worker loaded is
   the row's counter until it saves) gives `AttemptsNeverShrink`. `PostsAreBounded` is a budget:
   `PostsInv` says that POSTs sent, attempts left, ids on the queue and the one in the worker's
   hands (`Spent`) never exceed what the fan-out, the retry requests and the faults have paid for
   (`Allowed`). Each action moves an item from one account to another; lemmas count the ids in
   the queue across a push and a pop.
6. `WebhookContractProofs` proves `ImplementsContract` from `OneWorker`, for any number of retry
   requests. `EntryInv`: until a retry pushes it, an id is on the queue or at the worker at most
   once, and nowhere once its delivery is settled. `ReopenInv`: a retry that found a dead letter
   and is the only one of its delivery still has one when it commits. Every step of the pipeline
   then maps to one step of `EventDelivery` or to none, but for `SuccessUndone`: a retry that found
   a dead letter commits after another retry of the same delivery has led to its success
   (`Overtaken`). `PostMaps`, `CommitMaps`, `SaveMaps` and `RetryMaps` are the four that do not
   stutter, beside the closing of endpoints. The exception is what the code does, not what the
   proof misses: two retries and one worker do it (section 5). With one retry request it is vacuous, and
   the theorem is the refinement itself.
7. `PostsStayBounded` (in `WebhookWorkerProofs`) drops `OneWorker` for any finite, non-empty set
   of workers: an endpoint receives at most
   `(Cardinality(Workers) + faults) * Worth(d, 0) + 1` POSTs of an event and one more for each
   retry request. `Worth(d, v)` is what one id may cause when the row counts `v` attempts: nothing
   at the limit, and below it the POST and then, for every worker, `Worth(d, v + 1)`. The row's
   counter may go back, so no budget in its terms is inductive. `DebtInv` gives each worker a
   potential instead: what it may still cause, judged by the lower of the counter it loaded and
   the counter of the row, and, once it has an outcome to save, what *every* worker may do after
   that save. A save that sets the row back is then paid for by the worker that makes it
   (`SavePays`), and a POST by the potential of the attempt it makes (`PostPays`); a worker that
   dies releases its ids at the price of one fault. The sum over the workers is the size of a set
   of cells, one column per worker (`Cells`, `ColumnSwap`), so it needs no recursion over sets.
   `Worth` is a recursive function; that it exists and grows is proved from the
   well-foundedness of `<` (`LeastNumber`, `UpTo`). The bound is not tight: explored with TLC
   (not one of the listed runs), `dispatch_concurrent` without faults and retries reaches 3, 6 and
   10 POSTs for limits of 2, 3 and 4.

`OneWorker` (any two workers are the same) is the deployment of `docker-compose.yml`, one
`worker` container that runs `python -m app.workers.dispatch_worker`; the run `dispatch_single`
satisfies it. It is needed: two workers that load a row before either saves write the same
counter, or an older one over a newer one, so `AttemptsNeverShrink` and `PostsAreBounded` fail.
For several workers item 7 says what is left of the second.
Items 1 to 4 and 7 are free of it.

### The other models

- `SessionsProofs`. `RefusalInv` says what a request has read that can no longer change: a
  rotation that came late (`late`) has not got past the check of the row, which alone refuses it;
  what a logout without an UPDATE found revoked stays so. `RowFits` bounds a row's expiry by its blacklist key, as long as Redis
  keeps its keys; it carries `BlacklistCoversRevoked` and `PredecessorIsRevoked`.
  `KeysAreAccountedFor` strengthens `OnlyFailuresOrphan` from unexpired keys to all keys, because
  a key's expiry depends on the clock and its owner does not. `RowsLast` (an action
  property, `RowsLastAlways`): no step deletes, revives or reassigns a row.
  `OnlyLocksWait` is what `SomeoneMoves` says with `MayStep`, the guards of `Step` written out, in
  place of ENABLED (`StepsMayStep`: none is overlooked), and says more: a request that may not
  step waits for a row lock, and the request that holds it may step. It needs finitely many
  tokens, the jtis still to be issued being counted: `JtisSuffice` says that the rotations under
  way that have no jti yet are no more than the jtis left, which is what the bound `JtiLeft` on
  new requests is for.
- `PasswordResetProofs`. `UseInv`: a request for a token marks every live token it saw, so none of
  them is live once it has committed; a token that changed a password is used for good, so a late confirmation is
  denied at its lookup. The locks are not needed: marking a token twice is harmless.
- `AccountsProofs`. Type correctness includes the pool: `Free` stays in `0..PoolSize`, by counting
  the requests that hold one and two connections. `AccountInv`: an insert that is flushed is the
  only one of its name and finds it absent (`OneWriter`, `Fits`), the audit row and the progress
  of a request determine each other (`AuditFits`), and a seed that was told both has the client
  before it turns to the administrator; with the roles never taken back (`AccountsLast`),
  `SeededForGood` follows for whatever the seed was told. `OnlyRefusalsWait` is `OnlyRefusalsStall` with `MayStep`, the guard of `Step`
  written out, in place of ENABLED; `StepsMayStep` shows that `MayStep`
  overlooks no step; the converse, that a step exists where `MayStep` holds, needs ENABLED.
  `EveryStepGoesOn` ranks the actors by the steps they may still take (`StepsLeft`, nine before the
  first): every step of the model is one actor's and lowers its rank, so none goes round in
  circles. It is the part of `RequestsEnd` that needs no fairness.
- `RateLimiterProofs`. `TwoWindowsAtMost` needs two sums at once (`BudgetFits`): what the last
  window's length admitted, what the counter still admits and the requests between INCR and
  EXPIRE fit in two limits, and since the last EXPIRE in one; each fault adds one. Without a TTL
  there is one request to set it, or a fault has left one behind (`OpenersFit`). The sum over
  the ticks is a recursive function; that it exists, is monotone and shifts with a tick
  is proved from the well-foundedness of `<` by looking at the least tick where it would fail.
  `WindowIsFixed` follows from `OneOpener`: without faults one request at most is between INCR and
  EXPIRE, and the key has no TTL meanwhile. `BlocksRunOut` is the part of
  `BlockEndsWithoutFaults` that needs no fairness: without faults a counter without a TTL has a
  request about to set it, and a window with a TTL only runs down, its count ending with it.

### Only model-checked

- Liveness: `EventuallySettled`, `WorkEnds`, `RequestsAnswered`, `RequestsEnd`,
  `BlockEndsWithoutFaults`. The prover does not reason about fairness. `EveryStepGoesOn` and
  `BlocksRunOut` are the facts about steps that the last two rest on; a rank for the pipeline
  would have to count what `DebtInv` counts.
- `PublishersMove`, `SomeoneMoves` and `OnlyRefusalsStall`, as far as they say ENABLED: the prover
  does not expand it. `OnlyLocksWait` and `OnlyRefusalsWait` are the proved counterparts of the
  last two.

## 7. Plan

Done: the five models, and the proofs of section 6. Next:

1. A tight bound for several workers: the numbers of item 7 suggest one that is polynomial in the
   limit, where `Worth` is exponential.
2. The rank behind `WorkEnds`: with finitely many retry requests and faults, `DebtInv` bounds the
   POSTs, so the steps of the workers are bounded too.

## 8. Not modelled

- Health probes, `GET` listings, `require_role` (no route uses it), `log_audit_event` of
  `audit_service.py` (nothing calls it): read-only or dead.
- The audit rows of refresh, logout and the webhook routes: part of the transaction they
  describe and read by nothing.
- The duration of the back-off (`dispatcher.py`): nothing reads `next_retry_at`, so its length
  has no effect on the service; the model keeps whether it has passed.
- HMAC, password hashing, JWT signatures: cryptography, assumed to work.
- Schemas, settings, migrations, Docker files: no interaction of their own; their limits appear
  as assumptions on constants (`max_attempts >= 1`, a limit of at least one request) and the
  tables the migrations create as initial states.
