# Verification of the NestJS API boilerplate

TLA+ models of the service under `src/src`, the TLC runs that check them on
small instances, and TLAPS proofs about its saga engine, outbox, broker, quorum
lock and eight of its services. Source paths below are relative to `src/src`.

## 1. The system and its parts

The repository is one NestJS application: an HTTP API over PostgreSQL, Redis,
Kafka and some outside services, each of which has an in-memory stand-in. The
parts interact along these lines:

* a command writes rows and stages events in one transaction (`outbox/`); the
  relay moves the events to the in-process bus or the broker, whose consumers
  retry and dead-letter (`messaging/`), and from there to the event stream, the
  gateway and the email queue;
* placing an order starts a saga (`saga/`), whose steps call inventory, payment
  and shipping (`orders/`, `payments/`), the payment through the resilient HTTP
  client (`common/http/`);
* tenancy, idempotency keys, `If-Match`, refresh tokens and locks guard requests
  on their way in; field encryption and the audit chain apply to what they write;
* configuration decides at start-up which adapter stands behind each port.

`PROJECT.json` lists every component with its files, its modules and what is left
out of it, and every hazard with the line where it bites.

## 2. Modules

One module per component. A module's variables are the rows, keys and in-memory
fields of the code plus, per call in flight, the locals that live across an
await. An action is one stretch of code from await to await (Node runs such a
stretch without interruption), or one database, Redis or file statement. Names
follow the source. Data is abstracted to what the properties tell apart: a
payload is a value, a hash or cipher an injective term; text is modelled by its
characters only where a conversion is the subject.

Processes that survive faults:

| module | source | state and steps |
|---|---|---|
| `SagaOrchestrator` | `saga/` | rows with lease, one pass per runner, the step in flight; `start`, `advance`, `runOnce` claim, `drive`, `BeginCall`, `StepReturns`, `save` are the loop, `LeaseLost`, `SaveThrows`, `abandon`, `Crash` its exits. Wall clocks of several hosts are compared, so a lease may lapse and a retry fall due at any time |
| `SagaProtocol` | the promise of `saga/saga-definition.ts` and `drive` | one sequential process: forward, retry, walk back, end |
| `Checkout` | `orders/checkout.saga.ts`, `orders/services/` | order row, stock, payments, parcel, staged events; each saga call split at its awaits, with calls that outlive their time-out |
| `Outbox`, `OutboxStore` | `outbox/` | rows, staging transactions, relays whose drain is a transaction with row locks that may commit, abort or outlive its time-out; `OutboxStore` is the contract: claim, then one disposition per claimed row |
| `MessageBroker` | `messaging/in-memory-broker.ts`, consumer, ladder, dead letters | partition logs, group commits, positions, the wake-up flag of `idle`/`notify`, handlers in flight |
| `KafkaBroker` | `messaging/kafka-broker.service.ts` | the adapter over kafkajs (external): handler with time-out, seek, pause, disconnect |
| `Announcements` | `events/`, `cqrs/`, `outbox/domain-event-bus.publisher.ts`, `queue/`, `notifications/` | relay attempt, subscribers that run side by side, the CQRS bridge, the email job; channels and fall-back |
| `Tenancy` | `tenancy/`, `common/prisma/` | requests, pooled connections with a transaction-local setting, row policies, boot check, relay, saga poller |

Requests that race:

| module | source | state and steps |
|---|---|---|
| `Redlock` | `common/locking/redlock.service.ts` | per node key, expiry and fence; rounds whose commands are answered, fail, time out, or time out and still run |
| `LockSession` | `common/locking/` | `withLock`, its renewal loop and the operation over both locks, the quorum lock and the one in a Map |
| `Idempotency` | `common/idempotency/` | the entry per key; requests between `SET NX`, `GET`, handler, `complete`, `release` |
| `RefreshTokens`, `TokenStore` | `auth/prisma-refresh-token.store.ts` | tokens, families, row locks, the statements of `consume()` and `issue`; `TokenStore` is the contract, one atomic claim per refresh |
| `Accounts` | `auth/auth.service.ts` | registration, password and Google sign-in between look-up and insert |
| `Users` | `users/`, `common/cache/` | one row with its version, the cached representation, conditional writes |
| `AuditLog` | `audit/` | committed entries, the advisory lock, transactions, the paging verifier |
| `ResilientHttp` | `common/http/`, `common/bulkhead/` | permits and queue, ladder, deadline and timers against a clock, breaker (external) |
| `EventStream`, `Realtime` | `streaming/`, `realtime/` | ring, cursors and wires; registry, rooms and the back-pressure state of each socket |
| `FieldEncryption`, `Mtls` | `crypto/`, `common/mtls/` | the data-key cache under callers and background mints; three files replaced under a reload, dispatchers rebuilt under calls, and which peer a certificate admits |
| `Aspects`, `WorkerPool` | `common/aspects/`, `workers/` | callers of one woven method in two processes; jobs and slots |
| `Payments`, `S3Store`, `LocalDisk`, `ObjectStore` | `payments/providers/`, `storage/adapters/` | calls whose answers are lost and which are made again; every file operation of the disk adapter a step; `ObjectStore` is the contract and the in-memory adapter |
| `Telemetry`, `DiScopes` | `telemetry/`, `di-scopes/` | trace carriers from request to consumer; the scope audit and contexts |

Stand-ins and algorithms:

| module | source | compared with |
|---|---|---|
| `StandIns` | both adapters of the saga, idempotency and users ports, `common/pagination/` | each other, answer by answer; a walk through the pages with the users who stayed |
| `Topics` | `schema-registry/`, `messaging/domain-event-codec.ts`, `messaging/dead-letter*.ts` | what validation accepts of what any version encodes; the record that failed |
| `Configuration` | `config/env.schema.ts`, the shapes it spreads, the readers and factories | what the started parts need |
| `LogPipeline` | `logging/` | the secrets and fields that may not appear in a message or a value |
| `Values` | `orders/basket.ts`, `payments/money.ts`, refund rules, `common/immutable/` | the sums in minor units; a heap of frozen records |
| `Texts` | `common/concurrency/`, `common/aspects/cache-key.ts`, `audit/audit-hash.ts`, `common/idempotency/idempotency-key.ts`, `storage/object-key.ts` | a reader of the text: the RFC's tag grammar, equality of the values a text stands for, path resolution on disk |

`Configuration` lists every variable of the schema with the kind of value it takes
and its default, and replays the order of start-up: what the schema refuses, what is
read before it (the readers that look at the process's environment directly), what a
factory refuses afterwards, and which of the parts run. An environment is the default
one with a few variables set; the sets of variables that rules relate are varied
together, and texts are samples of the forms a rule tells apart. One bound is scaled:
a data key's largest number of uses.

The `MC*.cfg` files give constants their values; a value that is not a literal is
defined at the end of the component's module. The modules named `...Proofs` hold the
proofs (section 7). The modules `MCServices` (nine
components) and `MCPlatform` (twenty-four) check components that share no state in one run:
`Init` picks which one a behaviour is of, and the variables `v1`, `v2`, ... stand
for that component's variables in the order its module declares them. A suite's
property is the conjunction of what the component modules define, each guarded
by `which`.

## 3. Runs

| run | instance | shows |
|---|---|---|
| `saga_one` | 1 instance, 3 lease tokens, 3 steps, one of each kind, 2 attempts, 2 faults | the engine's invariants and its refinement of `SagaProtocol` |
| `saga_live` | 2 instances, 3 runners of which one lacks the definition, 1 attempt, 1 fault | every saga settles |
| `lock_quorum` | 3 nodes, 2 clients, lease 2, drift 1, skew 1, 1 fault | mutual exclusion within reported validity; a later attempt draws a larger token |
| `broker_group` | 2 members, a partition with 2 records (one undecodable) and an empty one, 2 attempts, 3 faults | partition order, commit after settling, the backlog clears, which a lost wake-up would prevent |
| `outbox_relays` | 3 events (one unknown to the build), 2 relays, batches of 2, 2 attempts, 3 faults | the contract `OutboxStore`; duplicates only after an abort or a late delivery; the backlog drains |
| `services_safety` | `MCServices.cfg` | one property per component, and `StepsAllowed`, the action properties of three of them; all but one are proved as well |
| `platform` | the first part of `MCPlatform.tla` | sixteen properties over twenty-four components |
| `tenancy_recovery` | 1 request, 1 connection, 1 crash, fair | violation: an order whose process died is never settled |
| `lock_verdict` | 2 callers, both locks | violation: a session over the quorum lock whose lease never lapsed reports it lost |
| `lock_tokens` | 3 nodes, 2 clients, no time | violation: overlapping acquisitions get equal tokens |
| `idem_hangup` | 2 requests, hang-ups only | violation: a retry after a hang-up runs beside the first |
| `checkout_unpaid` | 1 order, 1 fault | violation: a parcel is booked while the payment is still processing, or has failed |

The bounds are the smallest at which the cases the properties are about occur.
Three lease tokens are needed for a row to be taken over twice; three steps for a
compensatable, a pivot and a retriable one; three nodes for quorums that meet in
one node; two relays for a skipped row, three events for a batch with one left
out; three refresh tokens for a token, its successor and the successor's
successor; three HTTP calls on one permit for a queue with an order; a ring of
two and three events for an eviction, and two processes for a cursor of another
epoch; two sockets on one slot for a refusal at capacity; three requests for two
writers and a reader of the stale cache entry; three transactions for appends
that queue behind a rollback; three issues of certificates for a rotation that
changes the root; keys `a`, `a/b` and `c` for a directory that is also an
object; histories of three schemas for a drift that no pair of neighbours shows.
Text is enumerated over every short string of the characters the code looks at.
Four writes over two addresses suffice for a user who is created, changed and
deleted, or deleted in a unit of work that fails, beside a reader between pages.
`MaxFaults` and its kin cap crashes, failed stores and lost answers per behaviour.

Every property has a mutant, a plausible slip in one mapped definition, that the
same run refutes; a suite's property that covers several components has more
than one.

Deadlock checking is off where the system really may stop: all sagas settled, all
requests answered, all events delivered.

## 4. Refinements

* `SagaOrchestrator` implements `SagaProtocol` (`FollowsProtocol`; proved);
* `RefreshTokens` implements `TokenStore` (part of `StepsAllowed`; proved). The
  mapping takes a refresh to be decided where it reads the family under both locks;
* `Outbox` implements `OutboxStore` (`KeepsContract`; proved): a row is claimed while some
  relay's transaction holds its lock, and what the transaction wrote counts when it
  commits;
* `LocalDisk` implements `ObjectStore` (`DiskIsStore`): the object is its body, so a
  put takes effect with the rename of the body and a delete with its removal, whatever
  happens to sidecars and directories before and after.

## 5. Fairness

Only steps the process takes by itself are fair. A running loop continues (`drive`,
`save`, `run`, `handle`, `redeliver`), pollers poll (`runOnce`, `drain`, driven by
timers that re-arm whether or not the pass threw, `saga/saga-recovery.service.ts:147`,
`outbox/outbox-relay.service.ts:195`), and time passes (`LeaseRunsOut`, `FallDue`,
`Due`). Faults, crashes, requests and members that leave are never fair. Weak
fairness is enough because a poller's pass stays enabled while work is due; the relay
and the member that must make progress are those in `Staying`, since a deployment
with nobody left promises nothing. A relay's `drain`, `deliverOne` and `Commit` are one
fair action: they are one promise chain, and which of them is next is decided by
where the chain stands. `Tenancy` needs strong fairness in one place, a request's
turn at a pooled connection: the pool serves its waiters in order, while the connection
is free only now and then.

## 6. What the runs show about the code

Five disagreements between the code and what a comment or document beside it says
are kept as violation runs; `PROJECT.json` quotes both sides.

* `lock_tokens`: two overlapping acquisitions are counted on the node they share
  before either publishes its token there, and get equal fencing tokens.
* `lock_verdict`: `withLock` asks the handle how much of the lease remains after
  `stop()` has released it, so over the quorum lock every session ends as lost.
* `idem_hangup`: a hang-up frees the key while its handler runs on.
* `checkout_unpaid`: `charge-payment` takes whatever `capture()` answers for paid, so over
  a gateway that settles later the parcel is booked before the money is in. `ShipsPaid`
  is about gateways that settle at once.
* `tenancy_recovery`: the recovery poller has no tenant in scope, so the steps it
  drives are refused the order row, and the saga ends `STUCK`.

Seen while modelling, without a run:

Engine, broker, outbox
* `SagaStore.abandon` writes by id only (`saga/prisma-saga.store.ts:168`), so a
  process that lacks the definition can move a row out of a terminal state, which
  `saga/saga-instance.ts:6` excludes. `TerminalIsFinal` assumes that all processes
  know the definition.
* A handler in flight across a rebalance re-creates a position for a partition its
  member lost (`messaging/in-memory-broker.ts:348`); `NothingOvertaken` holds in spite
  of it, at the price of redelivery.
* The relay sorts by `occurredAt`, stamped at the insert and not at the commit
  (`outbox/transactional-outbox.service.ts:80`): an event stamped first and committed
  last is delivered after a later one.
* A redelivered `user.registered` queues the welcome email again
  (`notifications/listeners/welcome-email.listener.ts`,
  `queue/email/email-queue.service.ts:26`), although `docs/outbox.md:107` asks
  consumers to be idempotent. `AnnouncedOnce` counts announcements per committed row
  and leaves emails out.
* A shipment whose answer is lost on its last attempt is compensated although the
  parcel is booked; `EndsConsistent` says what is undone in that case.

Locks, keys, requests
* An `extend` that misses its quorum frees the key at once while `validUntil` stands
  (`common/locking/redlock.service.ts:369`), and one refused renewal ends the renewal
  loop for good (`common/locking/lock-session.ts:165`).
* A blank `REDLOCK_NODES` beside a `REDIS_URL` passes the schema, and the boot then fails
  in the lock's constructor (`common/locking/locking.module.ts:46`,
  `common/locking/redlock.service.ts:201`).
* An unreadable idempotency entry is overwritten with a plain `SET`
  (`common/idempotency/stores/redis-idempotency.store.ts:118`), so two requests that
  both met it would both run.
* Whatever is below 500 is recorded and replayed, a refusal that did nothing too
  (`common/idempotency/idempotency.interceptor.ts:31`): `KeyedOnce` says whose answer
  a replay is and not that the operation was done. Uploads of equal length to one
  route share a fingerprint (`common/idempotency/idempotency-key.ts:77`);
  `FormsReadBack` leaves the bytes of an upload out.
* `maxUses` bounds the values one data key seals, say `crypto/data-key-cache.ts:15`,
  line 60 and `docs/field-encryption.md:124`. Callers that wait for one mint are all
  given its key, each counted without a look at the budget (lines 123 to 125), so more
  of them than `maxUses` exceed it. `KeysInOrder` holds what the cache hands out to the
  budget, and not them.
* `common/concurrency/entity-tag.ts:58` names RFC 9110, whose recipients read over the
  empty elements of a list and whose tags hold no blank. The scanner answers 400 to
  `"3",` and takes a blank inside quotes. `FormsReadBack` compares with the RFC what a
  sender may write, and of those two forms says only that nothing goes ahead without
  the current tag.
* A retryable response kept in `lastResponse` is dropped when a later attempt fails
  otherwise (`common/http/resilient-http.client.ts:208`).
* Two registrations of one address that both found it free: the second insert violates
  the unique index, which nothing maps to the documented conflict.
* `prune` decides on a snapshot (`auth/prisma-refresh-token.store.ts:185`) and takes
  its locks in the other order than `consume`; the application never calls it.

Configuration
* The comment on `SAGA_LEASE_MS` says that the refinement enforces three times the step
  time-out (`config/env.schema.ts:563`); it enforces more than twice (line 1085). The one
  on `HTTP_BREAKER_ROLLING_BUCKETS` says that it must divide the window exactly (line
  627); only a window shorter than its buckets is refused (line 1106).
* A number set to the empty text is read as 0, and an enumeration or URL set to it is
  refused, so a copy of `.env.example` as it stands (blank `S3_ENDPOINT` and
  `KAFKA_SASL_MECHANISM`, a placeholder for the master key) does not boot.

Reads, streams, storage
* A `GET` that read a row before its update or deletion can cache it after the
  eviction (`users/read/users-read-model.cache.ts:26`), so the old representation is
  served for one TTL, a deleted user's too. `NoLostUpdate` holds regardless: the stale
  entity tag is refused with 412.
* `If-Match: *` adds no version filter (`users/prisma-users.repository.ts:213`), so two
  preference patches sent with it can lose one; `NoLostUpdate` promises patches only
  when nobody does.
* The list of users pages by a row: once the row a cursor names is deleted, the next
  page is no longer determined by it (the Map starts over), which `WalkWhole` excludes.
  `users/read/list-users.query.ts:24` says `decodeCursor` answers 400 to a malformed
  cursor; it decodes whatever it is given.
* `BackpressuredSocket.review` looks at the grace before the buffer
  (`realtime/backpressured-socket.ts:149`), so a connection that fell behind and
  drained is closed at the next sweep if nothing was sent to it in between.
* The stand-in for the saga table resolves when a missing row is abandoned, where
  Prisma's update rejects, and shows an instance before its unit of work has ended;
  the stand-in for the users accepts an address twice. `StandIns` drives neither call.
* A listing on disk that reaches a directory just as a delete prunes it fails there with
  ENOENT, which `list` takes for a store nobody has written to and answers with an empty
  last page (`storage/adapters/local-disk-storage.adapter.ts:244`), whatever else is
  stored. `StoreTruthful` excepts a listing in that case.
* S3 answers HEAD without a body, so on a missing bucket `head` and `exists` can meet a
  bare `NotFound` and say that the object is not there, although the comment at
  `storage/adapters/s3-storage.adapter.ts:345` excludes it. `StoreTruthful` excepts that
  answer.
* A log call's trailing string is its context (`logging/to-log-event.ts:37`), printed as
  it comes; a query's parameter names are field names, and names are not redacted
  (`docs/log-redaction.md:231`). `SignalsSound` is about messages and values.
* A frozen Date can still be set (`common/immutable/deep-freeze.ts:32`), a frozen Map
  filled. `SharedStands` says nothing of the time a Date holds, nor of values with a Map
  or a Buffer in them.
* An object key with a segment named as the disk adapter's own files (`.object`) is
  left out of the keys enumerated.
* The primary key alone keeps the audit chain linear; the advisory lock keeps
  concurrent appends from failing on it.

## 7. Proofs

Each theorem holds for every value of the constants under the named assumptions of the
component's module: any number of actors, keys and records, and any number of faults.

**Saga engine** (`SagaProofs`): `SnapshotFresh`, `AlwaysResumable`,
`CompensationComplete`, `CompletionComplete`, `PivotCommits`, `AttemptsBounded`, and,
when every process knows the definition (`Unaware = {}`), `TerminalIsFinal` and the
refinement `FollowsProtocol`. Assumed are `DefinitionAssumption`, what `defineSaga`
enforces (compensatable steps, then at most one pivot, then retriable ones), and
`EngineAssumption`, positive numbers of attempts and rows per pass and a null owner and
saga distinct from real ones. None of the properties is inductive. The invariant `IInv`
is the conjunction of

* `TypeOK` and `SnapshotFresh`: a runner that still owns its row holds a copy equal
  to it;
* `RowsGood`: each row's log agrees with its cursor and status (forward rows have done
  exactly the steps below the cursor, rows walking back have undone exactly the done
  steps above it), and its failure counts are within the ladder;
* `HeldGood`: what a pass holds is a good record that is not terminal, with no more
  steps done than the row by now has;
* `PassGood`: the iterations a pass has used and the measure of what is left stay within
  the loop's limit, a backward call is only made on a compensatable step, and the
  progress about to be saved is the result of the step on the copy held;
* `CalledReached`: a step that was called had been reached.

`SnapshotFresh` is why fencing works: `save` succeeds only if `lockedBy` is still the
runner's token, and every other write needs that token or replaces it, so nothing can
have changed since the claim. The module first proves what one step makes of a row,
without mentioning runners, then that every action preserves `IInv`, one lemma per
action, and derives the theorems; for the refinement, `RowStep` shows that only `start`,
`save` and `abandon` change a row, each by a step of the protocol.

**Outbox** (`OutboxProofs`): `DuplicatesExplained` and the refinement `KeepsContract`,
from `OutboxAssumption`. The invariant `RelayInv` says that a lock belongs to an open
transaction which has the row in its batch or has written it (`LockHeld`), that what a
transaction wrote is an outcome of its row as it stands (`UpdatesFit`), that anything
in a batch or in late flight was committed (`BatchCommitted`, `LateCommitted`), and
that copies in the broker exceed the excuses counted by at most one, and only once
the row, or the transaction that holds it, records the delivery (`CopiesAccounted`).
The last clause is what makes the count inductive: a relay may deliver only a row
nobody has recorded, because it holds the lock.

**Broker** (`BrokerProofs`): `NothingOvertaken` and `CommittedMeansSettled`, from
`BrokerAssumption`. The invariant `BrokerInv` says that nothing in the group points past
an unsettled record: every committed offset, every read position and every call under way,
awaited or not, has only settled records below it, or ones left behind for good. It holds
although two members may work on one partition after a rebalance and a commit may move
backwards.

**Quorum lock** (`LockProofs`): `MutualExclusion` and `LaterTokensLarger`, from
`RedlockAssumption` (finitely many nodes, a skew within the drift allowance). The
invariant `LockInv` says that while a handle reports time left a majority of the nodes
stores its value under a TTL that outlives it, and that a token was handed out only once a
majority's counters had reached it. That two majorities share a node is proved from the
library's theorems on cardinality.

**Services** (`RecordProofs`, `LeaseProofs`, `CallProofs`, `ServiceProofs`). The first
three say of eight components what a step does to an inductive invariant and what the
invariant implies; `ServiceProofs` lifts that to the specification the run
`services_safety` checks, so a theorem there states the very property of the run: a step of
`MCServices` is one of the component chosen at the start (`Lifts`), which preserves that
component's invariant (`Kept`), and the rest of `Kept` is vacuous. `ServicesAssumption` is
what is taken of the constants. The facts about finite sets the lemmas suppose (`SetFacts`)
are hypotheses there and proved from the library's theorems in `ServiceProofs` (`FactsHold`).

| component | theorem | the invariant, and why it is needed |
|---|---|---|
| refresh tokens | `ReplayNoticed`; `Implements`, part of `StepsAreAllowed` | `TokenInv`: at most one transaction is past the lock of a token, so what it read of the row still stands when it decides, so as long as a family is live each of its tokens was presented at most once, and is spent if it was. A refresh granted that has not minted yet maps to a successor the contract still owes |
| users | `UpdatesNotLost` | `UserInv`: a representation, cached or read by a request, that has the row's version is the row; so a write the version predicate let through replaced what its client had read |
| audit log | `ChainLinear` | `AuditInv`: the entries are numbered from 1 without repetition and each names the hash of the one before; whoever holds the advisory lock has read the last. The count of a finite set numbered 1 to n is where cardinality comes in |
| lock sessions | `SuccessExclusive` | `SessionInv`: what a handle reports is covered by the stored key, by the drift allowance, or over; so whoever takes the key from a caller finds that caller's handle over |
| idempotency keys | `OncePerKey`; part of `StepsAreAllowed` | `KeysInv`: an effect that neither the record under the key nor a request still to write one stands for is covered by an excuse, an answer kept is final, and a request refused or answered from the record is done without having run; the count is promised when nothing worse than a hang-up happens |
| checkouts | `CheckoutsConsistent`; part of `StepsAreAllowed` | `OrdersInv`: going forward, what a step is for is there once the cursor is past it; going back, it is gone once the cursor is; and units held plus units on the shelf are the stock. Calls that outlive their time-out spoil the second and not the first, because a saga that has not turned round has only forward calls behind it |
| HTTP client | `CallsAreBounded` | `HttpInv`: permits in use are the calls that hold one, the queue lists exactly the waiting calls, and without repetition, and nobody waits while a permit is free; each timer is due by the deadline, and a call's sends never exceed its tries |
| realtime gateway | `NoFrameUntold` | `GatewayInv`: while a socket lags, what its peer has not been told is what was dropped, and nothing otherwise; a room's index and a socket's rooms are one relation |

`StepsAreAllowed` is the action property `StepsAllowed`: the store of refresh tokens does
only what `TokenStore` allows; a parcel is booked only for an order that is paid and has
its goods, if the gateway settles at once and no call outlives its time-out; and a request
touches no reservation but its own.

## 8. Only model-checked

* Liveness (`Settles`, `BacklogClears`, `BacklogDrains`, `InterruptedSettles`): fairness
  and ENABLED are outside what the provers used here can do.
* `NothingMissed` of the event stream: what a client may see of the ring is selected with
  `SelectSeq`, and what that returns for every sequence takes an induction over data.
* The properties of `MCPlatform`. Six of its modules (`DiScopes`, `LogPipeline`, `Mtls`,
  `Texts`, `Topics`, `Values`) are about recursive definitions (texts, schemas, graphs of
  providers), compared over bounded inputs, and no proof can be about a suite that
  contains them; the others are checked on the instances of `MCPlatform.tla`, among them
  `LocalDisk` as an implementation of `ObjectStore`.

## 9. Not modelled

* Controllers, DTOs, guards, strategies, OpenAPI, error rendering, health probes:
  stateless per request.
* What belongs to a library: kafkajs, opossum, piscina, the OpenTelemetry SDK, the
  injector, Prisma's engine, the data loader. They appear as far as the code uses
  them, marked external in `PROJECT.json`; so do PostgreSQL, Redis, S3, Stripe, PayPal
  and the KMS.
* Pure tasks of the worker pool (CSV, hashing), message templates, test
  factories, access policies, the read side of orders and of the audit log.
* The fencing counter and the waiting loop of the in-memory lock; strengths of row
  locks nobody asks for; callbacks that run after a commit.
* Abstractions to bear in mind: `Checkout` runs without tenants, which `Tenancy` adds
  to its own small saga; a key in Redis is gone at the millisecond it expires; wall
  clocks of several hosts are compared as the code compares them, so a lease may lapse
  at any time; cache keys of class instances are those of plain objects; users are
  created at distinct instants; an unknown cursor is never followed.
* Components that hand over to each other (outbox to broker to stream, engine to
  checkout) are joined by the promises each is checked to keep, and not in one model:
  the product of two of them is beyond the bounds at which either is of interest.
