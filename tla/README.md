# Formal verification of the distributed payment processor

TLA+ models of the payment service in `src/` (TypeScript, Express, Prisma/PostgreSQL, Redis,
Kafka), model-checked with TLC, and theorems about them proved with TLAPS. Paths in this file and
in the modules' comments are relative to the repository (`src/README.md` is its README,
`src/src/` its code).

Seven systems are modelled: the life of a payment (workers, lock, gateway, retries, dead letters,
webhooks), idempotent creation, the outbox with its Kafka producer, the lock of a payment with its
clock, a Kafka consumer group with the handlers that run in it, the rate limiter, and the gateway
client with its circuit breaker.

- [1. The system](#1-the-system)
- [2. The modules](#2-the-modules)
- [3. What TLC checks](#3-what-tlc-checks)
- [4. What is proved](#4-what-is-proved)
- [5. Where the documentation and the code disagree](#5-where-the-documentation-and-the-code-disagree)
- [6. What is not modelled](#6-what-is-not-modelled)
- [7. Plan](#7-plan)

## 1. The system

A client POSTs a payment with an `Idempotency-Key`. One database transaction inserts the payment
(`PENDING`), a `payment.initiated` outbox row and the key with the response. A publisher moves
outbox rows to Kafka. A payment worker takes the message, takes a Redis lock on the payment,
moves it to `PROCESSING`, calls the gateway and settles it as `SUCCESS` or `FAILED`, or schedules
a retry through another outbox row, or gives up and writes a dead letter. Independently, the
gateway's webhooks settle payments.

| Component | State it keeps | Operations | Talks to |
|---|---|---|---|
| Payment worker (`workers/payment.worker.ts`) | row of `payments`: status, version, retry_count, failure_reason | `handlePaymentInitiated`, `handleGatewayFailure`, `markPermanentFailureDbOnly` | lock, gateway client, outbox rows (same transaction), `payment.dlq` (direct send) |
| Payment lock (`paymentLock.service.ts`, `distributedLock.service.ts`) | `lock:payment:{id}` in Redis with a TTL; a heartbeat timer | acquire (SET NX PX), release and extend (Lua, compare the token) | worker |
| Webhooks (`webhook.service.ts`, `webhook.repository.ts`) | `webhook_events`, the payment row | `handleStructured` | outbox rows (same transaction) |
| State machine (`paymentStateMachine.service.ts`, `webhookConflict.service.ts`) | none | `isTerminal`, `assertWebhookTerminal`, `shouldApply` | worker, webhooks |
| Retries and dead letters (`retryScheduler.service.ts`, `retry.consumer.ts`, `dlq.worker.ts`) | `retry_events`, messages of `payment.retry`, `payment.retry.replay`, `payment.dlq` | schedule, relay, send to DLQ, replay | outbox, Kafka |
| Idempotent creation (`idempotency.middleware.ts`, `payment.controller.ts`, `payment.service.ts`) | `idempotency_keys`, Redis `idem:{key}` | look up, create, re-read, cache | database, Redis, outbox rows |
| Outbox (`outbox.repository.ts`, `outboxPublisher.service.ts`) | `outbox`; the process's producer (`kafka.producer.ts`) | enqueue, claim, connect, publish, mark, mark failure | database, Kafka |
| Gateway client, circuit breaker, simulator | breaker: state, failure count, time of the next probe (in memory, per process) | `charge`, `assertCallable`, `onSuccess`, `onFailure` | worker |
| Kafka consumer runtime (`kafka.consumer.ts`) | consumer offsets, sessions, the batch at hand | `runConsumer`, `waitForConsumerDisconnect` | every worker |
| Rate limiter (`rateLimiter.service.ts`) | a sorted set per (ip, route) in Redis | `allow` | API routes |
| Audit and notification consumers | `audit_logs` rows | one insert, one log line | Kafka |
| Process lifecycle (`all.workers.ts`, `server.ts`) | an abort signal | start, stop in order | all workers |

What makes each of them hard, and what makes it correct:

- **Worker, lock, webhooks.** Up to three kinds of writer change one row: any number of worker
  executions (a message may be delivered twice, or taken over after a rebalance while the first
  consumer carries on), and webhooks that arrive at any time, twice, or contradict each other.
  The worker decides on a status it has read seconds ago; the webhook's transaction reads without
  a row lock; the lease may run out under its holder; a process may die between any two awaits;
  any statement may fail, before or after it took effect. Correct means: a payment is settled
  once, the events announced about it match its row, a live payment never falls out of the
  queue, the retry budget bounds the gateway calls, the lock excludes and is freed by its holder
  only, the customer is charged once where the code can promise it, and every payment is settled
  eventually.
- **Idempotent creation.** Requests with one key overlap on several replicas; the cache expires
  and is filled again; the process dies after the commit and before the answer. Correct means:
  one payment per key, answers that agree and never run ahead of the database, and retries that
  are answered.
- **Outbox.** Publishers poll without claiming; send and mark are two steps; the marking and even
  the recording of a failure may fail; transactions commit out of `created_at` order; a refused
  row is retried for ever. Correct means: nothing lost, nothing invented, a bound on duplicates,
  and every row that Kafka takes is published. The producer is a singleton that is stored before it
  is connected: other senders of the process may use it too early, and if the first connection
  gives up it is never replaced.
- **Lock of a payment.** SET, heartbeats and release travel to Redis and take their time, may be
  lost or held up, and may arrive after the key has expired and another execution has taken it.
  Correct means: as long as the heartbeats are on time the holder is alone, a holder's key is taken
  by nobody but the clock, a lost key does not come back, and a dead execution's key does not stay.
- **Consumer group.** A handler may outlast its session (the retry relay sleeps for up to 15
  minutes inside it), fail before or after its effect, lose its partition without noticing, or be
  told to stop. Correct means: the offset passes no message that nobody has handled, repeats have a
  bound, no retry is early, the backlog drains and a shutdown ends.
- **Rate limiter.** Counting and inserting are two Redis commands, and the insertion is scored with a
  clock read before both; the key expires on its own. Correct means: a bound on what overlapping and
  delayed requests let through, and an honest `retryAfterMs`.
- **Circuit breaker.** One counter serves closed, open and probing; several charges end at once; it
  is asked when the gateway has already decided. Correct means: open exactly in an outage, one
  probe per reset timeout, and no answer overruled without a recent cause.

`PROJECT.json` lists these hazards one by one, at the line where each bites, with the properties
that cover it.

## 2. The modules

| Module | Models | Role |
|---|---|---|
| `PaymentStateMachine` | statuses, transition table, `isTerminal`, `assertWebhookTerminal`, `shouldApply` | pure operators, extended by the others |
| `PaymentLedger` | what the payment service promises | abstract specification |
| `PaymentProcessing` | payment worker, lock, gateway answers, retry budget, relay, DLQ, replay, webhooks | the core |
| `IdempotentCreate` | POST /payments from the header to the answer | component; implements `IdempotentPost` |
| `IdempotentPost` | what a client may rely on: one write-once register per key | abstract specification |
| `OutboxPublisher` | the outbox table, its publishers and their producers | component; implements `AtLeastOnce` |
| `AtLeastOnce` | what the legs of a message's way promise | abstract specification |
| `PaymentLease` | the lock of a payment: commands, clock, time to live, heartbeat | component; implements `LockContract` |
| `LockContract` | what the payment worker may rely on, without a clock | abstract specification |
| `ConsumerGroup` | one partition and the group that reads it; retry relay, backoff and audit consumer; shutdown of a worker | component; implements `AtLeastOnce` |
| `RateLimiter` | the sliding window of one (ip, route) in Redis | component |
| `GatewayClient` | `charge()`, the circuit breaker and the simulated gateway in one process | component |
| `MC...` | values of the constants for TLC | model checking |
| `..._proofs` | theorems and proofs | TLAPS |

One action is **one await** of the code. A Redis command, a query, a Kafka send and the gateway
call are one step each; a database transaction is one step when it holds the row lock
(`SELECT ... FOR UPDATE`), because nobody else can change the row in between. The webhook's
transaction takes no row lock, so it is two steps, the read and the commit. Between two steps any
other process may move.

### PaymentProcessing

| Variable | In the code |
|---|---|
| `status`, `version`, `retryCount`, `failureReason` | columns of `payments`; `failureReason` is kept up to its kind |
| `emitted[p][t]` | outbox rows of topic t committed for p, other than `payment.initiated` and `payment.retry` |
| `suffered`, `disruptions` | which kinds of disruption have happened, and how many: bookkeeping of the model |
| `recorded` | committed rows of `webhook_events` |
| `initiated`, `retries` | messages of p on their way to a worker and to the retry consumer: from the commit of the outbox row to the acknowledgement |
| `dlq`, `replayed` | dead letters; payments an operator has replayed |
| `consumer[p]` | the execution that owns p's partition and would commit the offset of the message it handles |
| `lock[p]` | the token in `lock:payment:{p}`; `Orphan` is a token whose execution is gone |
| `pc[w]`, `job[w]` | a worker execution's next await and its payment |
| `hpc[h]`, `hevent[h]`, `seen[h]` | a webhook request's next step, its event, the payment row it has read |
| `calls`, `captures` | what the gateway has been asked and has captured |

The worker's actions, in the order of `handlePaymentInitiated`:
`Deliver` → `AcquireLock` (or `LockContention` after 18 tries, which throws outside the `try`) →
`Promote` (first transaction) → `Recheck` (the read before the gateway) → `Charge` → one of
`Succeed`; `Decline`; `Bump` → `Budget` → `ScheduleRetry`, or `Exhaust` → `SendToDlq` — and
`Release`, the `finally` block, after which the handler returns (`"ack"`: the offset is committed
if the partition is still ours) or throws (`"nack"`). `Relay` joins the outbox publisher and the
retry consumer; `OrphanExpires` is the TTL. Webhooks: `WebhookReceive`, `WebhookInsert` (insert,
then read; waits for an open transaction with the same external id, as the unique index does) and
`WebhookCommit`.

`Disruptions` are actions of their own, so that a run can choose which ones happen, and
`MaxDisruptions` bounds how many: `duplicate` (a message is delivered again), `rebalance`,
`crash`, `lease` (the lock of a live holder runs out: the heartbeat's errors are swallowed),
`throw` (a statement, a send, a SET NX, a release or a webhook transaction fails), `circuit` (the
breaker is open around a charge the gateway accepts; it is asked *after* the gateway) and `replay`.
A transaction that commits although its acknowledgement is lost is the ordinary step followed by a
`throw` at the next await: both leave the same state.

### IdempotentCreate

A request is `new`, asks the cache (`LookupCache`), then the row (`LookupRow`), and is answered
from it after filling the cache (`FillCache`); or is validated, creates the payment
(`CreatePayment`: one transaction, the unique key makes the second one fail), re-reads it
(`Reread`), caches the response (`PutCache`) and answers. `Advance` is the rest of the system
moving the payment on. The lookup comes before the validation, as in the routes. Disruptions:
`expire` (a cached response is gone), `throw` (500) and `crash` (no answer); either may hit after
a commit or a SETEX has taken effect.

`IdempotentPost` is the promise without any of this: `Bind` creates a payment and writes the register of its key, once and
only for a valid body; `Answer` reads it into a 201. `KeyWrittenOnce` maps the register to the rows of `idempotency_keys`, the payments to those
of `payments`, and the answers to what the answered requests hold.

### OutboxPublisher

Rows are numbered by `created_at` and committed in any order (`Enqueue`). A publisher claims the
oldest `Limit` unpublished rows without a lock (`ClaimBatch`), sends each (`Publish`, or `Refuse`
while its topic is down), and marks it (`MarkPublished`, `MarkFailure`). A failed `markFailure`
ends the batch, since it is in the catch block (`MarkFailureThrows`). `attempts` and `last_error`
are left out because nothing reads them.

`conn[p]` is the producer of p's process: `none` until the first send (`Connect`, or
`ConnectElsewhere` when the retry relay or a dead letter comes first), `connecting`, `connected`, or
`broken` when the first connection has given up (`ConnectFails`). `getProducer` returns it in all
states but the first, and kafkajs refuses a send unless it is connected. An outage at start-up itself
ends the process (topics and consumers connect first), so the window is the one between the start of the
consumers and the process's first send. A producer that has been connected once reconnects by itself.

`AtLeastOnce` is the promise of a leg of a message's way: what is `accepted` may be `delivered`, any number of times, and is
`settled` only when it has been, for good. For the outbox (`OutboxDelivers`) these are the committed rows, those Kafka has a message of, and
those marked published. The consumer group has the same promise with other means (`GroupDelivers`): published
messages, those that have been handled, and those before the offset. Together they are the way of an event from the transaction that
commits it to the handler it is for.

### PaymentLease and LockContract

`key` and `ttl` are the Redis key and what is left of its life. A command is a message in `wire`
until Redis executes it (`ExecSet`, `ExecExtend`, `ExecRelease`: one Lua script or SET each), and
so is the answer to a SET (`"ok"`), because the timer starts only when it arrives (`Locked`). A worker is
`idle`, `asking`, `holding` (the critical section, between a lock handle and `release`) or
`releasing`; `timer` is its heartbeat. Each message carries its age: `Tick` waits for what is
`MaxDelay` old, so an undisturbed message arrives in time, and `HoldUp` gives it another `MaxDelay`.
`Lose` drops it: a lost heartbeat is swallowed, a lost SET or release throws, and a lost answer to a SET
leaves a key that is nobody's. `lapsed` remembers that a heartbeat, or the answer before the first one, was
late or lost. 
The core has the same lock without a clock. `LockContract` is where the two meet: `PaymentLease` shows that the
commands, the heartbeats and the clock keep it (`ContractKept`), and the core that the worker uses no lock but that
(`LockUsedAsKept`). Its small steps `Take`, `Enter`, `Leave`, `Free` and `Lapse` are those of the lease, where the key is
set and the answer arrives later. The core's await is both at once, so it takes them in pairs: `Acquire` (`AcquireLock`), `Release`
(the `finally` block), `Abandon` (a crash, or a release that throws: the key outlives the execution under
another name, `Orphan`) and `Lose` (`LeaseLost`). `OrphanExpires` is `Free`, and a SET that throws after it has taken effect is a
`Take` by `Orphan`. `Inside(p)` is the core's critical section, from the handle
to the `finally` block.

The heartbeat's period is half the time to live. One lost heartbeat is therefore enough to
lose the lease: the next one is sent when the key is just about to expire, and has no time to travel.

### ConsumerGroup

One partition, its messages numbered; `group` says whether it is one of `payment.retry` or of
`payment.audit`. `committed` is the group's offset, `owner` the member that has the partition, `work` a
member's batch and its position in it. `age[m]` counts the time since m was scheduled and stops at
`delay[m]`, so that `executeAt` needs no clock. `Fetch` takes everything that is there; per message the
relay is `sleep` → `relay` (`Wake`: `executeAt` has passed) → `mark` (`Relay`: `payment.initiated` is
published, `handled[m]` counts it) → the next message (`MarkProcessed`), and the audit consumer is
`insert`. `Delays` is `delayMs` as the set of its possible results. A message of
`payment.retry.replay` has `retry[m] = 0`: it is due at once and has no retry record; such messages and those with a
record come through the one partition that is modelled.

What kafkajs does is modelled from how the code uses it. A member that sleeps sends no heartbeat; when its
`session` is over it loses the partition (`Expire`), is not interrupted, relays the message nevertheless, and finds out when
its handler returns (`Return`). A heartbeat may still be sent when a message of another partition ends
(`Heartbeat`). An offset is committed after the batch (`Commit`), or with an error up to the message that
failed (`Throw`), and only by the owner. `Abort` is the signal: kafkajs hands out no more messages, waits for the
one at hand, commits, and leaves the group (`Leave`).

### RateLimiter

A request of a slot is `count`, `oldest` (refused: 429), `add`, `expire` (let through): one per
Redis command of `slidingWindowAllow`. `zset` is the sorted set, `expiry` its time to live, `now` the
clock as the request read it when it began, `admitted` the members of requests that were let
through (kept as long as a window may still hold them). `Tick` moves the clock and expires the key; `Throw` is a
command that fails before or after Redis executed it, and the death of the process.

### GatewayClient

A charge is `Simulate` (the gateway decides) and, after the sleep, one of `Succeed`, `Fail`,
`Bypass`, `Reject`. The second step is one step although `execute` awaits: what it awaits is already
settled, and Node finishes such continuations before it turns to the next timer. So `half_open` is
never seen by another charge, which `OpenForCause` confirms. Risk blocks, timeouts and network
errors are one kind, since `wrapAsError` makes them the same transient error; `log` is bookkeeping
of the model, the answers the breaker has let through since it was last closed.

## 3. What TLC checks

Every system here may come to rest (all payments settled, all requests answered, all rows
published), so `CHECK_DEADLOCK` is `FALSE`; that they do not come to rest *too early* is what the
liveness properties say.

| Run | Instance | Shows |
|---|---|---|
| `payment_race` (933 000 states) | 1 payment, 2 workers, 2 webhooks with contradicting events, 2 attempts, all 7 disruptions, 2 per behaviour | `IInv` and its parts; `MutualExclusion` of the lock until a lease runs out; `LockUsedAsKept`: the core's lock implements `LockContract`; `ChargedAtMostOnce` until an execution is cut off; `GatewayCallsBounded`: each disruption costs at most one call beyond the budget; `OutcomeJustified`: every outcome has its cause on record; `AcknowledgedWebhookSettles`: an event stored about an unsettled payment decides it, and one stored about a settled payment leaves the outcome as it is; `LedgerSafe`: the whole implements the ledger |
| `payment_liveness` (93 000) | 2 payments share 2 workers, any 1 disruption | `LedgerSpec`: the whole implements the ledger with its fairness, by which every payment is settled eventually |
| `create_race` (32 000) | 3 requests with one key, one invalid, 3 disruptions | `IInv`, with `OnePaymentPerKey` in it; `KeyWrittenOnce`: the whole implements `IdempotentPost`; `AnswersAgree`, `ResponsesTruthful`; `RetryAnswered`: a retry after the commit gets its 201 |
| `outbox_race` (79 000) | 2 publishers, 3 rows, batches of 2, one row Kafka refuses for ever, 2 disruptions, outages of the first connection among them | `IInv`, with `OnlyCommittedSent` and `PublishedWasSent` in it; `OutboxDelivers`: the outbox implements `AtLeastOnce`; `DuplicatesBounded`; `EventuallyPublished` |
| `payment_lease` (173 000) | 2 executions, 4 tokens, a time to live of 5 ticks, heartbeats every 2, commands of up to 1 tick, 2 of them lost or held up or a crash | `Exclusion` while heartbeats are on time; `LostByExpiryOnly`; `ContractKept`: it implements `LockContract`; `OrphansExpire` |
| `retry_relay` (395 000) | 2 processes, 2 messages, a retry delayed by two sessions, stops at any time, 2 disruptions | `GroupInv`, with `NothingSkipped` in it; `GroupDelivers`: the group implements `AtLeastOnce`; `RecordsAgree`; `RepeatsBounded`; `NeverEarly`; `BacklogDrains`; `StopCompletes` |
| `rate_limit` (213 000) | 2 requests at a time, limit 2 in a window of 3 ticks, delays of up to 1 tick, failures at every command | `IInv`; `StoredBounded`; `WindowBounded`, whose bound is exact: less one it is violated; `HintSuffices` |
| `breaker` (383 000) | 2 charges at a time, threshold 2, reset timeout 1 tick, 5 answers between closings, restarts | `OpenForCause`, against the definition by surpluses of failures; `ProbesSpaced`; `AnswersTrue` |

Four more runs refute what the documentation says; see section 5. Where a run checks an inductive invariant
(`IInv`, `GroupInv`), the type invariant is its first conjunct and has no line of its own in the `.cfg`. `LockFreedByHolder`
(the release of an execution that has lost its lease frees nobody else's lock) is in no run, because
`LostByExpiryOnly` says it of the modelled Redis commands; it is proved.

**Bounds.** Payments do not interact except through the workers they keep busy, so one payment is
enough for safety, and two for the liveness of sharing. Two workers are the smallest number that
race. Two webhooks with opposite statuses give every conflict. `MaxAttempts = 2` lets a payment
fail, be retried and be exhausted (the code's default of 5 repeats the middle). Two disruptions
are needed for the interesting combinations (a lost lease *and* a failed release; a rebalance *and*
a crash). `LedgerSpec` was also checked once with a webhook beside the workers and two
disruptions (482 000 states), and idempotent creation with a second key beside the first
(407 000 states), without an error. The theorems of section 4 hold without any of these bounds.
Symmetry is used in the runs that check safety only; never in a liveness run.

`WindowBounded` was also checked with delays of 2 ticks in a window of 3, with no delay at all, and
with 3 requests at a time. In the code a request may take any time, so what `rate_limit` shows is
relative to `MaxDelay`: the stretch of time that holds the bound is the window less the longest
delay, and a delay of a whole window or more leaves only `StoredBounded`, which needs no clock. The window, the
timeout and the clock of these two runs count ticks; what matters is which of them is reached first, and the
instances reach expiry, trimming and refusal in every order.

In `payment_lease`, a token that nobody and nothing has any more may be drawn again, so four tokens are as good
as any number for two executions whose old keys and commands linger. TTL and period have the code's
ratio, with the odd TTL that rounds the period down. In `retry_relay` two messages are the smallest batch that can be cut in
two. A delay of two sessions is the default configuration's fourth retry (see section 5), and a delay of none,
that of a replay, is in the run too. Which topic the partition belongs to is chosen at the start, so one run covers both handlers; so is whether the group has an
offset.

**Fairness.** `FairSpec` of `PaymentProcessing`: weak fairness of each worker's own step (a
started async function is resumed by the event loop), of delivery of a payment's message to some
worker (Kafka keeps handing out an unacknowledged message), of the relay (publisher and retry
consumer loop for ever) and of the TTL. Nothing is assumed of clients, webhooks, the operator, or
of disruptions, and nothing about *which* answer the gateway gives: the budget ends the retries. A
worker that meets a held lock gives up and is handed the message again, so liveness needs that the
holder moves on (fairness of its step) or that its lock expires. `IdempotentCreate`: a request
that has arrived is carried on. `OutboxPublisher`: each publisher keeps looping; its body catches
whatever a batch throws; and a connection that does not give up is made. `PaymentLease`: time passes, the commands of
each token arrive, and an execution carries on (each of its steps by itself, because
heartbeats go on beside the handler and must not stand in for its end). `ConsumerGroup`: time passes, Kafka assigns a
free partition to some member that can take it, and each process does what it can - which includes being started, and
a session that ends. Nothing is assumed of heartbeats or of the signal. Disruptions are finite per behaviour, which is what "the infrastructure
recovers" means here.

**Conditions in the properties.** `ChargedAtMostOnce` holds until the first crash, failing
statement, lost lease or open breaker (`Gentle`), because after any of them the code may charge
twice: the gateway is called with no idempotency key, before anything is stored.
`MutualExclusion` holds until the first lost lease. The variable `suffered` remembers which
kinds have happened, so one run covers behaviours with and without them. `EventuallyPublished` asks that fewer rows than a batch are being refused: the oldest
rows always come first and are never given up, so `Limit` refused rows block the outbox for good. It also asks
for a process that, again and again, has a producer whose first connection has not given up: `outage_survived` shows what happens
otherwise. `Exclusion` holds until the first late or lost heartbeat (`lapsed`), and `LockContract` says what is left after it.
`NothingSkipped` excepts what was published before a group without an offset started at the end of the topic (`missed`), and
`BacklogDrains` speaks of groups that have an offset, and of behaviours in which processes are not stopped over and over again:
somebody has to be left to sleep until the retry is due. `RepeatsBounded` allows one repeat for each session that a sleep outlasts, with the message itself or with one behind it.

**Mutants.** Beside many actions stands a mutated form (`ReleaseSwallowing`,
`WebhookCommitUnguarded`, `CreatePaymentUpserting`, ...), which no specification uses: each is a
plausible bug in that code, and for each property of a passing run one of them, put in place of
the original, makes TLC find the property violated. `PROJECT.json` has the pairs.

## 4. What is proved

All proofs are for any number of payments, workers, webhooks, requests, rows, publishers, members and
messages, any retry budget, limit, threshold, delay, time to live and timeout, and any number of disruptions, from the named `ASSUME`s of the modules only (sentinel
values are not elements of the sets they complete; bounds are natural numbers; worker executions, members of a consumer
group and requests at a time are finitely many; events have a payment and a terminal status).

**`PaymentProcessing_proofs`.** `IInv` is inductive (`Invariance`). Its parts lean on each other:

- `AnnouncementsMatchStatus` (theorem `Announcements`) is not inductive alone. A webhook commits on
  the row it *read*; `SeenCoherent` says that the read version is not newer than the stored one
  and that equal versions mean equal statuses, so that a commit that passes the version check
  settles an unsettled payment. `ProcessingNotEarly` covers the step from `PENDING`.
- `NeverStranded` (`NothingStranded`) needs to know, when a message is acknowledged, that another
  one remains or the payment is settled: that is `WorkInProgress`, which follows an execution from
  its first transaction to its acknowledgement, and `Ownership`, by which the acknowledged message
  is really there. `TypeOK` (`TypeCorrect`) needs `Ownership` too: no count goes below zero.
- `MutualExclusion` (`Exclusion`) follows from `LockHeld`.
- `ChargedAtMostOnce` (`SingleCharge`) rests on `CaptureKept`: a captured payment is settled or
  about to be, by the worker that captured it, and one in front of the gateway is not captured.
  Its proof uses `LockHeld` to exclude a second worker there, and that `suffered` only grows.
- `LockDiscipline` proves the action property `LockFreedByHolder`, from `TypeOK` alone: the
  argument is the comparison of tokens in the Lua script.
- `UsesLockAsKept` (`LockUsedAsKept`): for each payment, every step of the core is a step or a stutter of
  `LockContract`. `LockOwned` is what it takes: a token in the lock is that of an execution in the payment's critical section, or an
  orphan's, so a key that is left behind is one whose execution has just gone. A release without the lock is a
  `Leave` alone. Most actions touch neither the lock nor `Inside` and stutter (`UntouchedStutters`).
- `ImplementsLedger`: every step of the core is a step or a stutter of `PaymentLedger`, from
  `SeenCoherent` (a webhook settles only what is unsettled) and `AnnouncementsMatchStatus` (what
  is announced in the step is exactly one settlement).

**`PaymentOutcome_proofs`.** Three more invariants of the core, each on top of `IInv`:

- `WebhookSettles` (`AcknowledgedWebhookSettles`). `WebhooksApart` is the unique index: two transactions past
  their insert are about different events, neither of which is recorded. So the event that becomes recorded in a step
  is that of the webhook that commits. It gives the payment the event's status, or has seen it settled, and the outcome
  it saw is still there (`SeenSettled`). An event that found no payment is excepted: it is stored, marked as processed and has no
  effect when the payment appears later.
- `OutcomesJustified` (`OutcomeJustified`). A worker about to settle a payment has the cause in its hands (`CauseOf`), and
  captures, refused calls, counted failures and stored events only grow (`Grows`), so the cause survives whatever comes
  between the answer of the gateway and the commit.
- `CallsBounded` (`GatewayCallsBounded`). `CallsCounted` counts the calls a payment has had and the executions between
  the check and the call: each is paid for by a counted failure, by a disruption, or is the one of the execution that holds the
  lock. An execution without the lock has lost it to a disruption. The sum over the workers is why they must be finitely
  many, and a budget of zero, which the environment's schema permits, lets one call through, because the failure is counted before
  the count is compared (`Allowed`).

**`IdempotentCreate_proofs`.** `Invariance`; `OnePayment`; `Truth` (`ResponsesTruthful`, carried by
the fact that a payment never returns to a status a response may report as reached); `Agreement`
(`AnswersAgree`, a consequence of the two); `TypeCorrect`. `ImplementsPost` (`KeyWrittenOnce`): the commit of a transaction is
`Bind` (`CommitBinds`), also one whose answer is lost; the three ways to a 201 are `Answer` (`AnswerReads`), because a response in the cache or in hand names
the payment of the row (`Truthful`); and `ValidatedBehind` is why only valid bodies bind.

**`OutboxPublisher_proofs`.** `Invariance`; `TypeCorrect`; `NothingLost` (needs `MarkedAfterSending`: a
row about to be marked has been sent); `NothingInvented`; `FewDuplicates` (`DuplicatesBounded`). The bound on
duplicates is a count: while a row is unpublished, each message sent for it has either a publisher that is
about to mark it (`Marking`) or a disruption that kept one from it; once it is published nobody claims it
again, so only those publishers that still have it in their batch (`Yet`) can add to the count, and marking it
takes one out of them. `MessagesCounted` says this, and `CountNext` has one case per action. `ImplementsDelivery` (`OutboxDelivers`): a
send is `Deliver`, for the first time or again, and a mark is `Settle`, by `MarkedAfterSending`.

**`PaymentLease_proofs`.** `Invariance`; `TypeCorrect`; `LeaseExcludes` (`Exclusion`); `LossNeedsExpiry`
(`LostByExpiryOnly`); `KeepsContract` (`ContractKept`, the refinement of `LockContract`). `Exclusion` alone is not
inductive: `LeaseCovers` adds that, without a lapse, what is left of the key's life outlasts the time until the next
heartbeat *arrives* - or one is on its way that will arrive in time - and that an answer to a SET still on its
way leaves room for both ways. This needs exactly `TTL > TTL \div 2 + 2 * MaxDelay`. `Ownership` says who waits for which message; by
it no other execution's command or answer meets a token.

**`ConsumerGroup_proofs`.** `Invariance`; `TypeCorrect`; `NothingLost` (`NothingSkipped`); `RecordsKept` (`RecordsAgree`);
`NotEarly` (`NeverEarly`). What is handled, missed or recorded stays so (`Grows`), so "everything before position n is settled" is
kept by every step (`PrefixKept`) and has to be shown anew only where a position moves by one; `WorkSettled` ties each
member's position to it, also that of a member which has lost the partition and does not know. For `NotEarly`,
`DelayBounds` gives the least value of `delayMs` for any base, cap and jitter, and a relay needs the age to have reached the delay.

`ImplementsDelivery` (`GroupDelivers`) adds that the offset goes forward only: just the owner moves it, to its own
position (`OwnerMoves`), and its batch begins where the offset is (`BatchKept`). What it goes over is settled, so handled (`PassedNext`).

`RepeatsLimited` (`RepeatsBounded`) is a bound on deliveries: a message is relayed once, once more for each disruption, and once more for
each session that a sleep outlasts (`Outlasted`). `RepeatsCounted` counts how often a message has been handled, the members that have lost the partition and
will handle it nevertheless (`Strays`), and the time the group still has before it (`Awaited`), and pays for each but the first with a
disruption or an ended session. Why an ended session is always a new one is the heart of it (`EndedByExpiry`): a message's age never
shrinks, so the next sleep with it starts where the last one ended, and each expiry carries what was slept with it
(`Slept`) past one more multiple of the session's length; and it never exceeds the delay. An expiry costs every earlier message of the batch a
repeat, too, which is why `Outlasted(m)` looks at the delays of the later ones. The count over the members is
why they must be finitely many.

**`RateLimiter_proofs`.** `TypeCorrect` (a member's name is new because a finite set does not hold all
numbers up to its size and one more); `Stored` (`StoredBounded`). The invariant counts the members together with
the requests between their count and their insertion: a request joins the latter only below the
limit, and there are no more of them than slots; an insertion moves one over. `WindowHolds` (`WindowBounded`) bounds what is let through in any stretch of a window less the longest delay. Its
invariant looks at a request that goes on from its count: each member that was let through in the stretch before it either
was found by the count or has gone with an expired key (`PassedBounded`). Of the first kind there are fewer than the
limit; of the second no more than slots (`LostFew`), because a key expires only when nothing has prolonged it for a window
(`ExpiresLate`), so what it takes along are the insertions of requests still on their way (`InTime`). `Slack` and `Within` name the
stretch and its members. `HintHonest` (`HintSuffices`): once the
client has waited, the oldest entry it was refused for has left the window (`OldestLeaves`), and of at most `Limit` entries fewer are
left.

**`GatewayClient_proofs`.** `TypeCorrect`; `OpenExactly` (`OpenForCause`); `OneProbeAtATime`
(`ProbesSpaced`); `WordKept` (`AnswersTrue`). The heart is `FailuresExact`: the failure count is the
greatest surplus of failures over successes among all stretches of answers that end now, or zero
(`SurplusAppend`: an answer changes all of them by one). With it, "open" and "in an outage" are the
same, and `OpenedByLast` says that the last answer let through is the one that opened it.

**Only model-checked.** The liveness properties (`LedgerSpec` - its safety part `LedgerSafe` is proved -, `RetryAnswered`,
`EventuallyPublished`, `OrphansExpire`, `BacklogDrains`, `StopCompletes`): fairness and ENABLED are out of the
prover's reach. Every invariant and every action property of the runs has a theorem.

## 5. Where the documentation and the code disagree

Each is a run in which TLC finds a counterexample; `PROJECT.json` quotes both sides.

| Run | The text says | The code does |
|---|---|---|
| `exhausted_reaches_dlq` | exhausted payments go to the DLQ (README.md:127) | a failed send after the FAILED commit loses the dead letter for good |
| `replay_recovers` | replay supports recovery | the worker skips the FAILED payment |
| `captured_is_success` | the circuit breaker guards the gateway | it is asked after the gateway, and an open one discards a success |
| `outage_survived` | committed state survives broker outages (README.md:114) | a first connection that gives up leaves an unconnected producer in the process for good, and nothing is published until it is restarted |

More are visible in the actions and have no run. A SUCCESS event for a payment that is FAILED is stored
and ignored (`WebhookCommit`: `isTerminal` stops what `shouldApply` has let through; README.md:143 has SUCCESS
dominate FAILED; `AcknowledgedWebhookSettles` states what the code does). A dead letter is also sent when the exhausting transaction has found the payment settled by a webhook,
SUCCESS included (`SendToDlq`; README.md:127 has "exhausted => FAILED"). The second of two overlapping POSTs
with one key gets a 500 (`CreatePayment`; openapi.document.ts:80 has "duplicate POSTs return the same payment
snapshot"). A webhook may settle a payment that is still `PENDING` (`assertWebhookTerminal`; README.md:60 has `PENDING` to `PROCESSING` to a
terminal status). The first answer for a key may report a newer status than the stored snapshot that
later ones return (`Reread`). A known key is answered before the body is validated
(`LookupCache`, `LookupRow`; README.md:111-112 has the opposite order).

Some consequences of the consumer runtime that no text denies, all of them behaviours of `ConsumerGroup`: with the default
base of 2000 ms the fourth retry is delayed by at least 32 s, longer than the 30 s session, so the sleeper loses its
partition and the retry is relayed twice (`Expire`, `RepeatsBounded`); what keeps this from going on for ever is that
the relay sleeps until an absolute `executeAt`, so the next member sleeps less (the mutant `WakeRelative`). A sleeping
relay does not listen to the signal, so a shutdown may take up to 15 minutes. A group that dies before its first
commit starts at the end of the topic again and misses what was published meanwhile (`Assign`, `missed`).

Met on the way and modelled by their absence, because nothing calls or reads them:
`assertTransition`, `updateStatusSimple`, `markProcessed` of the webhook repository,
`webhookDedupService`, `deleteCachedResponse`, `replayIdempotentResponse`, `classifyTransient`, `RETRY_POLL_MS`, and
the columns `outbox.attempts` and `outbox.last_error`. `retry_events.processed` is read by nobody either, but it is
modelled, because it is what an operator would look at (`RecordsAgree`).

## 6. What is not modelled

- The composition of the core with its breaker and with the offsets of its consumer group: in the core
  these are disruptions that may happen at any time. `GatewayClient` and
  `ConsumerGroup` say when they do. Core and lock are not one state machine either: they meet in `LockContract`, which both are
  proved to implement, and when a lease may be lost is said by `PaymentLease` alone. The core assumes that a group has an offset.
- Several partitions of one consumer: they share the session (`Heartbeat` is the effect of another one's message) and nothing else.
- Start-up order (database, Redis, topics, consumers) and the API server's shutdown: to a request or
  a handler they are the disruption `crash`.
- `payment_events`, envelopes, correlation ids, audit details: written and never read back by the
  logic.
- Amounts, currencies and payloads: no decision after validation depends on them.
- Signature and token checks, parsing, schemas, OpenAPI, health, configuration, logging, metrics,
  tracing: stateless or without influence on payments. Whether a body is valid is the constant `Valid`.
- The webhook bus worker is a placeholder that logs; nothing publishes to its topic.
- The notification consumer and the dead-letter worker only log.

## 7. Plan

Done:

1. `PaymentStateMachine`, `PaymentLedger`, `PaymentProcessing` with their runs and theorems.
2. `IdempotentCreate` with its run and theorems.
3. `OutboxPublisher` with its runs and theorems, the producer's connection included.
4. The runs that compare the documentation with the code.
5. `RateLimiter` with its run and theorems.
6. `GatewayClient` with its run and theorems.
7. `PaymentLease` and `LockContract` with their run, theorems and refinement.
8. `ConsumerGroup` with its run and theorems: offsets, sessions, relay, backoff, audit rows, shutdown.
9. `PaymentOutcome_proofs`: that the first stored webhook decides, that outcomes have their cause, that the budget bounds the calls.
10. `RepeatsBounded` and `WindowBounded` proved, with the counting invariants they need.
11. The core's lock implements `LockContract`, so that core and `PaymentLease` meet in one specification.
12. `IdempotentPost` implemented by `IdempotentCreate`, and `AtLeastOnce` by `OutboxPublisher` and by `ConsumerGroup`.

Left, in this order:

13. Recovery of the breaker after the gateway recovers (liveness, for TLC).
14. The two legs of `AtLeastOnce` joined: a specification in which what the outbox has delivered is what the group accepts.
