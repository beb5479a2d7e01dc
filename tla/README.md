# Verification of the payment service

TLA+ models of `edulearn-payment-srv` (the repository in `src/`), TLC runs on
small instances of them, and TLAPS proofs of the properties that matter most.
Paths below are relative to `src/src/` unless they begin with `src/`.

## 1. The system

A NestJS service that takes payments for course orders. It keeps payments in
PostgreSQL, copies of them in Redis, asks Stripe, PayPal and Razorpay to create,
capture and cancel provider orders, hears about outcomes from provider webhooks
(through Kafka), and tells the order service about outcomes (through Kafka).

| Component | State | Operations | Hard behaviour |
|---|---|---|---|
| Payment entity (`domain/entities/payments.ts`) | status, provider order, provider sessions | `create`, `addProviderSession`, `mark*` over a transition table | terminal statuses have no successor, in memory only |
| Repository (`infrastructure/database/repositories/payment.repository.ts`) | one row per payment; Redis entries by id, idempotency key, provider order (1 h) | `save`, `update`, `findBy*` | read, mark and write are separate round trips with no lock or version; `update` refreshes two of the three entries; `save` writes sessions twice |
| Use cases (`application/use-cases/payments/*`) | none of their own | create, resolve, cancel (gRPC); success, failure (provider events); timeout (sweeper, Redis worker) | all run concurrently over the same row; each may die at any await; provider calls before the write, event after it |
| Idempotency service (`infrastructure/services/idempotency.service.ts`) | a lock (30 s) and a result (24 h) per key | `check(key, callback)` around create, resolve, cancel | check then lock without recheck; lock without owner, deleted unconditionally |
| Kafka producer (`infrastructure/kafka`) | – | `produce` after the commit | no outbox: a crash in between loses the event |
| Webhooks and consumer (`presentation/http`, `presentation/kafka`, `application/consumers`, `infrastructure/redis/event-process.repository.ts`) | processed event ids (30 d) | publish a normalised event; dedupe, dispatch to success/failure | check-then-mark, swallowed failures, repeated events, a partition moved under a busy consumer |
| Timeouts (`application/schedulers`, `infrastructure/workers`) | `payments:timeout:<id>` keys | keyspace notification, sweep every minute | lossy notifications, overlapping sweeps, batches that failing payments fill |
| Strategies (`infrastructure/strategies`) | the strategy currently selected, one for the process | `setStrategy`; create, capture and cancel at the provider | shared between concurrent creates; retries read it anew; an answer lost after the provider has acted |
| Exchange rates and conversion (`infrastructure/exchange`, `shared/utils/convert-currency.ts`, `domain/value-objects/money.ts`) | rate entries (60 s) | `getRate`, rounding per item | stale fallback on the same key; rounding against a tolerance of 1 |
| Refunds (`domain/entities/refund.ts`, `refund.repository.ts`) | refund of a session | not called by a use case | – |
| Order and course clients (`infrastructure/grpc/clients`) | Redis entries for 10 min | fetch, cached | stale order status; the caller gives up, the fetch goes on; an error that ends the process |
| User client; gRPC controller; generated stubs; config, auth, observability | – | – | – |

How they interact. A gRPC call (create, resolve, cancel) enters the idempotency
service, whose callback runs the use case; the use case finds the payment
through the repository (Redis first, then the database), asks the provider,
marks the entity, writes it back and produces an event. A webhook is published
to Kafka and consumed by the event consumer, which calls success or failure on
the provider's order id. A timeout comes from a Redis key that expires or from
the sweeper. Everything shares the row and its Redis entries.

What makes each correct: the entity follows its table, *also across handlers*;
an entry of Redis is never a version nobody committed; an event announces only
what was committed, and one outcome per payment; captures and provider orders that
were recorded stay recorded; one provider order leads to one payment; duplicates of a call do not overlap, and replies are genuine. The hazards, each
at its line, are in `PROJECT.json`.

The repository has no tests (`*.spec.ts`). Two files it imports are missing from
it: `handle-payment-timeout.use-case.ts` (sweeper, worker, use-case module) and
`presentation/grpc/payment.module.ts` (application module), so which schedulers
and consumers are wired in cannot be read off; `main.ts` connects a gRPC
microservice and HTTP, no Kafka consumer. The models describe what the handlers
do when they are called.

## 2. Modules

| Module | Models |
|---|---|
| `PaymentDomain` | statuses, the transition table, and the entity's methods as functions from one version of a payment to the next. A version is what decisions depend on: id, status, provider order, sessions, captured sessions. |
| `PaymentLifecycle` | the abstract specification: per payment, create as PENDING, then steps of the table, and at most one `Overwrite` per handler, which starts from a status the payment once had. |
| `PaymentStore` | the row (`db`), the Redis entries (`cache`), what the database accepts (`Insertable`, `Updatable`), and the reads and writes that each are one round trip. `history` collects every version a write committed. |
| `PaymentHandlers` | the six use cases over that store. |
| `PaymentHandlersProofs` | theorems about `PaymentHandlers`, whatever overlaps and however old the entries. |
| `PaymentOutcomesProofs` | theorems about what becomes of status, captures, orders and outcomes under the same conditions, that is none; the refinement among them. |
| `Idempotency` | `IdempotencyService.check`. |
| `IdempotencyProofs` | theorems about it. |
| `StrategyDispatch` | concurrent creates over the one `StrategyContext`, with the retries of `createPayment`. |
| `ProviderEvents` | webhook endpoint, Kafka topic, consumer group, event consumer and its processed keys. |
| `PaymentTimeout` | deadline, timeout key, worker and sweeper. |
| `ProviderCalls` | resolve and cancel at PayPal and Razorpay. |
| `CachedLookups` | the cached order, courses and exchange rate that create looks up. |
| `<module>Proofs` | theorems about that module (with `PaymentOutcomesProofs` there are eight). |
| `MC<module>` | the sets TLC works on, and symmetry. |

`PaymentHandlers` composes `PaymentDomain` and `PaymentStore` and is shown to implement
`PaymentLifecycle`. The other modules each look at one stretch of the way in and
out of it, more closely than `PaymentHandlers` does, and take of the rest of the
service what they need: `ProviderEvents` has the success and failure use cases as a
read, an update and an announcement, and everybody else as `Elsewhere`; `PaymentTimeout`
has the timeout use case as one step; `ProviderCalls` has what the timeout may do
in between. Where they read a payment they may be given *any status it has had*
(`past`), which is what `PaymentHandlers` shows a Redis entry to be
(`CacheIsSound`).

Several modules have *history variables*: they record something the code does
not, for a property to speak of, and no guard reads them. `disturbed` is one of
them. It names what was interrupted, overlapped or failed, so that a
property can say what holds of everything else. `unannounced` of `PaymentHandlers` is
another: the outcomes whose handler broke off between its write and its event.
`overwritten` and `base` are two more: `base` is the version a handler takes to be in
the row (the one it read, later the one it wrote), and `overwritten` collects the
handlers that wrote a row which was no longer that version (`Outdated`).

### PaymentHandlers

A *handler* is one activation of one use case. Node.js interrupts a use case only
at an `await`, so a step of a handler is the code from one await to the next.
Its program counter names the await it waits at:

| `pc` | next step of the code | actions |
|---|---|---|
| `idle` | the call arrives | `Start` |
| `lookup` | `cache.get` in a finder | `FindCached`, `MissCache` |
| `query` | `findOne` | `QueryRow`, `QueryNothing` |
| `fill` | the finder's `cache.set` | `FillCache` |
| `loaded` | guards; the provider call, or mark* where there is none | `TurnAway`, `CreateProviderOrder`, `LoseProviderOrder`, `CallProvider`, `MarkSucceed`, `MarkFailed`, `MarkExpired` |
| `called` | the strategy's call has returned: mark* | `MarkCancel`, `MarkResolved`, `RefuseResolved` |
| `save` | `paymentRepo.save(entity)` | `SaveRow`, `RefuseRow` |
| `sessions` | `sessionRepo.save` per session (create only) | `SaveSession` |
| `cacheId`, `cacheKey` | `cache.set` of two of the three entries (`save` sets only the first) | `CacheById`, `CacheByIdempotencyKey` |
| `schedule` | `schedulePaymentTimeout` (create only) | `ScheduleTimeout` |
| `publish` | `produce` | `Publish` |

`snap` is the entity in the handler's memory; `fromCache` says that it was parsed
from JSON, where dates are strings (`ScheduleTimeout` throws then). `Fail` ends a
handler at any await: a failed round trip, a thrown exception or the death of
the process, which this service does not tell apart, since nothing is undone.
`Lapse` drops a Redis entry. `issued` is the providers' side: the orders they created.
`CallProvider` is only the return of the strategy's call: PayPal's cancel and Razorpay's
resolve ask nobody, and resolve writes the same whatever it is told, so
nothing is said here of what a provider has confirmed. `ProviderCalls` looks into it.

Abstractions. The payment id and the idempotency key name the same thing (the
key is unique and set once). A session is the provider order it records and the
activation of create that made it (a fresh uuid in the code): PayPal and Stripe are
sent the idempotency key and may answer two creates of a payment with one order
(`Issue`), and each adds a session of its own. `getSessionByProviderSessionId` then
takes the first of several, in whatever order the relation was loaded (`Lookup`). Session
statuses other than CAPTURED are not kept: nothing reads them, since
`getProviderSessionById(orderId)` in success, failure and cancel compares an
order id with session ids and finds nothing. `repository.save` by TypeORM is one
step (its own SELECT and UPDATE share a transaction); a session that the row has
and the entity lacks makes it fail, because the cascade would null a NOT NULL
column. Amounts, currencies and user ids are left out. The timeout use case is
taken from its callers and from `markExpired`: find by id, go on if PENDING,
mark, update, announce `PaymentOrderTimeout`.

Two constants restrict the environment. `Serial`: calls about one payment (`Subject`)
do not overlap. `StaleReads = FALSE`: an entry older than the row lapses before it is
read. The code ensures neither. Every passing run has `Serial = FALSE` and
`StaleReads = TRUE`, and the theorems hold for all four combinations. The other values
are there for the counterexamples: `stale_terminal` shows that old entries
alone break the promise of the table, `racing_terminal` that overlaps alone do.

What can be said under these conditions is where things may go wrong, and
that they go wrong nowhere else. A capture is forgotten, an outcome contradicted or the
table left only through a write of a version that is not the row's any more
(`CapturesStay`, `OutcomesAgree`, `ImplementsLifecycle`); a payment gets RESOLVED without a
capture only through a create that is still writing its sessions one by one
(`ResolvedIsCaptured`), so neither through overlapping updates nor through old entries.
That recorded orders stay recorded has no exception: TypeORM's refusal of an entity that
lacks a session of the row (`Updatable`) sees to it.

### Idempotency

A client is one call of `check`; clients with the same key are duplicates.
Steps: look for the result, take the lock (`SET NX PX`), run the callback, store
its result, delete the lock. `Throw` is a failing callback or a failing SET;
`RedisFails` a failing GET, SET NX or DEL, in the last two cases with or without
the command having been carried out; `Die` the death of the process.
`LockLapses` is the TTL: at any moment for `LapsingKeys`, whose callbacks may take
longer than it, for other keys only when nobody believes to hold the lock. The 24 hours of
a result do not pass within a behaviour.

### StrategyDispatch

A request is one create, from the point where it has fetched its order. Everything
from `setStrategy` to the first `createPayment` happens in one turn of the event loop
(unless a currency must be converted), so each way that turn may go is one action:
`RefuseStripe`, `StartConversion`, `RefuseTotal`, `FirstAttempt`. After that:

| `pc` | next step of the code | actions |
|---|---|---|
| `convert` | the exchange rate is awaited | `FailConversion` |
| `asking` | an attempt is on its way to the provider | `MakeOrder`, `FailAttempt`, `GiveUp` |
| `answered` | the provider has created an order; its answer is on its way | `Record`, `RefuseRecord`, `FailAttempt` |
| `waiting` | the delay of `retry` before the next attempt | `Retry`, `GiveUp` |

`strategy` is `StrategyContext`'s field. `want` is the provider the request names and
that its session will name; `asked` is where its last attempt really went. `money`
is the currency of the one `Money` object that all attempts of a request share,
`priced` that of its order. `orders` are the providers' side, `recorded` what
`save` would write; what becomes of a payment's row is `PaymentHandlers`. `retry`
makes one attempt and up to two more (`MaxTries`) and has a time limit of its own
(`GiveUp`). `Restart` is the death of the process.

Three things in it follow from what the code does when run, though the types say
otherwise. Stripe's strategy has no `isCurrencySupported` (the factory casts it),
so asking it throws and no create that names Stripe is ever served (although
`src/README.md:206` lists its checkout sessions as supported). `Money` has no `setAmount`, so a conversion fails whether or
not a rate was found. Stripe's answer has no `providerAmount`, which the session's
column requires, so an order made there cannot be recorded. External and taken
from the calls: a provider refuses a currency its strategy does not list, and
PayPal an order whose items are in another currency than its amount. An order is
named by the request and the attempt that got it; that Stripe and PayPal may
answer two attempts with one order, because both carry the idempotency key, makes
no difference to the properties here.

### ProviderEvents

A provider's event goes to the endpoint, which drops it, publishes it, or fails
(`Drop`, `Publish`, `PublishUnanswered`; a plain failure changes nothing). The provider
repeats it until it is answered 2xx. The message key is the provider, so the topic
has a partition for each. A consumer (`Workers`) has partitions assigned to
it (`Assign`), loses them (`Revoke`) or dies (`Crash`); a new one starts at the
committed offset, which may be any its predecessor went through. One that
loses its partition goes on with the event in its hand.

| `pc` | next step of the code | actions |
|---|---|---|
| `idle` | the next message | `Take` |
| `check` | `isProcessed` | `SkipMarked`, `CheckUnmarked` |
| `find` | the finder and the guards of the use case | `Accept`, `AlreadyFailed`, `Refuse` |
| `update` | `paymentRepo.update` | `Update` |
| `produce` | `produce` | `Produce`, `ProduceUnanswered` |
| `mark` | `markAsProcessed` | `Mark` |

What a use case throws is caught in the consumer, logged, and the message counts as
consumed (`FailUseCase`, `Refuse`, `ProduceUnanswered`, which end in `Finish`). What the
look-up or the marking in Redis throws is not caught: the controller rethrows it, and for an
`@EventPattern` handler Nest lets it through to kafkajs, which leaves the offset where it
is and delivers the message again (`FailCheck`, `FailMark`, which end in `Redeliver`). Until Redis
answers the partition waits. `Outcome` and `Allowed` are the two `switch`es over event types.
They differ: `order.failed` is handled by the consumer and not let through by the
endpoint. `NamesItsOrder` says which events carry an id that create has recorded:
PayPal captures and Stripe payment intents do not, so success and failure answer
NotFound for them. The signature check is abstracted to `Unverified`, the
providers whose events may fail it. The 30 days of a processed key do not pass
within a behaviour, and a Razorpay event is taken to have an id of its own.

### PaymentTimeout

Time is a number. `Make` gives a payment its deadline, `Reuse` is a create whose
key has a payment already (read from the row or parsed from Redis), `Save` writes
it and `Schedule` computes the TTL in whole seconds and sets the Redis
key in one step, so the round trip of the SET takes no time. `GiveUp` is any
failure of create, among them `getTime` on a deadline that is a string. Redis
removes a key whose time has come at that moment or later and tells who is subscribed
(`KeyExpires`); `link` is the worker's subscription, `mail` what it has been told
(`HandleExpiredKey`). `StartSweep` is the query, with its batch size and its order by
deadline; `SweepExpires` and `SweepPassesOver` are an iteration of the loop. Ticks
overlap. `Crash` forgets everything but the row and the Redis key. Payments in `Hopeless` are
those the use case throws for whenever it is run; `HopelessAssumption` says that they
are fewer than a batch, since a full batch of them would be all the sweeper ever sees.

### ProviderCalls

A call is one resolve or cancel that the idempotency service has let in (so not
two with one key at a time). It reads the payment (`Find`), makes its attempts at
the provider, and writes (`Resolve`, `Cancel`). An attempt of resolve at PayPal is
a capture with the caller's idempotency key as request id: `Capture`,
`RepeatCapture`, `RefuseCapture`, `PayerActionRequired`. At Razorpay it is a signature
computed here (`VerifySignature`). PayPal's `cancelPayment` asks nobody (`CancelUnasked`),
Razorpay's looks an order id up among payments and always throws, Stripe's strategy has
neither operation (`FailAttempt`). Any attempt at a provider may have its answer
lost after it was carried out. The providers' side is `place` (what the customer has
done) and `captor` (the request id a capture was made under); how PayPal treats
a repeated or a second request id is external. Resolve reads any status, including CANCELLED
and EXPIRED: it captures the money of such a payment and leaves its status.

### CachedLookups

A lookup is a `getOrder`, a `getCourseItems` or a `getRate`: look in Redis (`Hit`, `Miss`,
`FailGet`), fetch (`Answer`, `FailFetch`), store (`Store`, `FailStore`). A rate
whose fetch fails, or is aborted after its limit, is looked for in Redis once more
(`FallBack`). Orders and courses are tried again from the start (`Throw`), and create
stops waiting for them after a time (`TimeOut`) while the lookup goes on. `RefuseOrder` is
an error answer of the order service: it is thrown inside the subscriber, where
neither the promise nor the `try` around it sees it, and the process ends. What is
fetched is represented by the time it was fetched at, so age is a
difference. `Tick` waits for timers that are due and for Redis commands
(`Lag` bounds one, and the delay of a retry). An entry lives as long as its TTL says;
that Redis may evict it earlier would only make a `Miss` more frequent.

## 3. Runs

| Run | Instance | Shows |
|---|---|---|
| `handlers_concurrent` | 2 payments, 2 orders, 3 handlers of any kind, anything overlapping, stale entries | `TypeOK`, `CacheIsSound`, `EventsWereCommitted`, `OutcomesAreAnnounced`, `OrdersAreNotShared` |
| `handlers_outcomes` | the same | `OutcomesAgree`, `OrdersStayRecorded`, `CapturesStay`, `ResolvedIsCaptured`, `ImplementsLifecycle` (refinement of `PaymentLifecycle`) |
| `idempotency` | 3 calls, 2 keys, locks of one of them lapse at any moment, fairness | `TypeOK`, `OneAtATime`, `RepliesAreGenuine`, `LateDuplicatesDoNotRun`, `LockIsReleased` |
| `dispatch` | 2 creates, 3 providers, USD and INR, fairness | `TypeOK`, `FirstAttemptIsOwn`, `MisdirectionNeedsCompany`, `EveryCreateEnds` |
| `provider_events` | 3 events of one payment (a Razorpay success and a Razorpay failure in one partition, a PayPal capture in another), 2 consumers, fairness | `TypeOK`, `AnsweredIsLogged`, `MarkedWasHandled`, `RepeatsAreDeduplicated`, `ConsumedIsSettled`, `PartitionsDrain` |
| `payment_timeout` | 2 payments, one of them hopeless, 2 overlapping sweeps with batches of 2, fairness | `TypeOK`, `NeverEarly`, `KeyIsOnTime`, `PendingIsTimed`, `OverdueIsDealtWith` |
| `provider_calls` | 1 payment with a PayPal and a Razorpay session, 3 calls over 2 keys, fairness | `TypeOK`, `VouchedIsPaid`, `OwnCaptureIsRepeated`, `ChargedIsResolved`, `CallsEnd` |
| `cached_lookups` | 2 lookups at a time, of one order or of one rate, fairness | `TypeOK`, `FallbackIsNotStale`, `ServedIsRecent`, `CallersEnd` |

What they show, in a sentence each, is in `PROJECT.json`. The four runs that end in a
violation are below.

Bounds. In the runs of `PaymentHandlers`, `Idempotency` and `StrategyDispatch` a
behaviour is bounded by the number of activations only. Three overlapping
handlers are one more than the pairwise races need (a create that makes the
payment and two handlers that race over it). The two counterexamples have four, which is a
create, a call that fills an entry, a call that changes the row and a call that
reads the old entry. With two payments, `create` of one may be answered with an order
while a call names the other's. Two creates redirect one another. Of the two currencies all
strategies take dollars and only Razorpay takes rupees. Three calls of one key are
what it takes to break a lock without owner: one inside, one that is refused, one
that gets in. Two orders let a payment be repointed to a second provider order,
and a finder look under the first one.

- `provider_events`: `MaxLog` = 2 messages, so that a partition holds an event
  twice, or two with opposite outcomes, or each of two partitions has one; `MaxFaults` =
  1, a move, a death or a failed marking, after which an event is handled by two consumers
  at once or again. (Each failed marking of a success may announce it once more, so
  without the bound the instance is infinite.) Failed look-ups are not bounded.
  Of the other use cases only a cancellation intervenes (`OtherStatuses`).
- `payment_timeout`: `Second` = 2 and `Lifetime` = 3, so that a deadline falls within a
  second; `MaxTime` = 6 leaves time for a second payment, or for a create to be
  repeated, before and after the deadline; `MaxCreates` = 2, `MaxCrashes` = 1; a
  batch of 2 holds the hopeless payment and one more. The code has batches of 50
  and a deadline of 10 minutes.
- `provider_calls`: `MaxTries` = 2, a first attempt and a retry (the code makes up
  to four); two calls that share a key and one that does not, so that a charge
  can be repeated by the next call, refused to another, and overlapped.
- `cached_lookups`: an order lives 3 units and a rate 5, a rate is aborted after 1, create
  waits for 2, a Redis command takes up to 1, 2 attempts (the code makes three), and the clock ends
  at 11, which a rate's entry lives through twice. Lookups of different
  things share nothing, so both are of the same one (`SameKeySpec`).

Handlers, orders and payments of `PaymentHandlers`, and the calls of `idempotency_race`, are
interchangeable, and those runs use symmetry. Runs with a liveness property do not.

Deadlock is not checked: activations, calls and the clock are bounded, so every
behaviour of these instances stops when all have ended.

Fairness.

- `Idempotency`: each client's next step, because the event loop runs what is
  ready and every Redis command is answered or fails; `LockLapses`, because Redis
  expires keys. Not of `Start` or `Die`, which are the environment's.
- `StrategyDispatch`: the next step of each request that has selected its strategy,
  because the delay of `retry` and its time limit are timers; not of `Begin` or `Restart`.
- `ProviderEvents`: the group coordinator gives a partition without consumer one
  (`Assign`), and a consumer goes on with its message and takes the next one. Look-ups
  that fail leave the partition where it is and may be repeated for ever, so a look-up that
  is tried time and again is asked to be answered some time (strong fairness of `SkipMarked`
  or `CheckUnmarked`): Redis does not stay away for good. Nothing of the kind is asked of the use
  cases, whose errors never leave the consumer. Not of the endpoint: providers send
  what they like.
- `PaymentTimeout`: the scheduler starts sweeps (weakly fair for sweeps that find something), a
  sweep goes on, and attempts at a payment that can be expired do not all fail
  (strong fairness of `SweepExpires` for each, since another payment's turn
  disables it time and again). Nothing is asked of Redis, the worker or its connection, which
  is the point of the sweeper.
- `ProviderCalls`: each call's next step: an attempt is answered or throws, at the latest
  by the time limit of `retry`.
- `CachedLookups`: the clock, Redis commands, the abort and create's time limit. Nobody
  needs to answer a fetch.

### What the documentation says and the code does not keep

Four runs end in a violation; `PROJECT.json` quotes the lines.

- `stale_terminal` (`TerminalIsFinal`): `update` never refreshes the entry under
  the provider order, from which resolve, cancel, success and failure read for an
  hour. With calls strictly one after the other a FAILED payment becomes SUCCESS.
- `racing_terminal` (`TerminalIsFinal`): find, mark and update have no lock, version or
  transaction around them. A success and a failure event that overlap both find the
  payment PENDING, and the later write overwrites the earlier terminal status. No stale
  entry takes part: `StaleReads` is FALSE there.
- `idempotency_race` (`DuplicatesHaveNoEffect`): the recheck after the lock is
  commented out, so a duplicate that looked before the first call had stored its
  result runs the callback again.
- `resolve_unverified` (`ResolvedIsPaid`): resolve marks the payment RESOLVED whatever
  the strategy has answered, here that the order still wants something of the payer.
  `isVerified` only gets into the reply, where it is right (`VouchedIsPaid`).

Others have no run of their own. They can be read off the actions named:

- A success event whose entry is older than the resolve before it (`FindCached`) writes back the
  payment as it was before the capture: the CAPTURED session is lost. A cancel that has found the
  payment PENDING does the same to a resolve that is faster. `CapturesStay`
  says that there is no other way.
- An order whose answer was lost (`LoseProviderOrder`) stays open at the provider.
- A payment that succeeds from PENDING has no CAPTURED session (`MarkSucceed`), so
  `isRefundable` is false for all of them; `src/README.md:38` offers refunds.
- The failure use case refuses RESOLVED payments (`TurnAway`), although its own message and
  the status flow of `src/README.md:214` admit them.
- A create that retries reads the strategy another create has set, and its order is
  made at one provider and recorded under the name of the other; an attempt that
  was redirected to Stripe has its rupees renamed to dollars, unconverted, in the
  `Money` the next attempt sends (`src/README.md:16`, `:46`). `MisdirectionNeedsCompany` is
  what can still be said.
- `webhook.controller.ts` says that Stripe requires the raw request body, but
  `RawBodyMiddleware` is commented out in `webhook.module.ts:15-24`. As it is wired, `req.body` is
  a parsed object: Stripe's check throws and the endpoint answers 2xx and drops the event
  (`Drop`, with Stripe in `Unverified`); Razorpay's throws too and is answered 400, so that
  the event is never published.
- `exchange.service.ts:128-129` promises to fall back on a stale value. The key it
  reads has just expired: `FallbackIsNotStale` shows that all it can find is what another
  lookup has stored meanwhile.
- A failure event that is handled again, after a crash between its update and its
  announcement, finds the payment FAILED and is marked as processed without having
  been announced (`AlreadyFailed`). A success in the same position is refused.
- The message of `create-payment.use-case.ts:93-96` names the order statuses `created` and
  `pending_payment`; `processing` and `pending` pass too.

## 4. Proofs

Checked by TLAPS for every value of the constants. The assumptions are those of
the modules: the name `"none"` is not a payment (`NamesAssumption`), `Kinds` are
kinds, the two environment constants of the handlers are Booleans, `LapsingKeys` are
keys, the answers `"none"`, `"busy"` and `"error"` are not clients
(`NoAnswerIsAClient`), and for the newer modules those given with them below.

`PaymentHandlersProofs`: `TypeCorrect`, `CacheSound`, `EventsCommitted`,
`OrdersNotShared`. None of them is inductive: a handler carries
a version in memory from its finder to its write, its cache writes and its event.
`TypeInv` adds to `TypeOK` what a handler past its finder holds and which sort of
key it looks under. `SafeInv` calls a version *sound* when it points at the order of
one of its sessions and the provider issued their orders for that very payment (so
two payments cannot share one). It says that every committed version is sound, that rows, entries and events are
committed versions, that a handler holds a committed version which matches its
key until it marks it, a sound one when it is about to save, a committed one
from then on, and that the version it will announce carries the outcome of its
kind. `Init => SafeInv` and `TypeInv /\ SafeInv /\ [Next]_vars => SafeInv'` are
proved with one step per action; the properties follow. `SaveSession` writes
a mixture of the row and the version in memory (`RewrittenIsSound`), which is why
`TypeInv` also follows `unsaved`.

`OutcomesAnnounced` is proved there too, without any assumption about overlaps or
entries. A terminal status in `history` is *settled* when it is announced, owed by a
handler between its write and its event, or lost with one (`Settled`); `SettledStays` is that no
step undoes this. What is left are the commits. success, failure, cancel and timeout
owe what they commit (`Owes`); create and resolve announce no outcome, so `AnnounceInv` adds that
a terminal status they are about to write is one that was committed before
(`WritesNoOutcome`), and `save`'s rewritten session keeps the status of the row.

`PaymentOutcomesProofs`: `OrdersRecorded`, `CapturesNotLost`, `ResolvedCaptured`, `OneOutcome`,
`LifecycleImplemented`, again without any assumption about overlaps or entries. What
makes them provable is the version a handler started from. `BaseInv` says that a handler about to
write either took the payment for new or holds a version that was committed once, and
that what it writes follows from that version along the table and drops none of its
captures (`MadeFromBase`); elsewhere what it holds is what it knows to be in the row.
So `SaveRow` does one of two things (`RowIsWritten`): if the row is still that version, the
row moves along the table and keeps its captures (`AdvancesRow`); if not, the write starts from
a status of the payment's past, and it is the handler's only one (`OverwritesRow`).
`SessionStep` does the same for `save`'s rewriting of one session, which changes neither
status nor orders and, on an unchanged row, nothing at all; every other step leaves the rows alone
(`WriteOrNothing`). The refinement follows step by step: `AdvancesRow` is `Create`, `Transition`
or a stutter of `PaymentLifecycle`, `OverwritesRow` is `Overwrite` (`LifecycleRow`).
`StandInv` follows what was announced or is owed: while nobody overwrites the payment its
terminal status stays (`TerminalKept`), so its announced outcomes agree.

`IdempotencyProofs`: `TypeCorrect`, `MutualExclusion`, `GenuineReplies`,
`LateDuplicatesAreReplays`. The invariant: outside `LapsingKeys`, a client past `Acquire` implies that the lock is set and that no other is there for
its key (`LockInv`); a client at `store` has run, and so has every client whose result is
stored or was replied (`ResultInv`); a `late` client never gets from its check to
the lock (`LateInv`).

`StrategyDispatchProofs`: `DispatchTypes`, `FirstAttemptsAreOwn`,
`MisdirectionsNeedCompany`, from `CurrenciesAssumption` (orders are priced in
currencies `Money` admits). An order carries over what was true of its attempt, so
the invariant `DispatchInv` speaks of attempts: the strategy in force was selected
by some request (`StrategyIsFounded`), a request under way has a currency that is its
own unless someone selected Stripe (`TryingIsFounded`), its attempt is with a
selected provider and, if it is the first, with its own (`AskingIsFounded`), and
each order is founded in the same way (`OrderIsFounded`). That a selection is never
withdrawn, not even by a restart, is `SelectedStays`.

`ProviderEventsProofs`: `EventsTypes`, `AnsweredLogged`, `MarkedHandled`, `Deduplicated`,
`ConsumedSettled`, with redelivery, from `EventsAssumption`, `NamesAssumption`, `StatusesAssumption`,
`BoundsAssumption`. The heart is `HandIsHeld`: an event in a consumer's hand is disturbed, or the
consumer still has its partition and stands exactly at it. With `KeyedByProvider` (a
partition holds only its own provider's events) it follows that two consumers never hold an
undisturbed event, and that where a consumer has passed an event, something was made
of it. `HandledInv` ties each `pc` to what was done on the way there (`StepIsFounded`),
`OnceOnly` counts announcements. `EventsInv` is their conjunction.

`PaymentTimeoutProofs`: `TimeoutTypes`, `NeverExpiredEarly`, `KeysOnTime`, `PendingTimed`, from
`HopelessAssumption` and `UnitsAssumption`. `DeadlineInv` says that a deadline is
fixed as soon as a row, a key, a notification or a batch depends on it, and that whatever
is told to the worker or in a batch has its deadline behind it. The rounding is
`CeilBounds`: up to whole seconds is at least the time, and less than a second more.

`ProviderCallsProofs`: `CallsTypes`, `VouchedPaid`, `OwnCaptureRepeated`, `ChargedResolved`, from
`OrdersAssumption` and `TriesAssumption`. `Calm` says that an undisturbed payment has at
most one call, which holds the status of the row; `ChargeInv` follows a charge from the
capture to the update; `VouchedIsPaid` needs that a `completed` answer is only ever
in the hands of a call whose order is paid; `Locked` is what the idempotency service gives.

`CachedLookupsProofs`: `LookupTypes`, `FallbackNotStale`, `ServedRecent`, from `KindAssumption`,
`TimeAssumption` and `RatesOutliveFetches` (a rate's 60 seconds exceed its 15 for a fetch and the
Redis commands of one lookup). The argument is about a lookup that has missed: every
entry it can find later was stored after that, by a lookup that fetched it after the entry
before it was gone but for one command (`SeesEntry`, `SeesStore`). So an old rate is not
handed on from entry to entry. `AgeInv` and `EntryInv` bound ages by the clock.

Only model-checked, because liveness under fairness is out of the prover's reach:
`LockIsReleased`, `EveryCreateEnds`, `PartitionsDrain`, `OverdueIsDealtWith`, `CallsEnd` and
`CallersEnd`. Every invariant and action property of a passing run is a theorem.

## 5. Plan

Done: entity, store, handlers and life cycle; idempotency; strategy dispatch; provider
events; payment timeout; provider calls; cached lookups; the safety theorems of each.

Done too: the refinement of `PaymentLifecycle`, one outcome per payment, captures and
announcements as theorems.

Left, in this order:

1. Abstract specifications of single components, and the refinement proved: of
   `Idempotency` (one reply per key while its result lives) and of `ProviderEvents`
   (an event is handled once, refused, or disturbed).
2. In `Idempotency`, the kind of a call: create, resolve and cancel share one result
   key, so a duplicate may be given the result of another operation. No document
   says whether keys of different operations may coincide, so there is no
   property to state yet.
3. The refund operations, once something calls them.

## 6. Not modelled

- *Refunds.* The entity, its repository and the strategies' refund operations have no caller:
  no use case, consumer or endpoint reaches them, so there is no behaviour. For the same
  reason `StrategyContext.resolvePayment`, the entity's `setRefund` and the user client are left out.
- *gRPC controller.* It maps requests to use cases and results to replies; no state, no decision.
- *Rounding of amounts.* Items are converted and rounded one by one. A rate other than 1 never
  gets that far, because `Money` has no `setAmount` and the conversion throws, so the sums
  are those of the order.
- *Generated protobuf stubs.* Some 22,000 of the repository's 31,500 lines of code: encoders and
  decoders without a line of payment logic. Configuration, dependency wiring, authentication,
  logging, metrics and tracing have no payment state either.
- *Wire formats and signatures.* How a webhook's signature is computed, Avro, and the JSON of
  providers; what the service does when a check fails is modelled.
- *The timeout use case.* Its file is missing from the repository; see section 2.
- *Wiring.* `main.ts` and `AppModule` connect neither the Kafka consumer nor the schedulers.
  The models are of the handlers as they behave when called.
- *Redis evicting* entries, locks or keys before their TTL, and clocks that run backwards.
