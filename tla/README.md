# A TLA+ verification of the RedCart platform

RedCart is a small shop: consumers browse notes and products, fill a cart, place,
pay, cancel and receive orders; merchants keep a catalog, ship orders, approve
refunds and have texts generated. The backend is Go over PostgreSQL, with Redis for
sessions, caches and the rate limiter, and an outbox that feeds Kafka. This directory
holds TLA+ modules for the parts where handlers, transactions and processes meet, TLC
runs over small instances, and TLAPS proofs for every instance.

Paths below are relative to `src/`; `app/` is
`backend/internal/redcart/application/`, `pg/` and `redis/` are
`backend/internal/redcart/infrastructure/postgres/` and `.../redis/`.

## 1. Inventory

| Component | State | Operations | What makes it correct |
|---|---|---|---|
| Order state machine (`backend/internal/order/domain`, `app/service_order_idempotency.go`) | none; status and four timestamps of an order | `CanTransition`, `Transition`, `IsTerminal`, the `...AlreadyApplied` guards | only legal transitions; a repeated call is told from a conflict |
| Order handlers (`app/service_order.go`, `service_order_helpers.go`, `service_merchant.go`) | none of their own; control inside a request | `CreateOrder`, `PayOrder`, `CancelOrder`, `FinishOrder`, `RequestRefund`, `MerchantShipOrder`, `MerchantApproveRefund`, the lists and views | status, stock, locks and journals move together; an "ok" is true; every call ends; a view is not behind itself |
| Storage (`pg/order_repository.go`, `sku_repository.go`, `inventory_lock_repository.go`) | `orders`, `product_skus`, `inventory_locks`, row locks | `SaveOrderWithInventoryLocks`, `UpdateOrderStatus` and their transactions | stock accounted for and within its bounds; waits end |
| Merchant catalog (`app/service_merchant.go`) | `products`, `product_skus` | `MerchantUpdateSKU`, `MerchantSetProductStatus`, `MerchantUpdateProduct`, creation | a field has the value that was set last |
| Journals (`pg/order_event_repository.go`, `behavior_repository.go`) | `order_events`, `behavior_events` | appends in and after transactions | every change recorded, nothing invented |
| Outbox and relay (`pg/outbox_repository.go`, `backend/internal/event/outbox/publisher.go`) | `outbox`, `outbox_dead_letter`, a batch in flight | `Append`, `tick` (poll, publish, mark, commit) | published means delivered; every event delivered or given up |
| Kafka publisher and consumer (`backend/internal/event/kafka`) | topic, offsets, deduplicator, dead letter topic | `Publish`, `processMessage`, `CommitMessages` | every event handled at least once, not twice without a failure |
| Catalog cache (`redis/catalog_cache_repository.go`) | an in-process map and Redis keys per product, SKU and list | read-through, write, evict | a reader sees no value older than promised |
| Sessions and accounts (`redis/session_repository.go`, `app/service_auth.go`) | token pairs in Redis, caches per instance, users | `Register`, `Login`, `RefreshSession`, `Logout`, `Authenticate` | a token that was given up is not accepted for long |
| Rate limiter (`redis/ratelimit.go`, `interfaces/httpapi/middleware_ratelimit.go`) | a token bucket per key | `Allow` | never more than burst + rate x time; a wait that was announced is enough |
| Cart (`app/service_cart.go`, `pg/cart_repository.go`) | `cart_items` | add, update, delete, empty at checkout | additions are not lost; a checkout empties what it ordered |
| Browsing and dashboard (`app/service_catalog.go`, `service_dashboard.go`) | view counters, behaviour events | reads, counters, the funnel | counts follow the deeds |
| AI copilot (`app/service_ai.go`, `backend/internal/ai`) | generation tasks | generate, read | a task ends; it is its merchant's alone |
| Wiring and migrations (`backend/cmd/api`, `pg/migrate.go`) | the repository put together | start-up | the relay starts |
| HTTP interface, frontend, Python AI service | - | routing, texts | - |

How they interact. An HTTP request runs one handler; a handler calls the
repository, which runs SQL statements on PostgreSQL, alone or inside one of two
transactions. Handlers of different requests, and of different processes, meet
only in the rows and their locks. The handlers that move stock write their order
event and outbox row inside the transaction; the others append after COMMIT. The
relay reads the outbox and calls the Kafka publisher; consumers read the topic.
The Redis decorators wrap the repository: reads go through them, but the SKU rows
that a transaction writes do not, and neither do the relay's methods.

Hard behaviours: interleavings of statements under READ COMMITTED, waits on row
locks and index entries, transactions aborted in the middle, lost COMMIT answers,
process crashes, repeated calls, writes that happen after COMMIT, copies of a row
that outlive it in two levels of caches, redelivery and rebalances, clocks that
disagree. The `hazards` of `PROJECT.json` list them line by line.

## 2. How the modules were planned

Each component has a module with its state and one action per statement, call or
access; a module of its properties; an `MC` module with constants for TLC; and,
where there are theorems, a module of proofs. They were written in this order.

1. **Orders.** `OrderStatus`, `OrderStore`, `OrderService`, the abstract
   `OrderLifecycle` that it implements, and `OrderViews`, which puts a reader
   beside the handlers.
2. **Events.** `OutboxRelay` (several relays, the broker's uncertain answers,
   crashes, lost transactions); `Deployment`, the relay as `main` starts it;
   `EventConsumer` (redelivery, rebalances, deduplication, dead letters). Relay and
   consumer meet in the topic: `EventConsumer` takes any sequence of records, with
   repetitions, and so every one the relay can make.
3. **Caches.** `CatalogCache` and `Sessions`: two levels, several instances.
4. **The shop.** `Storefront`: cart, notes, product pages, funnel.
5. **The copilot.** `RateLimiter` and, composed with it, `Copilot`.

Left for later: `Conservation` as a theorem for several orders whose handlers only
check out.

## 3. Orders

| Module | What it is |
|---|---|
| `OrderStatus` | statuses, legal transitions, `...AlreadyApplied`; no state |
| `OrderStore` | the rows and row locks of PostgreSQL as the repository uses them |
| `OrderService` | the handlers, one action per SQL statement, with failures |
| `OrderLifecycle` | the abstract promise about one order, in atomic steps |
| `OrderProperties` | types, invariants, action properties, fairness, the refinement |
| `StockAccounting` | stock columns against the orders that account for them |
| `OrderViews` | a reader of orders beside the handlers |
| `MCOrderService`, `MCOrderViews` | constants for TLC |
| `OrderInvariant` | the inductive invariant |
| `OrderService_proofs`, `OrderEffects_proofs` | the proofs, the second on top of the first |

**State.** `OrderStore` keeps each SKU row in two versions: `skuRow`, committed, and
`skuDraft`, the newest, which differ while `skuHolder` names a transaction. The
writes of a transaction to its order, the order's locks and the journals are
protected by the order's row lock (`orderHolder`) and are published in the COMMIT
action; nobody else can see or change them before. An order is its status, the
set of its non-NULL timestamps, its user, merchant and key. `locks[o]` are its
`inventory_locks` by id. `journal` has the tables an order writes to.

`OrderService` adds a client per handler in flight: `pc` names its next
statement, `req` its request with the status it read, `todo` the lines of the
order it has still to work on, `row` the SKU it read, `pending` the appends left
after COMMIT. `faults` counts failures against `MaxFaults`. `OrdersSpec` is
`Spec` without catalog edits.

| Actions | Code |
|---|---|
| `CreateOrder`, `CheckLine` | `CreateOrder` up to the transaction; `normalizeCheckoutLines` |
| `ReserveSKU`, `InsertOrder`, `Commit` | `SaveOrderWithInventoryLocks`: the conditional UPDATEs in SKU order, the INSERTs, COMMIT |
| `ChangeStatus` and its six instances | each handler before its transaction: ownership, repeated call, transition |
| `LockOrder` | `UpdateOrderStatus`: BEGIN, SELECT FOR UPDATE, compare, UPDATE |
| `ReadSKU`, `SaveSKU` | the side effects: `tx.GetSKU`, underflow check, `tx.SaveSKU`, `UpdateInventoryLock`, lock by lock |
| `Commit`, `AppendAfterCommit`, `Reread` | COMMIT; the ignored appends after it; the look at the order after a failure |
| `MerchantUpdateSKU`, `UpdateSKU`, `MerchantSetProductStatus` | the merchant's edits |
| `StatementFails`, `CommitAnswerLost`, `Crash`, `DeadlockVictim` | the failures a transaction can meet; every one runs the deferred ROLLBACK |
| `ListOrders`, `MerchantListOrders`, `GetOrder`, `ReadNext` (`OrderViews`) | `enrichOrderView`: the row, the events, the locks, in statements of their own |

**Abstractions.** The status a handler passes as `fromStatus` is a literal in the
code; the model passes the status it read, which is the same because the transition
check has passed for exactly one source status (two for a refund request, where the
code passes the status it read as well). Prices, addresses, remarks and the layout of
views are left out; a lock's quantity and the stock columns are numbers. An order id
is drawn when the checkout starts, so that two checkouts never draw the same. Each
append after COMMIT is one statement. A statement that fails inside the transaction
aborts it, so the two appends in a transaction, whose errors the code ignores, are
there when it commits. A checkout looks at its lines in the database. The deployed
program, which requires Redis (`backend/cmd/api/repository_factory.go:52`), looks
into the caches first, where a row may be older; no property of the orders rests on
that look, because the conditional UPDATE of the reservation decides what is sold.
What a checkout does to the cart is in `Storefront`. A look at one order of a list is
a look of its own: its row was read with the rows of the others, and nothing relates
two orders of a list. A query that fails, or a row that cannot be scanned, leaves the
rows read before it (`Rows`).

**The abstract life of an order.** `OrderLifecycle` has no handlers, transactions
or failures: status, locks and the records of payment, cancellation and refund in
both journals move in one step along the state machine, and a record goes from
"never" to "once" and never to "again". `ImplementsLifecycle` maps the committed
rows to it.

## 4. Events

**`OutboxRelay`.** `outbox` and `draft` are the committed and the newest version of
each row: the table it is in, `retry_count`, whether `published_at` is set. `holder`
is the relay whose transaction has locked it. `copies` counts an event's copies in
the broker's topic (external code, modelled from how `kafka/publisher.go` calls it:
an error does not say whether the broker took the event). A `Publish` that succeeds
makes one copy, and one that fails at most one: the kafka-go writer
(`kafka/publisher.go:46`) keeps its default number of attempts and may make more in
one call, which the counts of `DuplicatesAreExplained` leave out. A relay has a `pc`,
the rest of its `batch`, what it has `sent`, and `lost`: PostgreSQL has ended its
transaction, and it has not noticed yet.

| Actions | Code |
|---|---|
| `Record` | the COMMIT of a handler that appended an outbox row |
| `Start`, `Wake` | `Publisher.Start`, `loop`, `Stop` |
| `Poll`, `PollFails` | `tick`: `BeginTx`, `PollPendingInTx` (`SKIP LOCKED`, `LIMIT`) and their errors |
| `Publish`, `PublishFails` | the loop of `tick`: `Publish`, `MarkFailedInTx` |
| `MarkPublished`, `Commit`, `NoticeLoss` | `MarkPublishedInTx`, COMMIT, and their errors |
| `LoseTransaction`, `Crash` | a statement that fails or a lost connection; the process dies |

A failed `MarkFailedInTx` is `PublishFails` with `LoseTransaction` before it: the
statement that fails ends the transaction, the relay logs and goes on. A COMMIT
whose answer is lost leaves what `Commit` leaves. Payloads, topics and error
texts are left out; events are numbers, in the order of `created_at`.

**`Deployment`** adds what `main` does before `Start`: it asks the repository for
the relay's interface. A repository is the set of interfaces it implements, and a
Redis decorator, which embeds `application.Repository`, has that interface and
its own methods only.

**`EventConsumer`.** One partition of a topic and the consumers of its group: an
event's key is its id, so that its copies are records of one partition. The
broker is external: it gives the partition to one member (`owner`), from the
committed offset on; a former owner hears of it late (`Revoked`), and its commit
may be taken or refused. A consumer has a `pc`, its fetch `position` and the
`message` in its hands. `shared` says whether the deduplicator is a store that
outlives the processes or the in-memory one, and `seen` is what it knows; both
kinds are initial states. Every call of `processMessage` (fetch and decode, ask
the deduplicator, handle, mark, write to the dead letter topic, commit) is a step,
so that a crash or rebalance comes between any two. Every error ends `Start`; its
caller closes the consumer and may make another. The handler and the topic are
external and never name an event they were not given.

## 5. Caches and sessions

**`CatalogCache`.** Rows do not meet in the caches, so a behaviour follows one row: a
product, or a SKU with the list it is in. The row is its version, the number of its
writes. Every call of the decorator is its list of accesses (`load_redis`,
`read_row`, `save_local`, `save_redis`, `drop_local`, `drop_redis`), in the order of
the code, and the accesses of all calls interleave. A save writes the row and then
both levels; a checkout writes the SKU and then evicts; `UpdateOrderStatus` writes it
through the embedded repository and leaves the caches. An access to Redis may fail,
which the code ignores. Time goes by in ticks: an entry lives `TTL` of them, and a
call takes at most `CallTime`: its accesses to Redis have a timeout, and its
statement in PostgreSQL, which has none, is assumed to end in that time. A row is
read without an error. A product or SKU that cannot be read is not kept; a list whose
query fails (`pg/sku_repository.go:12`, `:20`) is, as an empty or shorter list
(`redis/catalog_cache_repository.go:162`), and has no version that a bound on its age
could speak of. An entry that came from Redis lives a whole `TTL` in the local cache.
`past`, the ticks since a version was overwritten, and `quiet`, an instance's newest
write that nothing disturbed, are history: no action's guard reads them. A hit in the
local cache changes nothing and is no step.

**`Sessions`.** A session is a pair of tokens. Redis has a record under each
(`redis`, the ticks it has left, and `record`, the shop it names); every instance
keeps what it was told of a token, also that it is unknown (`local`), and, without
an end, the shop of a user (`shops`). Calls are lists of accesses again: a save of
a pair is one step, because nobody has its tokens before the call is over, and
consecutive writes to the memory of one instance are merged where no other access
can tell. `Delete` first drops the local entry, then reads the record to find the
partner. A refresh authenticates, deletes and issues; two at the same time both
do. `gone` (the ticks since a record was deleted), `ended` (pairs ended by a call
nothing disturbed) and `misled` (a shop looked for too early or in vain) are
history. `Grace` is the longest an instance may honour a deleted token: one life
and the time of a call.

Left out: `user_repository.go`'s in-memory sessions, which the deployed program
replaces by Redis; the hashing of passwords; the jitter of lives, which the constants
include.

## 6. The shop and the copilot

**`Storefront`.** One consumer, one product with its SKUs, one note that links it, and
its merchant; the requests of one account run side by side. Every handler reads a
row, changes the copy in memory and writes it back by its id outside of a
transaction, and each of these is a step: a call in flight carries its copy. Cart
lines have ids and a selection; nothing keeps two lines of one SKU apart. Products
are read through the caches, which may still have any value the row has had
(`past`); how old it may be is the subject of `CatalogCache`.

| Actions | Code |
|---|---|
| `AddCartItem`, `InsertLine`, `UpdateLine` | `AddCartItem`: the look at the product and the cart, then INSERT or UPDATE |
| `UpdateCartItem`, `UpdateLine`, `DeleteCartItem` | the handlers of these names |
| `CreateOrder`, `PickLines`, `PlaceOrder`, `DeleteSelectedCartItems` | the checkout of the cart: the key, the lines selected, the order, the emptying |
| `GetNote`, `CountView`, `GetProduct` | the pages, for visitors who are known or not |
| `MerchantUpdateProduct`, `MerchantSetProductStatus`, `SaveProduct` | the merchant's edits |
| `AppendEvent` | `AppendBehaviorEvent`, with an error that is ignored |
| `Fail` | a statement that ends its request, a process that dies |

A failed statement ends its request only where the code looks at the error. A query
for a list does not report one: `ListCartItems(n)` is the cart up to the id `n`, all of
it or, with a fault, any part, none included. `AddCartItem` then inserts a second line
for a SKU that has one, and a checkout orders a part of what it will delete. A lookup
of the key that fails finds no order, and the index on the key refuses the second one.
A checkout that names a SKU twice is refused (one lock for each in an order), so that
a cart with two selected lines of a SKU cannot be checked out. Otherwise the order is
placed or refused; the stock is `OrderService`'s subject.

Anonymous visitors are counted and leave no event: `GetNote` takes `known`, and an
anonymous `GetProduct` changes nothing and is no step. An event whose product cannot
be read (`primaryMerchantID`) has no merchant, which is the failing `AppendEvent`:
`journal` has the events with the merchant's id. `Funnel(e, failed)` is what a dashboard
may show: the events in `journal`, or, when `ListBehaviorEvents` fails, the first of
them or none. The merchant's session knows the shop; one that does not (see
`ShopIsNotForgotten`) counts the events without a merchant instead.

`due` (units put in and not taken out), `visits`, `done` (deeds of known visitors),
`set` (the fields the merchant set last) and `upset` (what was written over with an
old copy, or deleted without having been ordered) are history, and the properties say
exactly when a count or a field may be wrong: what the code does lose they exempt,
and they bound. A sum of quantities is the cardinality of the set of units counted
(`Total`): finite sets are what the proofs can reason about.

**`RateLimiter`.** The script runs in Redis in one step, by the caller's clock,
which is up to `Spread` ahead. One token is `Cost` ticks, so that the script's
fractions are whole numbers: `tokens` counts ticks, `Full` is a full bucket. The
assumption `Spread <= Full` says that clocks differ by no more than a bucket takes
to fill; a key lives twice as long as that, or a second.

**`Copilot`** puts the middleware and the handlers of `service_ai.go` on top: a
request is let through, turned away with a time to wait, or passes an open gate when
Redis does not answer, whether or not the script ran. A handler inserts a task, asks
the provider (an answer or a failure) and updates the task; a surface leaves nothing
behind. A session may not know the shop of its merchant (see `ShopIsNotForgotten`),
so a request carries the shop or `None`. Who may read a task is modelled for
merchants; other users read tasks of their own, and make none. Statements take no
ticks, the provider may. `hint`, `vain` and `lost` are history.

## 7. Runs

| Run | Instance | Properties |
|---|---|---|
| `OneOrder` | 2 clients, 1 order of 2 SKUs in ascending order, all handlers, 1 fault | `TypeOK` `LocksFollowStatus` `StampsFollowStatus` `AckedIsApplied` `JournalIsTrue` `Conservation` `LegalSteps` `ImplementsLifecycle` |
| `TwoOrders` | 2 clients, 2 orders, baskets in both orders, checkouts, cancellations, fairness, no faults | `StockBounds` `OneOrderPerKey` `EveryCallIsAnswered` |
| `MerchantEdits` | 2 clients, 1 order, 1 SKU, odd baskets, checkouts, payments, cancellations, edits of the SKU, its product going off sale and back, a reader, 1 fault | `NoNegativeStock` `ViewIsNotBehind` |
| `Relaying` | 2 relays, 2 events, batches of 2, 2 retries, 2 faults, fairness | `RelayTypeOK` `PublishedIsDelivered` `OneRelayPerEvent` `DuplicatesAreExplained` `NoRepublication` `EveryEventIsSettled` |
| `Consuming` | 2 consumers, 2 events and a record that does not decode, a topic of 2 records, 2 faults, fairness | `ConsumerTypeOK` `CommittedIsSettled` `EffectsAreExplained` `SeenIsHandled` `EveryRecordIsSettled` |
| `Caching` | 2 callers, 2 instances, `TTL` 1, `CallTime` 1, 1 write | `CacheTypeOK` `BoundedStaleness` `QuietWriteIsSeen` |
| `Sessions` | 2 callers, 2 instances, access tokens live 0 ticks, refresh tokens 1, `CallTime` 1, 3 calls, 2 pairs, 2 faults | `SessionTypeOK` `RevocationIsBounded` `QuietEndIsFinal` `ShopIsNotForgotten` |
| `Storefront` | 2 callers, 2 SKUs, 2 keys, 2 titles, quantity 1, 5 calls, 1 fault | `StorefrontTypeOK` `CartIsKept` `ViewsAreCounted` `ProductIsAsSet` `FunnelFollows` |
| `Copilot` | 1 user and 1 other merchant, 2 callers, burst 1, cost 2, second 2, spread 2, 6 ticks, 4 calls, 2 tasks, 1 fault | `RateIsKept` `WaitIsEnough` `TaskIsSettled` `TasksArePrivate` |
| `Oversell` (violation) | 2 clients, 3 orders of 1 SKU, checkouts with payments and cancellations | `NoOverselling` |
| `SameKey` (violation) | two checkouts with one key | `RepeatedCreateReturnsOrder` |
| `Deployed` (violation) | 1 relay as `main` starts it, 1 event, fairness | `EveryEventIsSettled` |

The comment above each property says what it claims. `OneOrder` is the life of an
order under races and failures, with the refinement; `TwoOrders` shows that
transactions which walk two SKUs in opposite orders do wait for each other and that
every call is answered all the same, because the deadlock detector picks a victim.
`MerchantEdits` looks at one SKU and an order while the merchant writes old values
back and takes the product off sale. Payments are not in `TwoOrders`; `StockTheorem`
covers all handlers. `Storefront` has the same calls with and without a failed read,
which makes a second line for a SKU even of requests that come one after the other.

The violations are disagreements between the code and what the repository says of
it; `findings` quotes the lines. With payments or cancellations in flight the
absolute row write loses updates of `locked_stock`, and units are sold twice
(`Oversell`). `Conservation` is therefore checked for one order, where the row
lock keeps its handlers apart; `StockBounds` survives several, because the
conditional UPDATE and the underflow checks look at the row that is there. A
second checkout with a key gets the index's error and not the order (`SameKey`).
Behind the Redis decorators the relay never starts (`Deployed`); `Relaying` shows
what holds of relays that are started.

More divergences were read while modelling and have no run of their own:

- creation, shipping, receipt and refund requests append their order event after
  COMMIT and ignore the error, so that a crash or failed insert loses it, or a fast
  payment's event comes first, although
  `docs/architecture/order-state-machine.md:30` wants every status change in
  `order_events`; `JournalIsTrue` claims presence only for payments,
  cancellations and refunds;
- a failed publication does not roll the relay's transaction back, as
  `docs/adr/0006-message-queue-and-event-driven.md:38` says: it is counted and the
  tick commits; later events of the same order may then overtake it;
- the condition `retry_count < 5` of the poll keeps an event with exhausted retries
  from ever reaching the branch that moves it to the dead letters;
- a list of SKUs whose query fails is cached as an empty or shorter list, and shown
  until it expires;
- a cart with two selected lines of one SKU cannot be checked out: the index on order
  and SKU refuses the second lock;
- an update of a SKU that leaves the stock out empties it;
- a product or SKU taken off sale between the look at a line and its reservation is
  sold all the same;
- `order_no` is `UnixNano` modulo 10^14 under a unique index.

**Bounds.** Two handlers are enough for every race on one row or one order; the
second order of `TwoOrders` brings rows of two orders and keys together. Two SKUs
give a transaction a second statement to fail at and a second lock to wait for. Stock
of two units makes both outcomes of every comparison reachable. One fault puts a
crash, a failed statement or a lost answer at every point; `MaxFaults` bounds nothing
else. In `Relaying` two events fill one batch, two retries let an event fail, come
back, and fail for good (no event stands behind the head of another batch), and two
faults let a second relay lose its transaction while it repeats what the first one
left; the code's 5 retries and batches of 100 are the constants `MaxRetries` and
`BatchSize`. In `Consuming` two records are a copy of one event, two events, or an
event and garbage, and two faults are a rebalance and a crash in either order. In
`Caching` one write tells old from new, and a life of one tick is one that can run
out between two accesses; the theorem covers the rest. In `Sessions` the two lives
differ, three calls are a registration or login, its logout or rotation, and a third
party, and two faults let a failed deletion meet a restart. In `Storefront` five
calls are two additions, a change and two checkouts, and one fault is a failed read,
a lost event or a crash at any of them (688,780 states). In `Copilot` a bucket of one
token refills in two ticks, a second has two, so that a wait of one tick is rounded
up, and six ticks let a key expire and be made again.

Clients, orders, keys, callers and instances are interchangeable, so the safety
runs use symmetry; the runs with fairness do not. `CHECK_DEADLOCK FALSE` is given
where the bounds on calls, events or faults let the system stop.

**Fairness.** In `OrderProperties` the server runs the statements of a handler (weak
fairness); a statement that waits for a row or an index entry gets it if it is free
again and again, because PostgreSQL queues waiters (strong fairness); the deadlock
detector acts on a cycle (weak fairness). Calls and failures are never forced. In
`OutboxRelay` a relay that is down is started again, its timer fires, and its
statements and the broker answer, with success or with an error; none of them
waits for a lock (`SKIP LOCKED`), so weak fairness is enough; `Deployment` assumes
the same of `main`. In `EventConsumer` a process works, is closed after an error
and started again, and the group gives a free partition to one of its members
(weak fairness); faults are finite, as in every run that asks for an end.

## 8. Proofs

Eight modules hold theorems, for any values of the constants that the assumptions
(`StoreAssumption`, `ServiceAssumption`, `RelayAssumption`, `ConsumerAssumption`,
`CacheAssumption`, `SessionAssumption`, `StorefrontAssumption`, `LimiterAssumption`,
`CopilotAssumption`) allow. TLC evaluates the assumptions on every run. Each theorem
`Spec => []P` has an inductive invariant behind it, which TLC has checked on the
run of `P` before it was proved; the paragraphs say what it adds to `P` and why `P`
is not inductive without it.

**`OrderService_proofs`**: `TypeCorrect` (`Spec => []TypeOK`), `LocksTheorem`
(`[]LocksFollowStatus`), `Legality` (`LegalSteps`), `StampsTheorem`, `KeysTheorem`,
`AnswersAreTrue`. They rest on `Invariance`: `Spec => []Consistent`. The invariant
(`OrderInvariant`) adds to the types what each client is entitled to at its
statement: a request of the right shape for its `pc`; lines of `todo` that are lines
of its basket or of its order's locks; that a client between `insert` and COMMIT, or
between `lock` and COMMIT, holds its order's row; that the status of a held order is
still the one the holder read, from which its transition is legal; that checkouts in
flight have distinct ids of orders not placed yet. `LegalSteps` and
`LocksFollowStatus` are not inductive without it: a COMMIT moves the order from the
status in `req`, and only the row lock says that it is still the order's status. The
proof has one lemma per action for the acting client (`OwnStep` ...), one for the
clients that stand by (`Bystanders`), and a lemma that only COMMIT moves an order
(`OnlyCommitMoves`). Timestamps: each legal transition adds its own. Keys
(`KeysApart`): between its INSERT and its COMMIT a checkout excludes every other with
its key, committed or in flight, which is what the unique index does. Answers
(`DoneWhenAnswered`): what a handler was asked for has happened from its COMMIT on, or
when a guard of a repeated call holds, and it is never undone (`DoneStays`); the guards
are sound only because the timestamps are.

**`OrderEffects_proofs`**, stock: `SignTheorem` (`Spec => []NoNegativeStock`, with
catalog edits) and `StockTheorem` (`OrdersSpec => []StockBounds`; an edit may set the
stock below what is locked). Neither is inductive: a row that is written back is one
that was read before. So the bounds are kept for committed rows, drafts and the rows
in the hands of handlers (`RowsSigned`, `RowsBounded`), and `Quantities` says that what
a checkout or a lock moves is positive, because `CheckLine` has refused anything else
before the first reservation.

`ConservationTheorem` (`OrdersSpec => []Conservation`) has the hypothesis that
`OrderIds` has no two members, because with two it is false (`Oversell`); clients,
SKUs, baskets and faults are any. The columns are equal to what the locks say only
between transactions, so the invariant follows a transaction line by line
(`Rewrites`): each row it has written is the committed row with its line accounted
for, it holds no other row, and the row it is about to write back is still the
committed one. A checkout names a SKU once or fails at its INSERT (`LocksApart`), so
that no line overwrites another. Nobody interferes, because only one handler at a
time is on its way to the order's insertion or holds its row (`OneHasOrder`). COMMIT
then moves rows and locks together (`PlacedBalance`, `MovingBalance`). A SKU has at
most one line, so `Units` never adds up more than one quantity.

Journals, refinement, views: `JournalTheorem` (`[]JournalIsTrue`), `Refinement`
(`Spec => ImplementsLifecycle`), `ViewTheorem` (`ViewSpec => []ViewIsNotBehind`). A
handler that has committed still owes some of its appends; `AppendsAreNew` says that
the event it owes is in no log yet, has happened, and is owed by nobody else, and with
it `LogsAreTrue` is inductive. The refinement follows: by `Mapped` the abstract
variables are functions of each order's status, so that a COMMIT is one abstract step
(`CommitMapped`) and all else is a stutter. For the views `Kept` says that what a
reader was shown of an order has happened to it, and stays so; what it reads next is
then no older (`ViewInv`).

**`OutboxRelay_proofs`**: `RelayTypes`, `MarksAreTrue` (`[]PublishedIsDelivered`),
`RelaysAreApart` (`[]OneRelayPerEvent`), `NoSecondPublication` (`NoRepublication`).
They rest on `RelayInvariance`: `Spec => []RelayConsistent` (`OutboxInvariant`). It
ties a row's lock to the relay's place in its tick: only a relay with a live
transaction holds rows, it holds all it has in hand, a row differs from its
committed version only while it is held, and a held row is pending and unmarked.
Without it no conjunct is inductive: that a marked row is never polled again
needs that its draft was not hiding the mark, and a rollback keeps marks true
only because held rows have none. One lemma per statement of `tick`.
`DuplicatesTheorem` (`[]DuplicatesAreExplained`) counts on top of it: `Debt` is the
copies of an event and those that relays adrift will still make; `Explained` bounds
it by the retries of the row and of the version a rollback returns to; `InOrder`
says that what a live relay has not published is untouched, and that what it has
sent is marked before COMMIT.

**`EventConsumer_proofs`**: `ConsumerTypeTheorem`, `AtLeastOnce`
(`[]CommittedIsSettled`), `SeenTheorem` (`[]SeenIsHandled`), `CopiesAreAbsorbed`
(`[]EffectsAreExplained`). A commit names one record and settles all before it, so the
invariant says of every consumer that what is before the record in its hands
(`InHand`), and before the position it fetches from (`Behind`), is settled; a rebalance
makes these two differ, and a former owner may commit an older offset. What is settled
stays settled. How often an event is handled is counted by `EffectsInv`: the consumers
that would handle it as things are (`Ready`) are added to the times it was, and one
more for a partition that is there to be given (`Slack`), because a consumer gets
ready only by being given the partition.

**`CatalogCache_proofs`**: `StalenessTheorem` (`[]BoundedStaleness`),
`CacheTypeTheorem`, `QuietWriteTheorem` (`[]QuietWriteIsSeen`). The bound runs along the
way of a copy: one on its way into Redis came out of the row after its call began
(`Fresh`); one from Redis has a life more behind it (`Modest`); and what an entry has
left counts as age already (`RemoteAge`, `LocalAge`), so that a tick changes neither
sum's bound. For the quiet writes `SeenInv` looks at what is still to be done: a copy
that will be kept is no older than any quiet write (`NotBehind`), and a write that is
alone has replaced, or has yet to replace, each entry of its row (`Undisturbed`).

**`Sessions_proofs`**: `SessionsTyped`, `RevocationTheorem` (`[]RevocationIsBounded`),
`QuietEndTheorem` (`[]QuietEndIsFinal`), `ShopTheorem` (`[]ShopIsNotForgotten`). What an
instance remembers can come from a call that read the record before it was deleted, so
all of them speak of the accesses calls have still before them: `CallsInv` (lookups
first, the shop read once and before it is used), `PairsInv` (calls make different
pairs, whose tokens nobody has before the call is over), and on top of these
`RevocationInv` (a copy on its way is no older than its call), `QuietInv` (a call that
ends a session alone has ended both tokens or will) and `ShopInv`.

**`Storefront_proofs`**: `StorefrontTypes`, `CartTheorem` (`[]CartIsKept`),
`FunnelTheorem` (`[]FunnelFollows`), `ViewsTheorem` (`[]ViewsAreCounted`),
`ProductTheorem` (`[]ProductIsAsSet`). `Sound` says how the row a call is about to
write goes with the copy it took. `CartInv` adds that a call's line, if it is still
there, is of the SKU it was (`IdsStand`: ids are not given twice), counts the
requests that are about to insert a line, and the failures, among the lines
(`FewLines`: a read that misses a line is a failure), and balances cart, orders and
what is owed (`Balanced`); what a checkout picked is counted for any part of the cart
it may have read (`PickedUnits`). It rests on lemmas about `Total`: what a count
becomes with one place more, another value in one place, or without a part.
`FunnelInv` bounds the deeds from both sides (`Told`): by those told and the requests
about to tell, and by these and the failures; a dashboard read in part shows no more
than the whole. `ShopInv` says of a count in hand that it does not exceed the views.

**`Copilot_proofs`**: `RateTheorem` (`LimiterSpec => []RateIsKept`), `CopilotIsLimited`
(`Spec => LimiterSpec`: the requests implement the limiter) and with it `CopilotRate`;
`WaitTheorem` (`[]WaitIsEnough`), `TaskTheorem` (`[]TaskIsSettled`), `PrivacyTheorem`
(`[]TasksArePrivate`). `Paid` relates the bucket to the admissions: every request since
the one at `admitted[u][i]` was paid from the full bucket or from what refilled until
the bucket's time. When Redis has forgotten the bucket, `Expires` says that a whole one
has refilled by then. A wait that was told is a promise about the bucket which every
later refusal leaves as it is (`Promised`).

**Only model-checked**: liveness (`EveryCallIsAnswered`, `EveryEventIsSettled`,
`EveryRecordIsSettled`). Liveness under fairness, ENABLED, and what recursively defined
operators compute for every input are beyond the proof system installed here; this is
also why no theorem adds up the locks of several orders.

## 9. Not modelled

- **HTTP interface**: routing, decoding and error mapping; no state of its own.
- **Frontend, Python AI service**: clients, and a stateless text generator.
- **Merchant operations**: creating a product or SKU only adds a row nobody holds.
- **Sessions**: the in-memory table, which the deployed program does not use; password
  hashing.
- **Browsing and dashboard**: lists and sums over one read. An event
  without a product counts for no product in `DashboardProducts`.
- **AI copilot**: prompts, the texts of a surface, the mock provider. The
  context of a surface names each product's own id as its SKU, and says so.
- **Wiring and migrations**: the migration runner (several instances that start
  at once may apply a migration twice), demonstration data, the profiler.
- **Kafka**: topic names; the order of an order's events in the topic, which
  nothing promises; `Start` called again on a consumer that has returned.
