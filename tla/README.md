# Verification of the orders system

TLA+ modules, TLC configurations and TLAPS proofs for the two services of this
repository: `orders-service` (REST, GraphQL, WebSocket, RabbitMQ worker;
PostgreSQL) and `payments-service` (gRPC; its own PostgreSQL), with the broker
between the HTTP half and the worker half of the orders service. Paths below are
relative to `services/orders-service/src/modules/` unless they start elsewhere.

    tlc -workers 2 -config OrdersProcessor_faults.cfg MCOrdersProcessor.tla
    tlapm OrdersProcessorProofs.tla

`PROJECT.json` lists the runs, a mutant for every property, the source lines
behind every definition, the hazards and the theorems.

## 1. The system

| component | state | operations | interacts with |
|---|---|---|---|
| message channel, `rabbitmq/rabbitmq.service.ts` | durable queue `orders.process`, its dead-letter queue, one connection and channel, prefetch | `connect`, `assertInfrastructure`, `publish`, `consume`, ack/nack by the consumer | published to by `createOrder` and by retries, consumed by the worker |
| order processor, `orders/orders-processor.service.ts`, `orders.service.ts:279-371` | `order`, `order_items`, `product.stock`, `processed_messages` | `handleMessage`: parse, one transaction (insert the message id, read the order, lock the products, deduct, mark PROCESSED), ack / retry / dead-letter | channel, PostgreSQL |
| order creation, `orders.service.ts:102-244` | `order`, `order_items`, `idempotencyKey`, `paymentId` | `createOrder`: look up the key, insert, `Authorize` with a timeout, link the payment or roll back, publish | payments service, channel |
| payments service, `services/payments-service/src` | `payments` with a unique key | `Authorize`, `GetPaymentStatus` | called by `createOrder` |
| courier assignment and tracking, `orders.controller.ts:82-98`, `order-tracking/` | `order.courier_id`, `order_tracking` | `PATCH /orders/:id/courier`, `courier_location_update` | writes the order row that the worker and `createOrder` write |
| delivery gateway, `realtime/delivery.gateway.ts` | sockets, their user, rooms | connect with a token, subscribe to an order, location update and its event | tracking, JWT |
| files, `files/` | `file_record` (owner, key, status), the object store | `presign`, `completeUpload` | users (owner, cascade), the roles in tokens, MinIO/S3 |
| users and profiles, `user/`, `seed.ts` | `user`, `profile` | register (v1, v2, seed), change roles, delete | tokens, files |
| authentication, `auth/`, `common/guards/` | none: a token carries the roles | login, guards | users |
| order queries, `orders.service.ts:375-429`, `orders/graphql/`, `common/graphql/loaders/` | none of their own | a page of orders, its items and users through batched loaders | what `createOrder`, the worker and deletions do to the rows |
| products | none of their own | reads | PostgreSQL |
| build and release, `.github/workflows` | images, tags, the release manifest | build, deploy to stage, deploy to production | GHCR |

What is hard here, and where:

* **The worker is concurrent with itself.** Up to `RABBITMQ_PREFETCH` deliveries
  run at once; the same message may be among them twice (redelivery,
  republication); two orders lock common products in any order
  (`orders.service.ts:337-341` has no ORDER BY).
* **Acknowledgement is not part of the transaction.** Between commit and ack the
  process, the channel or the answer to COMMIT can be lost.
* **The channel never comes back.** `rabbitmq.service.ts:44-47` logs `close` and
  does nothing else: the process stays up, serves HTTP and consumes nothing.
* **createOrder spans two databases and a queue without a common transaction**;
  it compensates with two deletes (`215-217`).
* **TypeORM's `save` writes back whole entities** that were read before: it
  selects the row again and updates each column that differs, so a change made
  by somebody else in between is set back.
* **Nothing bounds what the payments service may take**, save the timeout.
* **A token carries roles that were read before the password was compared** and
  is good until it expires, whatever becomes of the user.
* **A v2 registration saves the profile and then the user**, in two transactions
  (`user/user.service.ts:46-56`); the seed does it in one.
* **A page of orders is two statements** (ids, then rows), its items and users
  two more, while orders come, go and change places in the list.
* **Images are deployed by tag**, and the two images of a build are pushed one
  after the other.

For each component, what makes it correct: a message's work is done once and no
message is lost; record, status and deduction stay in step; stock is neither
lost nor negative; only hopeless messages are dead-lettered; the queue drains;
one payment per key; a refused order leaves nothing and an accepted one is paid,
complete and published once; every request is answered; handlers that save one
row do not undo each other; a courier sees and reports only orders given to
them; a file is ready only by its owner's word; a role that was taken away is of
no use for longer than a token lives; who reads the list page by page misses only
what left it; production runs what stage ran.

## 2. The modules

| module | models |
|---|---|
| `RabbitChannel` | the queue, the dead-letter queue and the buffered channel; helper actions without a behaviour of their own |
| `OrdersProcessor` | the worker, extends `RabbitChannel` |
| `Fulfilment` | abstract: what the worker promises about orders and stock |
| `OrdersProcessorProofs` | theorems about `OrdersProcessor` |
| `Payments` | `Authorize`, its table, and its callers' pending calls |
| `OrderCreation` | `createOrder`, extends `Payments` |
| `OrderCreationProofs` | theorems about `OrderCreation` and `Payments` |
| `OrderFlow` | creation, payments, channel and worker in one process over one order table |
| `OrderFlowProofs` | theorems about `OrderFlow` |
| `CourierTracking` | every handler that saves the order row or the tracking row of one order |
| `CourierTrackingProofs` | theorems about `CourierTracking` |
| `DeliveryGateway` | sockets, the room of one order, and the events sent to it |
| `DeliveryGatewayProofs` | theorems about `DeliveryGateway` |
| `Accounts` | users, profiles, roles, logins and tokens |
| `Files` | presigned uploads and their records, extends `Accounts` |
| `FilesProofs` | theorems about `Files` and `Accounts` |
| `OrderQueries` | a client that reads the list of orders page by page |
| `OrderQueriesProofs` | theorems about `OrderQueries` |
| `Release` | builds, manifests and deployments |
| `ReleaseProofs` | theorems about `Release` |
| `MC...` | values of the function-valued constants for TLC |

A definition marked "(mutant)" is a mistake the code does not make. It stands
before the definition it replaces when one checks that a property notices.

### RabbitChannel and OrdersProcessor

A *copy* `d` is one publication of a message: `mid[d]`, the `attempt` in its
payload, its `place` (ready, unacked, acked, dead) and `out[d]`, what the service
has written about it and the socket has not sent yet. A publication followed by
an ack (the retry, `orders-processor.service.ts:79-83`) keeps that order in the
buffer. `proc` is running, deaf (connection lost, process up) or down.

`phase[d]` is where the handler of delivery `d` is. `Receive` is the consumer's
callback, `RejectInvalidJson` the branch 33-42, `InsertProcessed` the insert into
`processed_messages` (it waits for an open transaction with the same key),
`AlreadyProcessed` the violation 23505, `ReadOrder` the unlocked `findOne`,
`LockProduct` one row of `SELECT ... FOR UPDATE`, `Conflict` too little stock,
`Commit` the transaction's end, `RetryLater`/`GiveUp` the catch branch. A
transaction's writes take effect in `Commit`. Failures: `DbError`,
`CommitUnanswered` (committed, reported as an error), `DeadlockVictim`
(PostgreSQL aborts one of two that wait for each other), `LoseConnection`, `Crash`.

### Payments, OrderCreation, OrderFlow

`call[r]` and `reply[r]` are the gRPC call of request `r`; the service looks the
key up and inserts in two steps, so two calls with one key can race. `pc[r]`
follows the awaits of `createOrder`; `AuthorizeTimeout` is `timeout(timeoutMs)`
firing at any time while the call is out. The insert of order and items is one
step: it is a transaction, and the unique key orders two of them. The rollback is
two steps, the deletes it is. `AmountOf % UINT32` is the amount on the wire:
`createOrder` sums quantities without a bound, the proto field is a `uint32`, and
0 is refused as missing.

In `OrderFlow` order, message and request share a name; `OrderCreation` is an
instance whose `row` is "the worker's order row is not ABSENT"; a step of either
half leaves the other's variables alone, publication hands over the message, and
losing the connection, crashing and restarting are joint steps.

### CourierTracking

`pc[h]` is where a handler is: an assignment, a report, or the worker. `seen[h]`
is the row it has read and `changed[h]` the columns its `save` found different
when it selected the row again (`Differing`, `Merged`; if there was no row,
`save` inserts the entity). `createOrder` takes part with the payment's link (an
`UPDATE` of that column, not a `save`), the rollback and the publication. One
order is enough: no step relates the rows of two orders.

### DeliveryGateway

`conn[c]` is a socket's state; between `Connect` and `Verify` its token is being
verified, and its requests are already handled, without a user. `pc[m]` follows
the awaits of the handler of request `m`: `Subscribe` and `Join` are
`subscribeOrder` before and after its query (`anonymous` is the wait of a request
that found no user: the access check will throw), `Unsubscribe` awaits nothing,
`Report`, `CheckReport` and `Emit` are `courier_location_update`, and between the
last two lies `save`, which is `updateLocation`. `PATCH /orders/:id/courier` is here
too, because it saves the same row: `ReadOrder`, `ReloadOrder`, `UpdateOrder` and
`InsertOrder` write the courier of the order, `FindTracking` reads the tracking row,
and `save` writes the position that was read, or 0,0 if there was no row.
`save` (`Reload`, then `Update` or `Insert`) updates the coordinates in which the
entity differs from the row it has selected, so a position can be put back, and two
reports be merged; the event names the position of the entity (`Emit`), whatever the
row has. Meanwhile the worker may put another courier back (`WorkerSaves`), and the
order can be withdrawn, its tracking row with it, and inserted again by an assignment.
`wasStored`, `latest`, `staleSave`, `missedRow`, `joinedSince`, `pipelined` and
`overlapped` are history, for the properties only. The rules of socket.io that matter
are `Close` (a closed socket is in no room) and that a closed socket's `join` is void.

### Accounts and Files

A user and its profile are named by the registration that saves them. `pc[r]` is
where that registration is: `SaveProfile` and `InsertUser` are the two statements
of `addUserV2`, `LookUp` the `findOne` with which the seed skips a user it finds.
A login reads the row (`FindUser`), compares the password (`RefuseLogin` when it
is wrong) and signs what it read (`IssueToken`); `seen[l]` is what it read and
`signed[l]` when it signed. `Admitted` is what the two guards ask: only the token.
`now` counts ticks of which a token lives `Lifetime`. `heldAt[u]`, when `u` was
last an admin, and `deleted` are history.

In `Files` a request carries the token of one login. `stage[g]` follows the awaits
of `presign` (`save`, `url`, `remove`) and `completeUpload` (`find`, `confirm`).
`UserOf(g)` is the user id in the token, whether or not there still is such a
user: the foreign key of `owner_id` is what then stops `presign`. `Upload` is the
client's PUT to the store. `DeleteOwner` is `deleteUser` with its cascade.

### OrderQueries

One client asks for page after page (`getOrders`) with one filter. `ReadIds` and
`ReadRows` are the two statements TypeORM makes of `skip`/`take` with a join:
first the ids of the page, then the rows with those ids. `LoadItems`
and `LoadUsers` are the loaders' batches, `ItemsLoader` and `UserLoader` their
mapping of rows to keys, `Handed` the DataLoader library, which answers by place.
`createOrder` stands here as the steps a reader can see (`Create`,
`WithdrawItems`, `WithdrawOrder`), the worker as `Process`, `setOrderCourierId` as
`ReadOrder` and `SaveOrder`: its stale save puts the status it has read back, in
either direction, and inserts a withdrawn order again, without its items. So an order
can leave the list, come back and leave again. `creation[o]` says how far the writers
of `o` are, `copies` what assignments have read and not saved yet. What was there at
the start of the walk, what has left the list since, and how often one did are history.

### Release

A run builds its commit in attempts. `registry[i][c]` is the build behind the tag
of commit `c`; a build stands for the digest. `PushImage` is a step of the build
job, `UploadManifest` the artifact that makes a run deployable. A deployment
pulls each image by tag, takes the old stack down and starts the new one; it can
fail between any two of these. Runs overlap freely; a host deploys one at a time.

## 3. The runs

| run | states | shows |
|---|---|---|
| `OrdersProcessor_faults` | 51,810 | two orders that lock two scarce products crosswise, one failure: `NothingLost`, `StockBalance`, `RecordedMeansProcessed`, the refinement of `Fulfilment`, and `QueueDrains` |
| `OrdersProcessor_republished` | 207,860 | a message published twice beside an unreadable one, one failure: `DeductedOnce`, `DeadLetterJustified` |
| `OrdersProcessor_skip` | | *violation*: two messages for one order deduct twice |
| `OrderCreation_repeated` | 43,672 | a request and two repetitions, two failures: `PublishedOnce`, `PublishedComplete`, `OnePaymentPerKey`, `RefusalLeavesNothing`, `NoStrandedOrder`, `EveryRequestAnswered` |
| `OrderCreation_idempotency` | | *violation*: a repetition is answered with an order that is then rolled back |
| `OrderFlow_twoorders` | 44,988 | the whole way of two orders for one piece, two failures: `PaidBeforeFulfilled`, `MessageHasOrder`, the refinement of `Fulfilment`, `CreatedSettles` |
| `CourierTracking_concurrent` | 2,558,727 | two assignments, two reports, the worker and `createOrder`, one failure: `FreshSavesLoseNothing`, `SerialHandlersAgree`, `TrackedWasAssigned` |
| `CourierTracking_kept` | | *violation*: a confirmed assignment is undone by the worker |
| `DeliveryGateway_watchers` | 3,590,174 | a customer's and a courier's socket with any token, forged ones included, two reports and an assignment that save one row, one failure: `WatchersMayWatch`, `EventsAddressed`, `SeenWasStored`, `WatchersUpToDate`, `RoomFollowsRequests`, `StrangersLeave` |
| `Files_accounts` | 601,492 | three registrations, two of them of one email, logins, roles given and taken, deletions, one file and two completions, one failure: `ProfilesAccounted`, `ObjectsAccounted`, `ReadyByOwner`, `PrivilegesExpire` |
| `OrderQueries_walk` | 3,734,095 | a client reads three orders page by page under each filter while they are created, withdrawn, processed and put back by two assignments, and users deleted: `MissesOnlyForLeavers`, `ListedComplete` |
| `Release_pipeline` | 3,999,083 | three runs, two of them of one commit and one of these run again, one failing job: `OneCommit`, `ExactUnlessRebuilt` |

**Bounds.** Two messages, orders and products give every pairwise interleaving
the code distinguishes: common and disjoint locks, one winner for scarce stock,
one message twice in the window (`Prefetch = 2`). `MAX_ATTEMPTS = 1` gives a
first, a last and an exhausted attempt. `MaxPubs` numbers the publications; the
values used leave room for every retry of every copy and are reached rarely or
never. `MaxFaults` counts failures of any kind; one failure is placed at every
point of every interleaving, and in the creation runs a second one can hit what
follows the first (the restart, the repetition). `Copies` bounds publications
with attempt 0. `UINT32 = 4` stands for 2^32. The order of delivery is free,
which includes the broker's. Three requests with one key are the fewest in which
a repetition of a repetition exists. Two handlers of each kind are the fewest
that can tear a row two ways. In `DeliveryGateway` the customer's subscription
and unsubscription come in either order and each may overtake the other; a third
user brings no further interleaving, since sockets share only the room and the
stored position. Two reports that differ in one coordinate each from 0,0 can be merged,
and one assignment can put either back; couriers who overwrite each other are
in `CourierTracking`. In `Files_accounts` a token lives one tick and the clock has one,
so each token is once valid and once expired; one file is enough, since no step
relates two files; two who complete it are its owner and somebody else. Three
orders in pages of one or two give walks in which orders leave before, on and
after the page being read; two assignments are the fewest with which one order is put
back and another comes back too, or one leaves three times. The first page is 1;
that a page of 0 reads the same is left to the proofs. Two runs of one commit mix their pushes, and the
attempt that runs one again moves a tag that was deployed; the third run is the
commit they must not be mixed with.

**Fairness.** `Receive`, `Handle` and `Send` are weakly fair for each copy: the
broker delivers while a channel consumes, the event loop runs a handler whose
await has returned, the socket drains. Nothing is assumed of a restart:
`QueueDrains` speaks of behaviours in which the process in the end stays up.
`EveryRequestAnswered` assumes fairness of `createOrder`'s own steps, its timer
included, and nothing of the payments service. `CreatedSettles` is claimed
without failures, because with them an order can stay PENDING (see below).
`CourierTracking`, `Files`, `OrderQueries` and `Release` make only safety claims. `StrangersLeave` assumes that the
verification of a token, which waits for nothing outside the process, returns.

**Deadlock** is checked in every run but `Files_accounts`, where all may be over:
every user deleted, every request answered and the clock at its bound. `Idle` and
`Done` are the states in which the other systems may rest: an empty queue, every
request answered, the list read. `Release` never rests: a run can be deployed
again.

**What the violations say.**
1. `processOrderFromQueueInternal` tests the status on an unlocked read and then
   waits for product locks; two *messages* for one order both pass
   (`orders.service.ts:322-341`). `createOrder` sends one message per order;
   `scripts/publish-order-message.cjs` makes a new id for every run.
2. A repeated request returns an order whose payment is undecided
   (`orders.service.ts:103-107`).
3. The worker's `save(order)` (`367`) sets a courier assigned in the meantime
   back to null; the stale save of an assignment (`466`) can likewise set a
   PROCESSED order back to PENDING, unlink its payment, or insert a withdrawn
   order again. `FreshSavesLoseNothing` says that this is the only way: if every
   save meets the row its handler read, all interleavings are harmless.

## 4. The proofs

The theorems hold for all values of the constants under the named assumptions
(`ChannelAssumption`, `ProcessorAssumption`, `PaymentsAssumption`,
`CreationAssumption`, `FlowAssumption`, `TrackingAssumption`, `GatewayAssumption`,
`AccountsAssumption`, `FilesAssumption`, `QueriesAssumption`, `ReleaseAssumption`:
shapes and disjointness; finitely many orders; `QueriesAssumption` also that the
sort key, `created_at` and then the id, tells any two orders apart). Every invariant and every action property of the passing
runs, and both refinements, are theorems.

| theorem | states |
|---|---|
| `TypeCorrect` | `Spec => []TypeOK` |
| `MessagesKept` | `Spec => []NothingLost` |
| `DeadLettersJustified` | `Spec => []DeadLetterJustified` |
| `RecordedProcessed` | `Spec => []RecordedMeansProcessed` |
| `StockConserved` | `Spec => []StockBalance` |
| `NeverDeductedTwice` | `OneMessagePerOrder` implies `Spec => []DeductedOnce` |
| `FulfilmentImplemented` | `OneMessagePerOrder` implies `Spec => ImplementsFulfilment` |
| `CreationTypeCorrect` | `Spec => []TypeOK` of `OrderCreation` |
| `PublishedStays` | `Spec => []PublishedComplete` |
| `NeverPublishedTwice` | `Spec => []PublishedOnce` |
| `RefusalsClean` | `Spec => []RefusalLeavesNothing` |
| `StrandedByFailureOnly` | `Spec => []NoStrandedOrder` |
| `OnePayment` | `Spec => []OnePaymentPerKey` |
| `MessagesHaveOrders` | `FlowSpec => []MessageHasOrder` |
| `FulfilledWasPaid` | `FlowSpec => []PaidBeforeFulfilled` |
| `FlowFulfils` | `FlowSpec => FlowImplementsFulfilment` |
| `WorkerKeepsPromises` | `FlowSpec => []WorkerPromises`: the worker's invariants in the whole service |
| `CreationKeepsPromises` | `FlowSpec => []CreationPromises`: createOrder's |
| `AnsweredOrdersFound` | `FlowSpec => []AnsweredIsFound`: where an order answered 201 can be |
| `TrackingTypeCorrect` | `Spec => []TypeOK` of `CourierTracking` |
| `FreshSaves` | `Spec => []FreshSavesLoseNothing` |
| `TrackedAssigned` | `Spec => []TrackedWasAssigned` |
| `SerialAgreement` | `Spec => []SerialHandlersAgree` |
| `GatewayTypeCorrect` | `Spec => []TypeOK` of `DeliveryGateway` |
| `WatchersAllowed` | `Spec => []WatchersMayWatch` |
| `EventsToWatchers` | `Spec => []EventsAddressed` |
| `SeenStored` | `Spec => []SeenWasStored` |
| `WatchersInformed` | `Spec => []WatchersUpToDate` |
| `RoomAsRequested` | `Spec => []RoomFollowsRequests` |
| `FilesTypeCorrect` | `Spec => []TypeOK` of `Files` |
| `ProfilesKept` | `Spec => []ProfilesAccounted` |
| `ObjectsKept` | `Spec => []ObjectsAccounted` |
| `ReadyOwned` | `Spec => []ReadyByOwner` |
| `PrivilegesEnd` | `Spec => PrivilegesExpire` |
| `TypeCorrect` (`OrderQueriesProofs`) | `Spec => []TypeOK` of `OrderQueries` |
| `ListedWhole` | `Spec => []ListedComplete` |
| `FewMissed` | `Spec => []MissesOnlyForLeavers` |
| `ReleaseTypeCorrect` | `Spec => []TypeOK` of `Release` |
| `CommitsNotMixed` | `Spec => []OneCommit` |
| `ExactIfBuiltOnce` | `Spec => []ExactUnlessRebuilt` |

*The worker.* `NothingLost` is not inductive: that a handler's retry publishes
before it acknowledges needs `WellFormed` (a handler exists only for an unacked
copy, what is buffered belongs to a finished handler, unused copies are fresh)
and `KeepsMessages` (a published message is processed, or some copy of it is kept;
a copy whose ack is on its way does not count). `RetriesBounded` does the same for
attempts. `DeductedOnce` and the refinement rest on `TransactionInv`: one open
transaction per message id (`OneTransactionEach`), a transaction that has
inserted its id has an unrecorded message (`SkipsProcessed`), a product is locked
by one handler and has still the stock that it read (`LocksHold`), and stock is
never negative. With one message per order, `FulfilledOnce` follows: an order is
PROCESSED exactly if its message is recorded. Each `Commit` is then a `Fulfil` of
the abstract module and every other step a stutter. The hypothesis
`OneMessagePerOrder` is needed: `OrdersProcessor_skip` is the counterexample
without it.

*The stock.* `StockBalance` equates each product's stock, plus the sum over the
orders of what each has taken, with the initial stock. The step is `LocksHold`: the
commit writes the stock it read less the order's demand, and what it read is what is
there; so one summand grows by what the stock loses (`BalanceStep`). What that
does to the sum is proved once for all finite sets: `SumFunction` comes from a
recursion over subsets, whose function exists (`SumExists`) and whose value changes as
much as one summand does (`SumDiffersAt`), by `SubsetInduction`. This is an induction
in first-order form: the property is a *set* of subsets, not an operator, and the
minimal counterexample comes from the well-foundedness of strict inclusion on the
finite subsets.

*Order creation.* What is published stays complete because publishing is the last
thing a handler does: `RowsByPhase` says what is stored of an order at each await,
that an order is not published before its handler is answered 201, and that the
handler at `publish` has linked a payment of its key (`Paid`), which `RepliesValid`
draws from the payments service. The unique column keeps one row of a key
(`OneRowPerKey`), and a published order keeps its row, so a key is published once
(`PublishedOnce`) whichever request made the order. `FailedFirst` (a process that does
not run has failed) makes `NoStrandedOrder` inductive.

*An order's whole way.* `OrderFlowProofs` has `OrderCreationProofs` as an instance
and extends `OrdersProcessorProofs`, so that the invariant of each half is proved
once. `Linked` ties the halves together: whatever the broker has a copy of, and
whatever was fulfilled, createOrder has published. A published order is complete
(`PublishedComplete`) and no request changes its row (`CreationEffect`), so the
worker's invariants survive createOrder's steps (`CreationKeeps`); the worker
changes only published orders, and only PENDING ones (`WorkerOrders`), so
createOrder sees nothing of it but its failures (`WorkerKeepsCreation`).
With the worker's other invariants and `HandedOver` (an answered order was handed to
the channel; what has left the buffer is with the broker or was lost by a failure)
this is `JoinedInv`: every promise that each half keeps alone holds of the two
together, and an order whose own request was answered 201 is PROCESSED, in the
channel's buffer, in the queue, with a handler, or dead-lettered after its last
attempt, unless a failure emptied the buffer. That is the safety part of
`CreatedSettles`, and holds with failures too.

*Courier tracking.* A save is harmless if the row it selects and the row it
updates are the row its handler read: then the columns that differ are those of
the entity against that row (`ExactUpdates`), and updating them makes the row the
entity (`ExactOrder`, `ExactTracking`). `SeenByPhase` gives what was read its
type, `WorkerWaits` keeps the worker away from an order not published yet.
`TrackedWasAssigned` needs the same for every copy in flight
(`CouriersGivenOut`), and the fact that the couriers to whom the order was given
only become more (`GivenOutStays`).
`SerialHandlersAgree` speaks only of the time when nobody is under way; `SavesInTurn`
says what the one handler under way has read, saved and still has to save
(`InStep`), so that the next step, whichever handler it belongs to, ends in
agreement again. Overlap and failure, once noted, stay noted (`Serial`).

*The gateway.* The room is safe because a socket joins only if it is attached at
that moment and was attached when it asked; `AttachedVerified` adds that its token
is valid. Events need that a report beyond its first check has a verified sender
and that one being emitted has been stored (`ReportsByPhase`): a coordinate that an
update does not write was the same in the row that the save has selected, so it has
been stored by somebody, and if the row is still that one the two coordinates of the
entity are now in it together. `RowOfLatest` says that without a stale save an
assignment holds what the row has, so that only reports change the position;
`EventPending` that the report which wrote last, while reports do not overlap, is the
one that is being sent, was sent, or failed. `LastAsked` makes the last request of a
socket that waits for its answers the one that is in progress.

*Accounts and files.* `ProfileFirst` (a v2 registration waits for its user only
with its profile saved) keeps `ProfilesAccounted`. `RecordsByStage` follows a
record from its save to its removal or its owner's deletion, `CompletionsByStage`
ties a completion in progress to a file with a URL and to its owner, `Arrived`
keeps a request's token from changing under it. `PrivilegesExpire` is an action
property: only `Arrive` admits, and `RolesHeld` with `TokensInOrder` bounds the
age of the role in the token by the lifetime and the time the login took.

*Order queries.* An order's place in the list is the number of matching orders
that are newer (`Place`), so pages are sets of places: `ORDER BY created_at DESC`
puts each order at its place (`Sorted`), places have no gaps (`PlaceTaken`), and
`LIMIT`/`OFFSET` is an interval of them (`PageOf`). What matched at the start
and has not left since still matches (`LeaversNoted`), and a step of the outside adds
one order to the list, takes one out and notes it, or does neither (`ListChanges`); so
each departure moves at most one other order from a page not read yet to one already
read, and orders that come, new or put back, move none there.
`FewPassedOver` counts them: the orders still to be seen whose place is before the
pages read are no more than the departures so far. The bound counts departures and
not orders, for an assignment can put an order back again and again. At the end of the list
(`EndSeen`) these are all that were missed. `ListedComplete` needs that the items of a
listed order can be taken away but not put back (`NotPutBack`: who inserts an order
again inserts only its row), that a customer who is gone keeps its orders from being
inserted again (`FieldsComplete`), and that every customer of the page is among the
keys of the batch (`CustomersAsked`). `WholeOrders` says, for each stage of an order's
creation, which rows and copies there are.

*Release.* A tag, a pulled image and a running one are builds of the commit they
stand for (`TagsByCommit`, `PulledByCommit`, `RunningByCommit`); with one attempt
for a commit there is only one such build.

*Model-checked only:* the four liveness properties, `QueueDrains`,
`EveryRequestAnswered`, `CreatedSettles` and `StrangersLeave`: they rest on fairness,
and so on ENABLED, which is out of the prover's reach. Of `CreatedSettles`,
`AnsweredOrdersFound` proves the safety part. The three violations are
counterexamples, which a run shows.

## 5. Assumptions and limits

* One process of the orders service (`compose.yaml`: no replicas, no restart
  policy). The broker and PostgreSQL keep what they have accepted; publications
  are not confirmed, so what the socket has not sent can be lost. Not modelled:
  a broker that loses durable messages, a cancelled consumer, an `error` event
  of the channel.
* With failures an order can stay PENDING for ever: a crash, or a lost channel or
  buffer, between the insert and the message's arrival; a repetition of the
  request answers 201 and publishes nothing. `NothingLost` therefore starts at the
  broker, and `CreatedSettles` excludes failures;
  `NoStrandedOrder` says that the order's own request was then answered 500 or not at all.
* "Malformed" is any content for which `handleMessage` throws before its work.
  Demand is the sum of an order's quantities per product; an order has an item
  (DTO). Prices and names are left out, as are logging and wording.
* `payment_id` may name a payment that was made for an order since rolled back:
  `authorize` finds payments by key.
* `OrdersProcessor` and `OrderFlow` leave courier assignments out. What they show
  of an order's status holds as long as no assignment overlaps the worker;
  `CourierTracking` shows what happens otherwise.
* In `CourierTracking` the payment id is one bit, a position two coordinates;
  `lastUpdated` and `updatedAt` always change and are left out. The worker's
  transaction shows as one update: until it commits nobody sees it, and an update
  of the same row waits for it.
* `updateLocation` writes each coordinate only if it differs from the row that it
  selects (`order-tracking.service.ts:57`): two reports that overlap can be merged
  into a position nobody sent, and an assignment can put the position back that it has
  found. `CourierTracking` and `DeliveryGateway` both do this. What is claimed without a
  condition is in `SeenWasStored`: each coordinate of an event has been in the row,
  unless the row was withdrawn under the save; that both were there together, and that the
  row still has the report's position (`WatchersUpToDate`), holds only without stale saves,
  and `FreshSavesLoseNothing` likewise. Such losses are listed as hazards without a property,
  because the code does suffer them.
* In `DeliveryGateway` the tracking row is its position; its courier column is in
  `CourierTracking`. Which courier a stale save of the order by the worker puts back is
  left open. Reports that overlap can be sent in another order than they
  were stored, which `WatchersUpToDate` excludes; and an unsubscription sent behind
  an unanswered subscription overtakes it (`delivery.gateway.ts:180-181`, `210`):
  the client stays in the room, which `RoomFollowsRequests` excludes with
  `pipelined`. Tokens that expire while a socket is open are not modelled: the
  gateway looks at a token once.
* `scripts/publish-order-message.cjs` is modelled as a further publication
  (`Copies`); that it asserts the queue without the dead-letter arguments, which
  RabbitMQ refuses with 406 if the queue exists, is not.
* The loser of a race on the idempotency key is answered 500 (`InsertRefused`):
  nothing catches the `QueryFailedError`. The API documentation names 409 for a
  conflict on the order (`orders.controller.ts:52-56`); 500 is what the model does.
* `Files` leaves out that a presigned URL expires (15 minutes) and what is in the
  object: `completeUpload` asks the store nothing, so READY means only that the
  owner said so. A user with orders cannot be deleted (foreign key); in the model
  such a user is one that is never deleted. `deleteUser` of an unknown id answers
  200 with `ok: false`, which changes nothing.
* `OrderQueries` leaves out the total of `findAndCount` and the products of items.
  Orders of one instant are sorted by TypeORM's second key, the id. The two statements of an
  assignment's `save` are one step there: whatever comes between them has the same
  effect before or after both. That a message published by hand names an order which
  was rolled back and inserted again is left out. A page whose
  rows are all gone between the two statements looks to the client like the end.
* Production pulls the tags of the manifest (`deploy-production.yml:47-48`) and
  only prints its digests, while the repository's `README.md:59` promises the
  "exact same artifact as stage": a commit that is built again between its two
  deployments reaches production as an image stage never ran.
  `ExactUnlessRebuilt` says when the tags are enough.
* `Release` takes every build to give a new digest, which is what the base images
  and the package index make of it. `deploy_stage.yml` is left out: it stops at
  `test -f deploy/.env.stage` after a checkout that does not hold that file. The
  choice of the run to deploy and the approval are free. The health check only
  reports: nothing is rolled back.
* Not modelled: migrations and database setup (run by hand before the service),
  the seed's products, pipes, request ids, static assets, compose files, products
  (read only), the pull request check.

## 6. Plan

Done, in this order: `RabbitChannel`, `OrdersProcessor` with `Fulfilment`, its
proofs, `Payments`, `OrderCreation`, its proofs, `OrderFlow`, its proofs,
`CourierTracking`, its proofs, `DeliveryGateway`, its proofs, `Accounts` and
`Files`, their proofs, `OrderQueries`, its proofs, `Release`, its proofs; stock
conservation, the agreement of serial handlers, and what the two halves promise
carried over to the whole way.

Left:

1. The step arguments under the liveness properties that are safety: a delivery whose
   process stays up always has a step that changes its phase or its place, and
   attempts bound how often it can come back (for `QueueDrains`); every phase of
   createOrder but the last has a next one (for `EveryRequestAnswered`).
2. An abstract list of orders that `OrderQueries` refines.
