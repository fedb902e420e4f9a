# Formal model of the ticket-sale system

TLA+ specifications of the ticket-sale backend of this repository
(`src/implementation/backend`, Go), of the payment service
(`src/implementation/payment`, TypeScript) and of the virtual users of the load
test (`src/implementation/agent`, TypeScript), with TLC configurations and TLAPS
proofs. Paths below are relative to
`src/implementation/` unless they start with `src/`.

## 1. The system

Customers buy seats of an event. A *numbered* area sells named seats, a
*free-standing* area any of its rows. An order holds its seats (`on-hold`)
until its invoice is paid (`sold`) or expires or fails (`available` again).
There are two deployments: **nofc**, where the HTTP server runs the database
transaction itself, and **fc** (flow control), where the server asks a Redis
cache for the seats, puts the request into a RabbitMQ queue and waits for the
answer of a worker process.

| component | state it keeps | operations | talks to |
|---|---|---|---|
| place order (`internal/orders/usecase/place_order/base_place_order_usecase.go`, booking/order/invoice repositories) | rows of `ticket_seats`, `orders`, `order_items`, `invoices`; row locks | one transaction: lock seats (`FOR UPDATE NOWAIT` / `SKIP LOCKED`), mark on-hold, insert order, ask for an invoice, commit; repeated 3 times on SQLSTATE 40001 | PostgreSQL, payment service, Redis counters (after the commit) |
| webhook (`usecase/webhook/pg_webhook_usecase.go`) | the same rows, `issued_tickets` | one transaction per notification: update invoice, order, seats; issue tickets or give counters back | PostgreSQL, Redis counters and dropper (before the commit) |
| availability counters (`internal/events/service/redis_availability_seeder`) | Redis counters per area | apply, revert, refresh from the rows | Redis |
| early dropper (`internal/orders/service/early_dropper`) | Redis key per numbered seat, counter per free-standing area | `TryAcquireLock` (WATCH / MGET / GET / MULTI-EXEC, 5 attempts), releaser `OnSuccess` / `OnFailed`, `FinalizeLock`, refresh from the rows at server start | Redis cluster |
| flow-controlled place order (`fc_place_order_usecase.go`, `pgp_place_order_connector.go`, `app/processor`) | map from idempotency key to reply channel; queues; limiter | acquire, publish, wait for answer / timeout / cancellation; consume, place, answer, acknowledge | dropper, RabbitMQ, place order |
| AMQP client (`infrastructure/amqp`) | connection, channel, confirmation channel | connect, re-init, push with confirmation, consume | RabbitMQ |
| idempotency wrapper (`service/idempotent_place_order`) | stored results in Redis, 15 min | look up, run the handler, store a success | Redis |
| payment service (`payment/src`) | invoices in Redis, delayed jobs in BullMQ | create, pay and promote the job, expire, notify with retries | the webhook |
| load agent (`agent/src`) | the profile and the counters of one virtual user; a metric of end states | draw a profile, find the event, choose an area and seats, order, pay, look at the order, fetch the tickets | backend and payment service over HTTP |
| cursor iterator, sanity check, seeder election, event queries, HTTP layer | see `PROJECT.json` | | |

What is hard: concurrent transactions for common seats; optimistic Redis
transactions; effects outside of a transaction that is rolled back and executed
again; crashes between two stores; notifications, requests and answers that
come twice, late or never; timeouts that race with late answers; invoices that are
read, checked and written in separate Redis commands by handlers and notifier;
nested retry loops whose budgets some paths do not count. The list with
source lines is `hazards` in `PROJECT.json`.

What makes each part correct: a seat is in one live order at most and its row
says so; a paid order has its tickets, and a second batch only where its notification was handled a second time; a request leaves one order or none; no row
stays locked; every hold ends; the dropper takes all keys of a request or none;
it never turns a customer away from a seat that nobody has or is about to get; the
answers given to clients are true; counters converge to the rows. An invoice settles
once, its order follows it, no order is forgotten; the load test counts each
iteration once, under what really happened, for the documented population.

## 2. Modules

| module | models | EXTENDS / INSTANCE |
|---|---|---|
| `SeatLedger` | abstract: an order holds seats nobody else has, then sells or releases all of them | |
| `Booking` | place order and webhook as concurrent transactions, statement by statement | INSTANCE `SeatLedger` (refinement) |
| `SeatCache` | abstract: a request takes all its keys in one step or none | |
| `EarlyDropper` | the dropper, Redis command by Redis command | INSTANCE `SeatCache` (refinement) |
| `FlowControl` | dropper, queue, workers, answers, timeouts, webhook together | INSTANCE `SeatCache` twice: for the keys and for the rows |
| `ReplyRouting` | the map of reply channels and the goroutines of the replies, inside one server | |
| `Profile` | the profiles of the load test: table, draw, shuffle, choice of an area (pure) | |
| `LoadAgent` | one iteration of a virtual user; the answers of the services are parameters | EXTENDS `Profile` |
| `Payment` | the payment service, Redis command by Redis command | |
| `Gateway` | abstract: an invoice ends once, and a notification says how | |
| `Purchase` | a virtual user, the payment service and the orders between them | EXTENDS `LoadAgent`, `Payment` |
| `PlaceSums` | lemmas about sums over sets of requests or orders | EXTENDS `TLAPS` |
| `BookingProofs`, `DropperProofs`, `FlowProofs` | theorems | EXTENDS the component and `PlaceSums`; `FlowProofs` INSTANCE `SeatLedger` (refinement) |
| `ReplyProofs`, `AgentProofs`, `PaymentProofs` | theorems | EXTENDS the component and `TLAPS`; `AgentProofs` INSTANCE `PlaceSums`, `PaymentProofs` INSTANCE `Gateway` (refinement) |
| `PurchaseProofs` | theorems | EXTENDS `Purchase`, `AgentProofs`, `PaymentProofs` |
| `MCBooking`, `MCEarlyDropper`, `MCFlowControl`, `MCPurchase` | instances for TLC (that of `ReplyRouting` needs only model values) | EXTENDS the component |

`FlowControl` rests on the other two: its `Acquire` is the atomic step that
`EarlyDropper` is shown to implement, its `Place` and `Settle` are the commits of
the transactions that `Booking` is shown to implement. Its `Receive` is one step;
`ReplyRouting` takes that step apart. `Purchase` looks from the other side: its
backend is reduced to an order with a status, and `LoadAgent` and `Payment` are
complete. Both parts have a specification of their own (`AgentSpec`,
`PaymentSpec`), which `Purchase` is proved to implement.

### Booking

A *placer* is one call of `PlaceOrder`, a *handler* one goroutine that handles
notifications. `payload`, `pc`, `attempt`, `todo`, `held` and `reply` are the
locals of a placer; `hpc`, `job`, `tries` those of a handler; `seatStatus`,
`orderStatus`, `orderSeats`, `issued` are committed columns; `rowLock` and
`orderLock` the row locks; `avail` the Redis counters; `pay` and `note` the
payment service. `resent` is a history variable: the answers to notifications that were
lost after the commit, by order. What a transaction writes is visible from its commit on; its
row locks are there from the statement that takes them.

| action | code |
|---|---|
| `Begin` | BEGIN, the queries and the checks of the request before any lock |
| `LockRow` | the locking query visits one row: NOWAIT fails on a locked row, SKIP LOCKED passes over it, a row that is no longer available is left out |
| `HoldSeats` | all seats found, or 409; `UPDATE ticket_seats` |
| `Enrich` | items get seats and prices; kind of area against kind of item |
| `GenerateInvoice`, `CommitOrder`, `ApplyAvailability` | the rest of `placeOrder`, the counter after the commit; the answer to the commit may be lost (`"unsure"`: the caller gets a 500 and the order is there) |
| `PlacerAbort`, `PlacerCrash` | 40001 and the retry loop; death of the server |
| `Settle` | an invoice is paid, expires or fails (environment) |
| `Deliver` ... `CommitWebhook`, `Respond` | `handleWebhook` statement by statement; the answer may be lost |
| `HandlerAbort`, `HandlerCrash` | 40001 and the retry loop, with the masked error of `UpdateOrderStatus`; death of the server |

### EarlyDropper

A client is one request through `TryAcquireLock`, its releaser and, if an order
was placed, `FinalizeLock`. `Watch`, `ReadSeats`, `ReadArea` and `Exec` are the
commands of one attempt; `dirty[c]` is Redis' knowledge that a watched key was
written; `ExecLost` is a transaction whose reply does not arrive. A cluster
client refuses keys of several hash slots (`OneSlot`).

### FlowControl

`pc` is the handler of a request in the server, `msg` the copies of its message
(a second copy exists when the message was published twice or its delivery was
not acknowledged) and the answers to them, `order` the order a worker placed for
a copy. Actions: `LookUp`, `Acquire`, `Publish`, `Receive`, `GiveUp` (timeout or
disconnected client), `Store`, `Crash` for the server; `Place`, `Refuse`,
`Reply`, `Redeliver`, `LoseReply` for workers and broker; `FinalizeLock` and
`Settle` for the webhook, in the order of the code: cache first, commit later.
`Holding` are the requests whose handler has the lock and still runs; `Locked` adds those whose server
died with it. Of the latter only the webhook gives a key back, when an order that a worker made of the message ends.
Where the message came to nothing (`Stranded`) the seats are lost until a server starts again and
refreshes the cache.
`NoLostSeat` names this loss as its one exception; `NoLostPlace` counts the lock as held.

### ReplyRouting

`pc`, `result` and `buffer` belong to the handler of a request in one server
process (`buffer` is its reply channel, which has room for one), `listener` is
`ListenerChan`, `saved` the stored results of `WrapIdempotency`. `reply`, `says`
and `target` follow one reply: with the worker, in the reply queue, in its
goroutine. Requests may have a common key and run at a time.

| action | code |
|---|---|
| `LookUp`, `Save` | `WrapIdempotency` before and after the handler |
| `Listen`, `Publish`, `Wait` | `ListenerChan.Store`, `PublishRequest`; the message can be answered before `Push` returns |
| `Take`, `GiveUp` | the `select` of `PlaceOrder` |
| `Delete`, `Close` | its deferred function, two steps |
| `Answer`, `AskAgain`, `Requeue` | worker and broker: an answer, a second copy of the message, a second delivery of the reply |
| `Load`, `Send`, `Ack` | the goroutine that `consumeReply` starts for a reply |
| `Panic` | its send to a closed channel: the process dies and its successor gets what was not acknowledged |

### Profile and LoadAgent

`Profile` has the table of fifty profiles (`utils/profile.ts`), its running sums
and the draw as functions of the random number, `shuffle` as a function of
the random choices, and the two ways to choose an area as functions of what is on
offer. `persona` is the row drawn, `pc` the phase of `tests/ticket.ts`,
`browse` and `attempt` the budgets in `ProfileState`, `tries` the counter of
whatever loop of three the user is in, `payMode` how it decided to pay, `reported`
what it added to the metric `vu_end_state`. Virtual users share nothing, so one
iteration of one user is modelled.

| action | code |
|---|---|
| `GetEvent` | `getEvent` and its loop of three |
| `SearchArea`, `FetchSeats`, `BrowseAnew` | `getSeatCaseArea`, `getSeatCaseNumbered`, `getSeats`; a search that exhausts the budget reports twice |
| `SendOrder`, `AnswerOrder`, `NextAttempt`, `SpinOrder` | `placeOrder` and the loop of order attempts around it |
| `SendPayment`, `AnswerPayment` | `payOrder` and its loop of three |
| `VerifyOrder`, `GetTickets` | the last two phases |
| `Throw` | an exception that the catch-all of the iteration reports as `UNKNOWN_EXIT` |

### Payment

`invoice` is the status in Redis, `creating` the handlers between the invoice and its
job, `late` the invoices whose `expiredAt` has passed; `call`, `mode` and `answer`
follow one payment call; `job`, `failures` and `stalled` are BullMQ's, `worker` and
`seen` the notifier's. `overtaken` is a history variable: the invoices that came due
while a payment was between its read and its write.

| action | code |
|---|---|
| `Store`, `AddJob`, `CreateDies` | `POST /invoices`: `createInvoice`, `webhookQueue.add`, a death in between |
| `Arrive`, `PayRead`, `PayWrite`, `FindJob`, `Promote` | `POST /invoices/{id}/payment` command by command |
| `TimeOut`, `PayDies` | the 30 s timeout, which answers while the handler goes on; shutdown by force |
| `Late`, `Due`, `Take`, `Stall` | time and BullMQ: delay, backoff, a worker that dies |
| `NotifierRead`, `ExpireRead`, `ExpireWrite`, `Posted`, `PostFails` | the worker of `cmd/notifier` with `expireInvoice` |

### Purchase

`order` is the status of the order of an invoice, `billing` the request the backend
is working on, `saved` the result under the idempotency key of the current
`placeOrder` (`FreshKey`: the key is made once for each call of it, before the loop that repeats the request), `mine` the order the user got. `Bill` ... `Commit` are the part of
place order that the payment service sees; `CommitLost` and `Repeated` what the
idempotency key is for; `Notified` is `handleWebhook`, which sets the status without
a look at the old one.

## 3. Runs

| run | question | bounds |
|---|---|---|
| `booking_safety` | are seats, orders and locks consistent, and is the ledger implemented? | 2 placers with every pair of 4 good and 8 bad requests, 2 handlers, 2 numbered + 2 free-standing seats, 2 attempts, 1 abort, crash or lost answer to a commit |
| `booking_liveness` | is every request answered, does every hold end, do the counters converge, how often are tickets issued? | 2 placers, 2 handlers, 3 seats, 1 abort, crash or lost answer (to a commit or to a notification) |
| `booking_duplicate` (violation) | what does a notification do that is delivered twice? | 1 lost answer |
| `booking_retry` (violation) | is a retried request the same request? | 1 abort |
| `dropper` | are the optimistic transactions atomic? | 6 requests on 2 seats and 1 counter, 2 attempts, 1 lost reply |
| `flow_seats` | is a seat lost or sold twice under timeouts and faults? | 3 requests for 2 seats, 1 fault |
| `flow_places` | the same for counters, are answers true, does everything end? | 2 requests (one a repetition) of 2 places each for 3 places, 2 faults |
| `flow_retry` (violation) | does a repetition with its idempotency key make a second order? | no fault |
| `reply_routing` | whom does a reply reach, when does the server die, does every handler and goroutine end? | 2 requests with a common key or one each, 1 second delivery |
| `reply_panic` (violation) | is a late reply only acknowledged? | no fault |
| `purchase` | do invoices settle once, orders follow them, end states tell the truth, does every order settle and the iteration end; are draw, shuffle and choice of an area what is documented? | 1 invoice, 3 payment calls, 2 attempts of its job, 2 faults, the 2 least persistent users; draw and shuffle in full, choice of an area for up to 4 sales |
| `settle_once` (violation) | is only a pending invoice paid? | no fault |

Two placers and two handlers are enough for every pairwise conflict of the
transactions, and the two free-standing rows for an order that gets one of two;
two attempts give a first, a last and a repeated one. In `dropper` the six
requests meet in pairs: on a seat, on two seats, on the counter (2 + 1 of 2
places), on keys of two slots, on a missing counter; two attempts show both ends of
the retry loop, and `BusyNeedsWriters` says how many writers a failure takes for
any number of them. In `reply_routing` two requests with one key give every order in
which one overwrites, deletes and closes what the other has, and the second delivery gives two
goroutines with one channel. In the flow runs one fault is a crash, a redelivery, a lost
answer or a repeated `FinalizeLock`; more faults only repeat these, and the
theorems of section 4 hold for any number.

In `purchase` one invoice is enough for the payment service, whose invoices have
nothing in common. For the user it means that an order attempt
which lost its invoice is not followed by another order; the theorems cover any
number of invoices. Three calls are all that `payOrder`
sends (`PurchaseAssumption`). Two attempts give a first and a last one instead of ten,
and two faults one that hits the repetition of what the other one hit.
The two users are the least persistent one for seats and the least persistent one for standing places;
their budgets (9 searches, 3 orders) are the code's own, and the theorems are for
every set of profiles. The properties of draw, shuffle and choice are about constants: they
are looked at in the states where an iteration starts. `CHECK_DEADLOCK FALSE` is set where requests end
and nothing is left to do (`Booking` and `ReplyRouting` have `Finished` instead).

**Fairness.** `Booking`: goroutines of a live process go on (WF per placer and
handler), invoices expire in the end; aborts and crashes are not fair. `FlowControl`:
handlers go on and `time.After` ends every wait (WF per request, which covers
`GiveUp`); queued messages are handled and invoices settle (WF per copy).
`ReplyRouting`: handlers (`Push` returns, `time.After` ends the wait) and the
goroutines of replies go on; a worker may never answer, and `EverythingEnds` says
that even then nobody in the server waits for ever.
`Purchase`: the user goes on, whatever it is answered; payment handlers of a live
server go on (WF per call), time passes, BullMQ hands out jobs and the notifier goes on
(WF per invoice). Deaths, timeouts and failed posts are not fair, but
each counts as a fault. `IterationEnds` and `EveryOrderSettles` name what the code does not
exclude: two loops of the user without a bound, and a job that used up its attempts.

**What the violations show.** (1) `handleWebhook` does not look at the status the order
has, so a second delivery of *expired* frees seats that another order holds by
then; the same line issues the tickets of a paid order again, which `OneBatchPerHandling` counts:
one batch, and one more for every answer that was lost after the commit. (2) `placeOrder` writes the chosen seat ids into the caller's items, so a
free-standing order that is retried after 40001 is answered 400. (3) The result
is stored under the idempotency key only after the answer has arrived, so the
repetition of a request that timed out is placed again. (4) A reply goroutine that has
loaded a channel sends to it after the handler has given up and closed it; the
panic is recovered by nobody and ends the server with all its requests. (5) `payInvoice`
checks the invoice it has read and writes it in a later command; if the notifier expires it
in between, the write makes an expired invoice paid, and the order keeps the
status of whichever notification was sent. `InvoiceSettlesOnce` says that this is the only way.

**Smaller disagreements met on the way**, which no run is spent on:

* The README of the agent (and the thesis, in the distribution of users) and
  `agent/src/utils/profile.ts:490-497` name the area tiers the other way round: where
  the document says Area-Mid the code orders the categories of Area-High.
* `agent/src/tests/ticket.ts:282` reports `FAIL_SEAT_NOT_FOUND`, leaves the loop, and the code after it
  reports `FAIL_ORDER_ATTEMPTS_EXCEEDED` for the same iteration (`ReportedOnce` names the exception).
* `agent/src/actions/order-action.ts:73` says "tries exceed limit", but the loop counts only
  500 and above and 408; 404, 423 and a lost connection (0) repeat without counting or sleeping.
* The browse budget does not count empty seat lists, so a user can go round for ever.
* A payment whose answer is lost or not JSON makes the script throw: the iteration
  is counted as `UNKNOWN_EXIT` although the invoice may be paid.
* `getAvailability` and `getSeats` read `r.data.data.length` in a check, so that an error
  body without `data` throws instead of being tried again.
* `payment/src/service/invoice.ts` gives `5 * 60 * 60 * 1000` to `setex`, which takes seconds.
* A payment whose job becomes due between `isDelayed` and `promote` is answered 500
  although the invoice is paid.

## 4. Proofs

Every theorem is for arbitrary finite or infinite sets of requests, seats and areas
(finite where an assumption says so) and any bound of faults.

* `PlaceSums`. A sum over a set is the fold of the community modules, whose definition
  chooses a recursive function. The lemmas show that the function exists for every
  finite set, that the order of the additions does not matter, and what one more
  or one less member, or another value of one member, does to the sum. The inductions take a smallest set or number for which a
  fact fails: the library's induction theorems, with an operator as a parameter, are
  not needed.
* `BookingProofs`, whatever faults there are. `TypeCorrect`, then `BaseInv`: row locks
  are exactly the rows that open transactions have taken, and those are still
  available to others (`RowInv`: this is what makes the re-check under the lock
  sufficient); an order exists only after the commit of its attempt
  (`FreshInv`); a request that was refused has no order in any attempt (`AnswerInv`).
  From it `NoOrphanLockHolds` and `OneOrderPerRequestHolds`.
  `OneBatchPerHandlingHolds` follows from the batches an order has at each stage of its notification
  (`BatchInv`): none before the commit, one more than lost answers after it. An attempt that is rolled
  back or killed has issued nothing, and two handlers never have one notification (`WorkInv`).
* `BookingProofs`, as long as no answer to a notification is lost (`UntilLost`). `IInv`
  adds that two handlers never work on one notification and that the order of a
  running one still waits for payment (`JobInv`, `NoteInv`), and that seats and live
  orders name each other (`SeatInv`, `NoDoubleOrder`). From it
  `NoDoubleOrderHolds`, `StatusAgreesHolds`, `SoldIsFinalHolds` and `BookingImplementsLedger`, for `"lost" \notin FaultKinds`;
  `booking_duplicate` shows why. `AvailabilityConvergesHolds` needs no such hypothesis,
  because the property is about executions without faults: until everything is
  answered, a counter has more than its rows by the seats of orders that are
  committed and not subtracted yet, and of orders that are given back and whose webhook is
  not committed yet (`CountInv`).
* `BookingProofs`, on what an order is for (`AskInv`). The locking query is run by id or by area
  and found what it names, and the items are overwritten with what it found. So an order has the seats its
  request names in the end (`OrderAsAsked`), and for a numbered area the overwritten request is the
  one the caller sent (`NumberedRetriedAsItWas`): what `booking_retry` shows happens to
  requests for free-standing areas only.
* `DropperProofs`. `IInv`: what a request has read is still true unless it is
  dirty (`WatchInv`), counters are not negative (`CounterInv`), sold keys say so
  (`SoldInv`), and `KeysAgree`. From it `KeysAgreeHolds` and
  `DropperImplementsCache`: a read that shows a missing seat maps to the
  abstract refusal, EXEC to the acquisition, everything else to a stutter.
  `CountersAgreeHolds` follows from the sum of what owners have taken (`SumInv`), and
  `BusyNeedsWritersHolds` from counting, for each request, the attempts that were spoilt and the writes of
  its neighbours, of which each makes at most two (`BusyInv`).
* `FlowProofs`. `OrderInv`: live orders own their rows and messages agree with
  the orders placed for them; from it `FlowNoDoubleOrder`. `KeyInv`: whenever a
  key is not available, an order that is not being released or a request whose
  lock has not been given back behind its back answers for it; from it
  `FlowSeatsAccounted` and `FlowNoLostSeat`, both with the exception of a server that died with
  the lock of a request whose message came to nothing (`Stranded`). The latter assumes that requests for seats have idempotency keys of
  their own (`OwnKeys`), and needs it: request 2 repeats request 1 after a timeout, the order of 1 is
  placed late, its invoice ends and its seat is given back before 2 takes the lock, and the late
  success of 1 is the answer 2 finds under the key. Nobody gives back the lock of a request that
  succeeded, so the cache refuses a seat that the database has. It takes a reply that is
  delayed by as long as the order lives, and no run repeats a request for a seat. `FlowSeatsAccounted` only assumes
  what the agent does, that a request is repeated as it was (`SameSeats`), and says that
  this is the one further exception (`Borrowed`).
  `FlowImplementsLedger`, with no hypothesis: the orders of the workers are a `SeatLedger`, as those of
  `Booking` are, so that both keep what `LedgerExclusive` says of every ledger.
  `FlowOneOrderWhenCalm`: as long as nobody has given up and nothing has failed, there is
  one order per key, so the second order of `flow_retry` has no other cause.
  `AnswerInv`: an answer, a stored result or a reply under way stands for what the worker did for
  the key; from it `FlowAnswersTrue`, with no hypothesis: a success has an order of its key, a refused
  request was not sent or a message of its key was handled without an order (`Refused`), and where it
  is the only message of its key there is no order at all, whatever was lost or repeated.
  `RowSum` and `KeySum`: the rows on offer and the live orders make up the stock, and what a counter of the cache
  lacks was taken by requests whose lock nobody has released, a dead server's among them; from them `FlowNoLostPlace`. It assumes
  that requests with one key want as many places (`SamePlaces`), as the agent repeats a request as it was.
  As long as nobody has given up and nothing has failed, every request is as far as its message and its order
  (`PhaseInv`), and keys and counters are short of exactly what the requests that hold them have taken
  (`LockInv`, `RowsExact`); from them `FlowCacheAgrees`, with no hypothesis.
* `ReplyProofs`. `IInv`: a channel is listed from `Store` to `Delete` when the key
  is its request's own (`ListedInv`); whoever sends has the channel of a
  request with the key that has listened (`TargetInv`), which is open or
  has a result; a request that took its answer took it from a reply that was
  sent (`BufferInv`, `TakenInv`). From it `ListenerOpenHolds`, `NoLostReplyHolds` and
  `PanicIsLateHolds`: a single, timely reply never ends the server.
* `AgentProofs`. `AgentTypeCorrect` rests on the budgets of each persistence being positive
  (`Budgets`); `AgentReportsOnce` on nothing being reported before the end (`Underway`).
  The pure functions are treated for arguments of any size. `SameCategoryFirst`: the search by
  category over all sales finds something whenever there is something, and nothing worse than the search by day finds in any sale. `ShuffleFair`:
  the list stays an arrangement after every draw (`AfterArranges`), two sequences of draws end
  differently (`ShuffleDiffers`) and every arrangement is reached (`ShuffleReaches`). The
  runs' `SameCategoryNeverWorse` and `ShuffleIsFair` are the instances of these.
* `PaymentProofs`. `PaymentInv`: a job is active exactly while a worker has it and has an
  attempt left unless it failed (`Queue`); what an invoice, its handlers and its
  worker know of each other (`Known`); a worker that is about to write and a payment
  that is about to write are both there only in an overtaken invoice (`Races`,
  `Writes`). A settled invoice then changes only where it is overtaken (`Settling`). The argument needs the payments
  of one invoice to agree on the mode (`OneMode`), which is an
  assumption about the users: two payments that race with different modes do settle an invoice twice.
  From it `PaymentSettlesOnce` and `PaymentTellsTruth`, for any number of users.
  `Expiry` needs no such assumption: only a late invoice is expired, and the worker that is about to
  expire one and a payment that is about to write it are not there together unless the expiry
  overtook the payment (`PaymentExpiresLate`, `PaymentExpiryFinal`).
* `PaymentProofs`, towards the backend. `PaymentImplementsGateway`: storing an invoice, paying and expiring it,
  and the begin and the end of a post are the steps of `Gateway`; deaths, timeouts, attempts and the queue
  are stutters, and a payment that is written again writes what is there. Both hypotheses are needed: an
  overtaken payment, or two that disagree, end an invoice twice. `Booking` takes
  this gateway as its environment (`GenerateInvoice`, `Settle`, `Deliver`, and `Answer` are `Open`,
  `Pay` or `Expire`, `Tell` and `Told`; that correspondence is read off the actions, not proved). `GatewayTellsTruth` is what every gateway keeps.
* `PurchaseProofs`. `ImplementsAgent` and `ImplementsPayment`: each step of the whole is a
  step of either part or nothing to it. The parts' invariants so hold in the whole, whose user
  supplies `OneMode` (`Payer`: it decides how to pay when it gets its order).
  With `Billing` (an invoice whose order is not committed is untouched) they give `PurchaseSettlesOnce`,
  `PurchaseImplementsGateway` (with nothing left to assume but that no expiry overtakes a payment),
  `PurchaseOrderFollows` and `PurchaseForgetsNoOrder`; with what the user has been
  answered and has seen (`Answered`, `Success`, `Confirmed`, `Told`) `PurchaseEndStateTrue`.

Some refinements are theorems only: `ImplementsLedger` of `FlowControl`, with which `flow_seats` takes TLC longer than
a run may, `ImplementsGateway`, and the refinements `ImplementsAgent` and `ImplementsPayment` of `Purchase`, which hold by the form of its
actions. Every invariant, action property and refinement of a passing run is a theorem, but for
`SharesAsDocumented`: it has no parameter, it compares a finite table of the source with a
finite table of the documentation, and TLC's evaluation of it is already complete. Otherwise only the
liveness properties are model-checked (`EveryRequestEnds`, `EveryHoldEnds`,
`EverythingEnds`, `EveryOrderSettles`, `PaidOrderSucceeds`, `IterationEnds`): fairness
and ENABLED are beyond the prover.

## 5. Abstractions and assumptions

* Prices, names, serial numbers, logging, metrics, HTTP texts and encodings are
  left out. An HTTP answer is its status code.
* An item that names a seat names the seat's area, and `ticketAreaId` of a request
  with seats is their area; the code does not check the former (hazard at
  `base_place_order_usecase.go:222`).
* PostgreSQL is READ COMMITTED with row locks as documented; 40001 may come at any
  statement (the other database variants raise it).
* A server is one process; `Crash` is per request, `PlacerCrash` per call.
* `FlowControl` leaves out notifications that are delivered twice (their effect
  is the finding of `booking_duplicate`), keys shared by concurrent requests and the panic of
  a send on a closed reply channel (both in `ReplyRouting`); all start with full keys.
* `ReplyRouting` is one server; what its requests do to the dropper is `FlowControl`'s.
  `Publish` assumes that `Push` returns. Stored results live 15 minutes, longer than
  anything modelled: their end is left out. Replies can be decoded.
* `Purchase` has one user; the backend works on one of its requests at a time (a request that
  timed out at the user is over when the next one is handled), and nothing takes the fifteen minutes
  of an invoice while the backend places an order. Once the user has an order, its budgets are
  forgotten: nothing reads them again.
* A `broken` answer stands for a body the script cannot use. Sleeps are left out.
* An order stays in `Payment`'s Redis longer than anything modelled.

## 6. Not modelled

* `refreshData` of the dropper and of the counters, with the cursor iterator that feeds it and the
  election of who refreshes (`GetOrSetWithEx`): the refresh reads rows and
  writes keys in batches while every request of `FlowControl` goes on, and a product of the
  two is out of TLC's reach; all models start with full keys and no refresh. Its hazards are listed
  in `PROJECT.json` without a property.
* The AMQP client: its effect, a message published twice, is part of `FlowControl`; that `Push` returns
  is assumed.
* The sanity check, a tool that is run by hand: its queries are the source of
  `NoDoubleOrder`, `AvailabilityConverges` and `CacheAgrees`.
* Read-only queries and their caches, the HTTP layer, serial numbers, the agent's fake data,
  tokens and logging, deployment files and the thesis.

## 7. Plan

Done: `SeatLedger`, `Booking`, `SeatCache`, `EarlyDropper`, `FlowControl`,
`ReplyRouting`, `Profile`, `LoadAgent`, `Payment`, `Gateway`, `Purchase` and their proofs. What would come next, in this order:

1. A refresh with a snapshot of the rows and one batch of writes, against an abstract
   `FlowControl` (`SeatCache` and `SeatLedger` with delays in between), small enough for TLC.
2. `AmqpPublisher`: confirmations shared by concurrent pushes, reconnection.
