# TLA+ models of the OpenTelemetry demo shop

This directory specifies the order path of the shop in `src/`: what happens from
the moment an item is put in a cart until the order is a row in the accounting
database, what the shopper's browser shows of it, the messages that carry it, and the
worker that evaluates the shop's chats. The modules are checked with TLC on small instances (`*.cfg`), and the
main results are proved with TLAPS for instances of any size (`*Proofs.tla`).
`PROJECT.json` lists the runs, the source lines of every definition, the hazards
the properties are for, the mutants that each property detects, and the theorems.

Paths below are relative to `src/` of the repository, so `src/checkout/main.go` is
the checkout service's main file.

## 1. The system

A shop of some twenty small services in twelve languages, instrumented for a demo.
The core is the life of an order:

    shopper --AddItem--> cart --(Valkey)            frontend API routes
       |
       +--PlaceOrder--> checkout --GetCart/EmptyCart--> cart
                           |--GetProduct--> product-catalog, --Convert--> currency
                           |--get-quote, ship-order--> shipping --> quote
                           |--Charge--> payment
                           |--send_order_confirmation--> email
                           +--topic "orders" (Kafka)--> accounting --> PostgreSQL
                                                    \-> fraud-detection
    store chat --GetOrder/RefundOrder--> accounting --Refund/GetPaymentStatus--> payment
    store chat --spans--> collector --topic "llm-evals-spans" (Kafka)--> llm-evals

| Component | State it keeps | Operations | What is hard about it |
|---|---|---|---|
| checkout (`src/checkout`) | none beyond its calls in flight, the Kafka producer | PlaceOrder | eight remote calls in a row, each may fail or lose its answer; concurrent calls of one shopper; no handling of SIGTERM; no deadline on any call or on the producer |
| checkout's money arithmetic | - | Sum, MultiplySlow, calculateTax | carries, borrows, truncation, a division by zero |
| cart (`src/cart`) | one Valkey hash per user, a connection | AddItem, GetCart, EmptyCart | read-modify-write over two commands, expiry, reconnection handlers |
| accounting consumer (`src/accounting/Consumer.cs`) | Kafka offsets, PostgreSQL tables | consume, store, commit, seek; a job deletes old orders | replays, rebalances, lost answers, messages that can never be stored, rows that go away |
| accounting order service (`OrderServiceImpl.cs`) | the order's status | GetOrder, GetOrdersByEmail, RefundOrder | a check, a remote refund and a save that are not atomic, of a row that may go away |
| payment (`src/payment`) | a map of transactions in memory | Charge, Refund, GetPaymentStatus | forgets at a restart, no idempotency |
| shipping, quote (`src/shipping`, `src/quote`) | none | get-quote, ship-order, shipping-status | what JSON it accepts, numeric conversions |
| currency (`src/currency`) | a map of rates | Convert, GetSupportedCurrencies | decimals read digit by digit into doubles and cut off on the way back; an unknown code becomes an entry of the map |
| fraud-detection | a counter, auto-committed offsets | consume | offsets committed by the client, a payload that ends the consumer within a batch |
| email | none | send_order_confirmation | - |
| product-catalog | the catalogue, reloaded every 10 s | ListProducts, GetProduct, SearchProducts | an unsynchronised slice, cleared by a failed reload |
| product-reviews, llm | none | reviews, answers | a bounded tool loop |
| recommendation | a cache behind a flag | ListRecommendations | growth of the cache |
| ad | CPU load threads behind a flag | GetAds | start and stop of the threads |
| store chat (`src/storechat`) | conversations in Valkey | turns | concurrent turns of one conversation |
| llm-evals | Kafka offsets, the message at hand | evaluate spans | judges that fail one by one or never answer, payloads that throw, a redelivery after the logs were written, heartbeats whose errors are ignored |
| flagd-ui | the flag file | edit, replace | concurrent editors |
| frontend (`src/frontend`) | a query cache per tab, a session | pages, API routes | a cache refreshed by successes only, routes that fail after their effect, bodies nobody validates, sums in the pages |
| frontend's protocol (`protos/demo.ts`) | - | encode, decode, JSON | absent, null and zero values, numbers as text, unknown fields, 2^53 |
| react-native app | a query cache | pages | a copy of the frontend's provider |
| load generator | - | - | - |

What makes each core component correct:

- **checkout**: what it answers is what happened; nobody is told of an order that
  was not paid and shipped; an item is neither lost nor sold twice except for
  reasons that can be named.
- **money**: the amount charged is the exact bill, in every combination of carries.
- **cart**: the stored cart is the sum of the calls that wrote it, except after a
  race that can be named; a cart does not stay for ever.
- **frontend**: the cart on show is the cart when nothing is under way; what is on show
  is what an order takes; asking again after an error does not buy twice, once the
  first order is over; the totals shown are those of the bill.
- **protocol**: a message arrives as it was meant, whatever was left out of it.
- **llm-evals**: no log of a message that failed; as few second logs as at-least-once
  delivery allows; no message skipped, none that blocks the others.
- **accounting**: an order whose offset is committed was recorded, and at most once at
  a time; and in the end every message is committed.
- **fraud detection**: an order is checked, or passed over for a reason that can be named.
- **together**: what came into the books was sold; what was sold and got to the topic came
  into the books, or will.

## 2. The modules

| Module | Models | Kind |
|---|---|---|
| `Money` | `money.go`, `calculateTax`, `uint32(quantity)` | operators |
| `OrderTotal` | the pricing loop of PlaceOrder, one call of `money.Sum` per step | state machine |
| `OrderLifecycle` | what an order goes through | abstract specification |
| `Checkout` | PlaceOrder, the services it calls, the carts of the shoppers, the pod's stop | state machine; implements `OrderLifecycle` |
| `OrderLedger` | what accounting promises about the topic | abstract specification |
| `Accounting` | the consumer group, its partitions, its database and the job that deletes old orders | state machine; implements `OrderLedger` |
| `FraudDetection` | `main.kt` with the Kafka client's automatic commits | state machine, open: the topic is written by others |
| `OrderFlow` | PlaceOrder's stages, the producer, the topic and its two readers | composition of `OrderLifecycle`, `OrderProducer`, `Accounting`, `FraudDetection` |
| `CartStore` | `ValkeyCartStore.cs` against Valkey | state machine |
| `OrderProducer` | `sendToPostProcessor` and `kafka/producer.go`: the channels all calls share | state machine |
| `Refund` | RefundOrder and GetOrder of `OrderServiceImpl.cs`, and the payment service | state machine |
| `Storefront` | a browser tab with `Cart.provider.tsx`, `Currency.provider.tsx`, the cart and checkout routes | state machine |
| `CurrencyService` | `Convert` of `currency/src/server.cpp` | operators |
| `ShownTotals` | prices from the catalogue to the cart and the order; the totals that the cart and the order page compute | operators over `OrderTotal` and `CurrencyService` |
| `Wire` | `protos/demo.ts`: its messages, services, and how they are written and read | schemas, operators, state machine of one message |
| `EvalWorker` | llm-evals: `index.ts` and `run-evals.ts` against Kafka | state machine |
| `OrderTotalProofs` | theorems about `Money`, `OrderTotal`, `CurrencyService` and `ShownTotals` | proofs |
| `OrderFlowProofs` | theorems about `Accounting`, `FraudDetection` and `OrderFlow` | proofs |
| `CheckoutProofs`, `CartStoreProofs`, `OrderProducerProofs`, `RefundProofs`, `EvalWorkerProofs`, `StorefrontProofs` | theorems about the module of that name | proofs |
| `MC*` | instances for TLC | - |

A few definitions in the state machines are marked *Mutant*. They are slips a
programmer could make in the definition that follows them. They take no part in
the specification; each shows that some property would notice the slip.

### Money and OrderTotal

An amount is a currency, whole units and nanos. `Sum` is `money.Sum` branch by
branch: the two refusals, the carry when units and nanos have the same sign, and
the two borrows. Go's integer division truncates towards zero (`Quot`, `Rem`). The
code's constants are parameters: `NanosMod` (10^9), `TaxDiv` (10, the rate 0.10)
and `UintMod` (2^32), so that TLC reaches every carry with units of nine
nanos; the proofs hold for all values. `int32` nanos cannot overflow (two valid
nanos add up to less than 2^31), and `int64` units are unbounded integers here:
a catalogue price would have to exceed 10^9 units to come near the limit.
`float64(x) * 0.10` truncated to an integer is modelled as the exact quotient by ten.

`OrderTotal` prices one order. `AddShipping`, then per line `StartLine`, the rounds
of `MultiplySlow` (`Multiply`), `AddCost` and `AddTax`, or `DivideByZero` when the
line's quantity is 0. `AddToTotal` is the repeated `total, err = money.Sum(total, ..)`
with its return of Internal. `due` is a history variable, the same bill in integers.

### Checkout

Each `PlaceOrder` call has a program counter over the remote calls in the order of
the code: `GetCart`, `Prepare` (catalogue, currency, quote: they only read),
`Total`, `Charge`, `Ship`, `Empty`, `Confirm`, `Publish`. A call that changes
something succeeds; or fails for good; or is given up, when its answer is lost or the
caller has gone away, while the service goes on with the request. What was given up
is `underway`, and the service carries it out later (`LateCharge`, `LateShip`,
`LateEmpty`, `LateConfirm`), when PlaceOrder is elsewhere or has answered, or never.
After `Cancel` (ctx is cancelled) every call fails before it is sent; a select between
`Input()` and a cancelled ctx may still choose `Input()`. `Stop` is the pod dying: `main` reaches
its signal handling only after `Serve` has returned, so SIGTERM ends the process at
once, and the last request may still be carried out. The producer is created once at startup and may be absent afterwards.

An item is one AddItem call with its quantity; quantities matter only by sign:
- a quote asks for the positive ones, and a quote for nothing is refused, because a
  nil slice becomes a JSON `null` that the shipping service cannot read;
- a zero quantity divides by zero in the total loop; the pass over the same items
  before it recovers the panic and goes on;
- `ship-order` sends all items unfiltered: a negative quantity is no `u32`, and a
  zero one is left out of the JSON, so the request is refused.

The cart is a set of items. `AddItem` is the cart service's two commands: it reads the
cart (`ReadForAdd`) and later writes what it read, with its item, over whatever the
cart is by then (`WriteCart`), so that two of them can lose an item and one of them can
bring back items that an order has sold. The shopper empties the cart too
(`EmptyByShopper`), and its key expires (`Expire`) at any time, since there is no clock.
How each command fails, and the arming of the expiry, is in `CartStore`. The history
variables say what crossed what: `late`, the items that came while an order was open;
`crossed` and `spans`, the items that came and the orders that emptied the cart while an
AddItem had its copy; `met`, the orders that were open together; `added`, `dropped` and
`emptied`, what was put in a cart, thrown away, and which orders emptied one.

### Accounting

Every instance loops through `Consume`, `ProcessMessage` and `Commit` or `Seek`.
`ProcessMessage` is split where the world can change: parse (`Parse`), the query for
the order id (`Find`), `SaveChanges` (`Save`, or `SaveLost` when its answer is lost,
or `Duplicate` for SqlState 23505), and any other exception (`FailToStore`).
`CommitFails` covers a commit that is refused, fails, or loses its answer: the
KafkaException it throws is no ConsumeException, so it leaves the loop and the host
stops. Kafka is modelled from its use: a partition has at most one owner; a
commit by an instance that lost the partition fails; a new owner starts from the
committed offset; an instance joins a rebalance only when it polls. A partition can
be taken from an instance that is busy: that is how two instances come to handle
one message. `Unstorable` orders are those PostgreSQL or the mapping refuses every
time. The topic may hold an order twice, on one partition or two.

`Expire` is the job `expire-orders` of `postgres/init.sql`: once an hour it deletes the
orders of more than two days ago. Without a clock it may delete any row; the primary key
goes with it, so that a message which is handled again records its order anew. `expired`
is a history variable; `Stored` are the orders that are or were in the table. The ledger
has both steps (`Expire`, `Restore`).

### CartStore

`AddItemAsync` is three commands with an await each: read the hash (`Read`), write
the whole cart (`Write`), arm the expiry (`Expire`). `EmptyCartAsync` is the last
two. Each may fail before its effect (`Fail`) or lose its answer; either way the
caller gets FailedPrecondition. `Vanish` removes a key (after an hour, or a restart
of Valkey). Nothing checks the sign of a quantity, so negative and zero ones occur.
A cart is the quantity of each product. `stale` marks the calls that hold a cart
read before somebody else's change, and `tainted` the users whose cart was last
written by such a call. `GetCartAsync` reads one key and is the operator `Content`.
The `cartFailure` flag makes `EmptyCart` fail, as `Fail` does.

### OrderProducer

The senders are the `PlaceOrder` calls and, per call, the goroutines that
kafkaQueueProblems starts to send the same message again. A sender sends (`Send`),
waits, and leaves with an outcome: a call with a success or an error (`TakeSuccess`,
`TakeError`), or with none (`Abandon`: 15 seconds, ctx.Done), a goroutine with a success
only. The channels do not say whose outcome it is, so a sender may take any. `Drain` is
the goroutine that logs errors. Sarama appears as it is used: a message is written
(`Write`), with NoResponse acks a success whatever the broker did; it takes input
while it holds fewer than `Capacity` messages whose outcomes are unread, which stands for
the buffers of its channels together.

### FraudDetection and OrderFlow

`main.kt` polls a batch (`Poll`), parses its records in a `fold` (`Check`), and never
commits: the client does, with the defaults that the properties leave alone. A poll commits
the end of the batch before, every few seconds; a group without an offset
starts at the end of the topic (`Join`, `before`); a consumer that polls too late is
expelled and does not know it (`Expel`). A payload that does not parse ends the fold, and `use` closes
the consumer (`Throw`): close() commits the end of the batch, whose rest (`behind`)
nobody reads any more; without that commit the consumer starts again before the same payload.
`checked` are the records that were parsed. There is one instance, as deployed. `FraudDetection` writes no topic:
it runs inside `OrderFlow`.

`OrderFlow` puts the parts together. Of PlaceOrder it takes the lifecycle that `Checkout`
implements (`Progress`, `Finish`), of the producer all of `OrderProducer`, and it reads
`Accounting` and `FraudDetection` on one log. What it adds is where they
meet. `Publish`: a call gets to the producer when its order is shipped. `Send`: the message is out, and the
order announced. `Write`: the topic gets the message or not, whatever outcome the producer reports, because with
NoResponse acks nobody asks; `Retry`: sarama may write a message again.
`Stop` is the checkout pod dying: its calls end, and what the producer held is gone. `taken` is a history
variable, the senders whose message the broker got.

### Refund

`RefundOrder` is split at its three awaits: `Look` (row and checks), `Refund` (the
payment service), `Save`. As in Checkout, a remote step succeeds, fails, or is given up and
takes effect later (`LateRefund`, `LateSave`) or never; the order service dying is all
its calls being given up. `RestartPayment` clears the map of transactions. An order
stands for its transaction id: `charge` draws a fresh one for each order. What a refund does in
payment (`Grant`) depends on nothing the map holds. `GetOrder` reads the row (`LookUp`)
and then payment (`Enrich`), whose answer replaces the row's status unless the call
fails. `Record` is the consumer's insert and does nothing for a row that is there.
`Expire` is the job that deletes old
orders; a save that finds no row throws. Who may have a refund is the comparison of the e-mail addresses, the variable `own`.
Amounts are left out: `GetOrder` reads none of payment's.

`granted` and `saved` remember the effects, `gone` which of the saved rows were deleted since, `before` which call was over when another
looked at the row, `known` what had happened when a query was asked.

### Storefront

A tab has one query entry per currency and a list of calls. A call is a mutation
(`Send`): its request takes effect in a route (`EmptyCart`; an addition in two steps,
`ReadForAdd` and `WriteCart`, as in Checkout; an order in two, `PriceOrder` and
`PlaceOrder`, because checkout reads the cart long before it empties it), and its answer arrives (`Confirm`), or does not: a gateway call of the
route rejects before or after the effect, or a connection is lost while the services go on (`Fail`).
`InstrumentationMiddleware` rethrows, so a failing route answers a text that is no
JSON, and `request()`, which looks at no status, rejects as it parses it. `onSuccess`
invalidates (`Invalidate`) the entries of `['cart']`: the one on show is fetched, and a fetch under
way is replaced, but not the very first fetch of an entry; an entry off show has no
observer and keeps what it has. `Focus` and `Select` fetch unless a fetch is under way. `Reload` drops
queries and promises and keeps the session. A query that fails is retried `MaxRetries`
times (three in the code).
react-query is external and appears as it is configured here. A user's cart is a set of calls, and it may
expire (`Expire`). Of each call, `effect` says that it was carried out, whatever its route
answered or the browser heard; `beside` which calls were under way beside it; `settled`
that the cart on show was settled as an order was sent. `missed` are the entries that may have missed a change
since they were last read, `vanished` what was in the cart as it expired. One tab changes
the cart: a second tab of the session, which the first hears nothing of, is left out.

### CurrencyService and ShownTotals

`Convert` turns an amount into a double and back. `Decimal` is the loop of `getDouble`, digit by
digit; a double is an integer of nanos, and its roundings are the choice of `UnitsAndNanos`
among three neighbours: the cut at the end makes of 101.96, which the double
misses by less than a nano, 101 units and 959999999 nanos. The same conversion answers the same each
time, which is why the shipping of the cart and that of the order are one variable. Rates are fractions
with a common denominator; here they are one to one, for dollars into dollars, the
conversion that checkout makes of every price and the frontend of none. `Base` is the 10
of the loop and `Places` are the powers of ten up to 10^9, parameters like `NanosMod`.

A line of `OrderTotal` costs what `Convert` answered for a price of the `Catalog`
(`CatalogPrices`); `CartPrices` is `getProductPrice`.
`CartTotal` and `PageTotal` are the sums of `CartItems.tsx` and of the order page, over
the lines and the shipping that `OrderTotal` charges for. JavaScript's `Math.floor` and `%`
differ from Go's division below zero. JavaScript's numbers are integers here: they are
exact below 2^53, nine million units in nanos. `UpTo` is their `reduce`, a recursive function
on the number of lines. The quantity of a line is an `int32`: below 2^32 (`Int32Assumption`).

### Wire

`protos/demo.ts` is 5869 generated lines of one pattern. Each message is a schema
(number, type, list or not, of every field), each service a table of requests and responses,
and the pattern is written once: what `encode` leaves out (`Written`) or throws
on (`Throws`), the loop of `decode` (`ReadField`), `createBase`, `toJSON`, `fromJSON`
and `fromPartial`. The state machine takes one message from the object a caller passed
to the object its peer reads, past fields a newer peer added (`WriteStrange`). The
bytes of a field are left out; its number and wire type are what decode decides by. A field
that is a list of numbers would be packed; no message has one. Map fields do not occur.
Values are what the code tells apart: zero or not, a number that is text, a fraction, one that
does not fit 32 or 53 bits, and null, which a JSON body of the browser may hold: `isSet` and `??` take it for
absent, while `encode` writes it, because it is not the default, so that a string
arrives as the text "null" (`Converted`) where `toJSON` and `fromJSON` leave nothing.

### EvalWorker

A worker is handed a message (`Deliver`), starts `runPhase1` for each of its spans and
waits for three judges per scored span (`Settle`). The first span that throws rejects
`Promise.all` (`Abort`): the handler throws and kafkajs hands the message out again. If all
are settled (`Finish`), the logs are written in one go and the handler returns; kafkajs
commits afterwards (`Commit`). `Verdict` is what the code does with the attributes of a
span: those of a tool round, or without a question or an answer, are passed over, and
messages that are JSON but cannot be walked throw. A payload that is JSON but no OTLP object (`Unwalkable`)
throws before the spans are drawn, at every delivery. `Draws` is the sampling, drawn anew
for each delivery. `Assign`, `Told` and `Crash` are the group's side: a worker that
loses a partition goes on until a heartbeat outside the handler or a refused commit tells it;
a group without an offset starts at the end of the partition (`fromBeginning: false`).
`handled`, `uncommitted` and `orphans` are history variables.

## 3. The runs

| Run | Instance | What it shows |
|---|---|---|
| `order_total` | all prices below two units of nine nanos (two digits of base 3) in dollars, 3 shippings, 1-2 lines, quantities -1..3 of 2 bits | the charge is exact and well formed; zero quantities never reach it; the pages show the charge without its tax; cart and order page agree unless a price leads with a zero |
| `order_price` | three prices of the catalogue in hundredths, one line | **violated**: "Number of nano (10^-9) units of the amount" (`pb/demo.proto:193`): 57.08 dollars are charged as 57.80 |
| `checkout` | 2 shoppers, 2 orders, 2 items | orders beside additions, emptyings and expiring carts, under failures, given-up calls, cancellations and stops: what the answers mean, who hears of an order, every way an item is lost, sold twice or taken from a cart; refinement of `OrderLifecycle` |
| `accounting` | 2 instances, 1 partition of up to 3 messages; an order, an unstorable one, a poison payload | safety of the consumer group while rows come and go, refinement of `OrderLedger`, and progress past everything but an unstorable order |
| `order_flow` | an order and a duplicate, a producer that holds one message, 1 partition of 2 messages, 1 instance of each reader | where an order can be lost between checkout and the books; which recorded order fraud detection never checks |
| `cart_store` | 1 shopper, 2 products, 3 calls, quantities -1, 0, 2 | races, failures and expiry of the cart |
| `order_producer` | 2 orders, 2 duplicates each, a producer that holds 2 messages | how outcomes are shared, how the producer gets stuck, and that nothing else blocks a send |
| `refund` | 1 order, whose row may expire, 3 refunds, 1 query | what the answers of RefundOrder and GetOrder mean |
| `refund_status` | the same | **violated**: the status is '"completed", "charged", or "refunded"' (`pb/openapi.yaml:505`): after a restart of payment it is "unknown" |
| `storefront` | 4 acts, calls among them, 2 currencies | when the cart shown is the cart, and an order what was shown; what a repeated order buys; what takes an item out of the cart |
| `eval_worker` | 2 workers, 1 partition of 3 messages, 3 spans, 2 judges, 2 disruptions | which spans are logged and how often; nothing skipped; nothing blocked |
| `wire` | every message of every method; one field at a time takes each value, at any depth | what is read is what was meant |

The bounds. Two orders are enough for every property of `Checkout`, which relate an
order to itself or to one other; two items distinguish the one an order read from
the one that came later, and let two additions cross each other and an order. An item of zero or
negative quantity (`ZeroItems`, `NegItems`) occurs only in guards that forbid steps, so every behaviour with such items
is one of the instance, which has none. Two instances are the least with a zombie and a successor, three
messages of one partition the least with an order, its duplicate and something between
them. With liveness a second partition is beyond five minutes, and what could go wrong on two (one
order on both) is left to the proofs, which are for any number. Three cart calls allow a stale write between two
others. In the flow, an order, its duplicate and a payload that does not parse compete for two places of one
partition: enough for a batch that ends early with the order behind, an order that is lost though
reported as a success, and one that is recorded and read twice; what several instances do to each other is in
`accounting`. Two messages in the producer and six senders let it fill with outcomes of
either kind while a sender waits for his own. Users do not share carts, so one user is
enough there; orders share nothing in a refund, so one is enough, with two calls in a
row and a third beside them. 
Three calls of a tab are an item, its order and the order's repetition, with one
act (a reload, a second currency) between them; a fourth call, in place of the act, is an
addition that was under way beside the first order and puts its items back. At most two
calls of a tab are under way together, and a failed query is asked again by an act of the user only
(`MaxRetries` is 0); the proofs are for any number of each. Two disruptions move a partition away and back while a message is
at hand. One field at a time is enough for `Wire`, because the code
treats each field by itself; all the others are there, empty or full. The proofs confirm the safety results, but for
`Wire`'s, without any of these bounds. `MaxLog` is the only bound built into `Accounting` (a guard of `Produce`); `EvalWorker` has it too, and `MaxDisruptions`
(guards of `Assign` and `Crash`); `Storefront` has `MaxCalls`, `MaxAtOnce` and `MaxActs` (guards of the
user's actions and of `Expire`); `MaxLines` and the sets of prices bound initial states.

Symmetry is used over calls, and in `checkout` over shoppers, orders and items, only in
runs without liveness; the refinement of `checkout` is a property of single steps. No
property names one of the permuted values.
Deadlock checking is off where the system may come to rest: all orders done, the
order priced, all cart calls done, all senders done or the producer stuck, the user and
his calls done, the topic evaluated, the message delivered or refused.

### Fairness

- `Checkout`: none. The code gives no gRPC call, no `otelhttp.Post` and no send to `Input()` a
  deadline, so a service that never answers holds a call for as long as its caller waits, and
  nothing is claimed of the end of a call. What a call waits for at the producer is in `OrderProducer`.
- `OrderProducer`: weak fairness of the producer, the logging goroutine, the 15 seconds
  and the flag's loop; an outcome is read if somebody waits; strong fairness of each
  send, because Go queues blocked senders. No fairness of Begin and GiveUpSend.
- `Accounting`: weak fairness of restarting an instance (the host exits, the
  orchestrator starts it again) and of its loop (every call in it returns, also that of
  an instance which lost its partition); strong fairness of handling a
  message that an instance owns and of assigning a free partition. Strong fairness
  means that no fault recurs for ever exactly there; every fault may still happen any
  number of times. None of `FailToStore`, `CommitFails`, `Crash` is fair, and an
  unstorable order has no fair step that would end its retries: the property
  excludes what is behind it, and that is what the code does.

- `EvalWorker`: weak fairness of assigning a free partition, of the judges (their calls
  are assumed to end; the code sets them no timeout), of the worker's and kafkajs's next step and of a commit by an owner;
  strong fairness of a delivery that draws no span. The draw is an independent random choice at every
  delivery, so a message delivered for ever is some day passed over, with
  probability one: this is all that gets a partition past a message whose
  handler always throws, and at `EVAL_SAMPLE_RATE` 1 nothing does (the mutant `DrawsAll`). No fairness of
  `Produce` and `Crash`.

## 4. What is proved

Some results are left to the proofs and to no run, because they say little beside the
others: the type invariants of the proved modules, `UnitsAreTaxedOnce`,
`PaidOrdersHaveNoZeroQuantity`, `TaxNeverExceedsRate` and
`OwnerHandlesTheFirstUncommitted`. Every other property named here is both run and proved.

All with TLAPS, for any constants that satisfy the modules' assumptions, and without
fairness.

**CheckoutProofs.** `OrderInv` joins the types with `Progress`: for each order, what
its program counter says about the charge, the shipment, the announcements and
the answer. The properties do not mention the counter and are not inductive without
it. From it follow `TypeOKAlways`, `ReplyTellsProgressAlways`,
`OnlyPlacedOrdersAreAnnouncedAlways`, `PaidOrdersHaveNoZeroQuantityAlways`,
and `ImplementsLifecycleAlways`, by the lemmas
`Idle` (a step that moves no stage) and `Forward` (one that moves one order by one
stage). `CartInv` follows the items. A user's cart, orders and AddItem calls know only items of that user
(`OfTheUser`). An open order read what is in the cart, or it came late (`OpenSeesCart`), and an
AddItem under way has a copy of what is in the cart, or it crossed it (`AddSeesCart`). What an order that emptied the
cart had read is in no cart and in no copy still to be written, but for copies taken before it, unless one of
those was written since (`EmptiedIsGone`). So two orders read the same item only if they met, one kept the cart, or the
item was restored (`SharedReads`). Each half needs the other: an AddItem that is about to write is why an emptied cart is
not an empty one. With `OrderInv` it yields `ItemsAreLostForAReasonAlways`,
`ItemsAreSoldTwiceForAReasonAlways` and `CartLosesItemsForAReasonAlways`.

**OrderFlowProofs.** First `Accounting` alone. `IInv`: the message at hand is in the log and not beyond the
committed offset; it is the committed offset while the instance owns the
partition, and the fetch position is the next one; what ProcessMessage found out
about it still holds; an owner that handles nothing of a partition fetches from the committed
offset. The clause about an instance that lost its partition is what makes a stale
insert harmless: its message is older than the offset, hence recorded once, so that the insert is refused
or restores a deleted row, or it is the very next one. From it follow `TypeOKAlways`, `CommittedIsRecordedAlways`,
`RecordedOnceAlways`, `OwnerHandlesTheFirstUncommittedAlways`,
`CommitsAreSequentialAlways`, and, given a database, `ImplementsLedgerAlways`.

Then the composition. Each step of the flow is one of accounting's or none
(`FlowAccountingStep`), so `FlowImplementsAccounting`: `FlowSpec => Safety`, and all of the above holds
of the flow, the abstract ledger included (`FlowImplementsLedger`). `FlowInv` adds three parts to `IInv`, one for each place where components meet. `SaleInv`: a sender is at
work only for an order that is shipped and whose call is open, or that is announced already, which is what
lets the goroutines of the flag send after their call has ended; with it the flow implements
`OrderLifecycle` (`FlowImplementsLifecycle`). `TopicInv`: what is in the topic was announced, and what is or was
recorded, or was taken by the broker, is in the topic. `FraudInv`: what fraud detection has
committed, or left behind in its batch, was checked or passed over for a reason; the position in the
batch is needed because the next poll commits it. `FraudNeverGoesBack` says that no commit,
whether of a poll or of close(), takes it back. Together with `CommittedIsRecorded` they yield
`BooksAgreeWithSalesAlways` and `RecordedIsCheckedAlways`, for any number of orders, duplicates,
partitions, instances and messages. `BooksAgreeWithSales` holds of the run only
through facts of all the parts: that is why it is proved here and not of one module.
`OutcomesBalance` is not claimed of the flow: a pod that stops takes its senders and outcomes with it.

**OrderTotalProofs.** `SumIsExactAlways` and `SumIsValidUnlessUnitsCancel`
are about one call of `money.Sum` and hold for any number of nanos in a unit;
`SumMayLeaveItsLimits` refutes the comment at `money.go:95` (see Findings).
`TaxNeverExceedsRateOfLine` is about one call of `calculateTax`, and `UnitsAreTaxedOnce`
says how far its tax stays behind a tax per unit: by that of the whole units of all
items but one. `PriceInv` follows a
whole order: `Place` (which quantities were passed), `Exact` (what the running total
and MultiplySlow's `out` are worth) and `Shaped`. `Shaped` is why the charge is well
formed although Sum makes malformed amounts: a total is nothing, or holds a unit, or
is a unit less a fraction, which the next Sum refuses; after a line that costs
something there is always one more Sum, its tax, and what that accepts holds a unit.
From `PriceInv` follow `TypeOKAlways`, `ChargeIsExactAlways`, `ChargeIsValidAlways`,
`ZeroQuantityNeverChargedAlways` and `TaxNeverExceedsRateAlways`, for any modulus,
rate, prices, quantities and number of lines.

The pages add up the same lines by a `reduce`. `BillInv` is the loop invariant that
meets it: `due`, the bill in integers, is the shipping and what `UpTo` adds up for the lines
already priced. That `UpTo` is defined, keeps sums apart (`UpToIsLinear`) and keeps bounds (`UpToIsMonotone`) is
shown line by line: `Climbs` is induction on the number of lines, obtained from the
library's theorem that every non-empty set of naturals has a least element (`WFMin`), because
the induction theorems themselves take an operator. `CarriedIsWorth` is the
pages' carry. From these follows `ShownTotalsLeaveOutOnlyTheTaxAlways`.
`LoopReads` is the loop of `getDouble`, by the same induction over places: it makes of nanos, without the zeros that lead
them, a fraction of a unit, and puts it before what it had read. `DoubleReads` draws from it that nanos without a leading zero are read
as they are, and `LeadingZerosAreLost` that all others are read as at least `Base` times
as much. With the first, `PriceInTheCart` bounds the error of one price by a nano, and
`CartShowsTheOrderAlways` that of the cart by a nano per item. Assumed of the constants: `Places` are
the powers of `Base` up to `NanosMod`, rates are positive (the table in
`server.cpp:48` has no other), and quantities fit 32 bits.

**CartStoreProofs.** `CartInv` adds to the properties what a call in flight holds
(`Holds`): an AddItem call that is not stale holds the stored cart and its item, an
EmptyCart call holds nothing. From it follow `TypeOKAlways`,
`CartIsExactUnlessStaleAlways` and `UnexpiringCartHasAnOwnerAlways`, for any number of
users, products and concurrent calls. `Counted` is the invariant for
`NoCallCountsTwiceAlways`: of every product, what is stored is the sum of some calls that
asked for it, and what a call is about to write is the sum of some such calls, itself perhaps among
them. Reading takes the second from the first; a stale write drops calls
from the sum and counts none twice. The sums are over sets of calls, which the library adds up in an order
nobody chose; that the order does not matter (`SumsAgree`, `TotalStep`, `TotalWithout`) is shown on a smallest
set for which it would (`Smallest`).

**OrderProducerProofs.** `ProducerInv` adds to the balance where the counted senders
stand (`PlaceInv`): who gave up is past the select and is counted once, a logged error is
read, and the goroutines of a call are idle until it is done, so that starting them moves
nobody's wait. From it follow `TypeOKAlways` and `OutcomesBalanceAlways`;
`StuckForGoodAlways` needs the types only: who is full takes nobody in, so nobody comes
to wait (`StuckStep`). All for any number of calls, duplicates and buffered messages.

**RefundProofs.** `RefundInv` joins the types with `CallInv` (what a call's place says of
the money and the row), `OrderInv` (the row and payment's map against the refunds carried
out), `AfterInv` (a call that looked after a saved one was over is refused, while that row is kept) and `QueryInv`
(what a query has read against what it could know). `AfterInv` is why a second refund
needs an unsaved first one, or a row that was deleted and recorded anew: a call that is over never saves later. From it follow
`TypeOKAlways`, `ReplyTellsRefundAlways`, `RefundsAreOwnedAlways`,
`RefundedAgainOnlyUnsavedAlways` and `StatusIsNotStaleAlways`, for any number of orders,
calls and queries.

**EvalWorkerProofs.** `EvalInv` joins the types and the two invariants with `JobInv` (the
message at hand is the one at the worker's position, and only its spans are drawn) and
`OwnerInv` (the owner of a partition is past what it handled and has not committed, and
everything between the group's offset and its position was handled). The two are needed
together: a second log of a span is counted by an orphan only because the
owner never handles an offset that is committed or waits for its commit. From it follow `TypeCorrect`, `NoPartialLogs`,
`RedeliveryLogsTwice` and `NothingIsSkipped`, for any number of workers, partitions,
messages, spans and judges and any sample rate.

**StorefrontProofs.** `ShopInv` joins the types with `Fresh` and `Orders`. `Fresh`: an entry
that missed nothing holds the cart, or a fetch of it is under way that will bring the cart, as
long as no call took effect whose answer is out. `Orders` follows the items through the calls that take them: what is in
the cart came by a call that was carried out (`Came`); a call that has read the cart knows every item that is in it, but
for those of calls beside it (`Knows`); what an order that emptied the cart took is neither in the cart nor in the
hands of an addition, unless one beside it puts it back (`Cleared`), so an order sent once the first is over finds none of
it (`Once`). `Meets` says that calls under way together know of each other, and `Alone` that an order with nobody beside it finds in
the cart what was on show, or an expired cart, which it cannot order. From it follow `StorefrontTypeOK`,
`ShownCartIsTheCartAlways`, `OrderTakesWhatWasShownAlways`, `NoItemIsOrderedTwiceAlways` and
`ItemsLeaveForAReasonAlways`, for any number of calls, acts, currencies and retries. Whether a route failed
after its effect plays no part in `NoItemIsOrderedTwice`: an order counts as placed once it was carried out.

Only model-checked: the liveness properties (fairness is out of the prover's reach) and
`Wire` (its messages nest, and its operators are RECURSIVE, which the provers cannot
expand).

## 5. Findings

- `money.go:95`: "different sign. nanos guaranteed to not to go over the limit". The branch
  is also taken when units cancel or are absent: -1 and -2 nanos, two valid
  amounts, add up to 1 unit and -2 nanos less a unit, beyond the limit
  (theorem `SumMayLeaveItsLimits`). In
  PlaceOrder the malformed amount is refused by the next `Sum`: an order whose
  running total has no whole unit ends with Internal (`ChargeIsValid` holds
  nevertheless: no malformed amount is charged).
- `currency/src/server.cpp:148`, run `order_price`: `getDouble` loses the zeros that lead nanos. One
  product of the catalogue has such a price: the red flashlight of 57.08 dollars is
  charged as 57.80 (57.799999999 after the roundings), and shown as 57.08 in a cart in dollars.
  Other prices lose at most a nano (`CartShowsTheOrder`).
  `LeadingZerosAreLost` proves it of every such price: it is read as its units and at least ten times its nanos.
- `main.go:464`: `calculateTax` divides the tax of one unit by the quantity and multiplies it back, so that
  the nanos of the tax grow with the quantity and its whole units do not: this is no "per-unit tax"
  (`main.go:463`) of a line "based on its cost and quantity" (`main.go:458`).
  `UnitsAreTaxedOnce` proves it of every line of two or more items that cost ten units or more: it is
  taxed less than its items one by one.
- `paymentStatus.js:12`, run `refund_status`: a payment service that restarted answers
  "unknown", and GetOrder shows it even for an order whose row says refunded.

Beside the runs, reading the code for the models showed:

- `llm-evals/src/eval/run-evals.ts:14-15` says the scoring of a chat's trace is "exactly-once-or-zero per chat
  span". It is so under failures (`NoLogOfAFailedMessage`), but the logs are written before
  the commit: a crash or a lost partition between them writes them again.
  `LoggedTwiceOnlyByRedelivery` says that nothing else does.
- `producer.go:41` says that the setting "may swallow failed messages". `BooksAgreeWithSales` says that an
  order can be lost nowhere else than there, before the topic: swallowed, failed with an error that is only
  logged, or in a pod that stops while its producer holds it.
- A payload that does not parse costs fraud detection the rest of its batch, if close() commits
  (`behind`), or stops it at the same payload after every restart, if close() does not. Accounting passes over
  the same payload (`Parse`) and goes on. A new group checks nothing that came before its first
  commit, also after a crash (`before`).
- Without a first commit, `fromBeginning: false` passes over what was
  produced before a worker (re)joined: `CommitsPassOnlyHandled` holds from the first commit on.
- The order page's "Total" is not what the card was charged: it lacks the tax
  (`ShownTotalsLeaveOutOnlyTheTax`).
- A route that fails after its effect leaves the shown cart stale until the next focus, fetch or
  success (`missed` in `Storefront`), and a placed order is answered as an error if a
  product lookup fails.
- `react-native-app/components/ProductCard/ProductCard.tsx:49` divides nanos by 10^8.
- `shipping_service/quote.rs:85` takes the cents of a quote as `(value * 100_f64) as u32`: of 29 items,
  quoted at 260.71, it makes 260.70, because the product is a little less than 26071. Of 91 to 99 items the cents are
  below ten, and the conversion reads them as tenths.
- `flagd-ui/lib/flagd_ui/storage.ex` says of its process that it linearizes reads and writes "preventing conflicts and last-writer-wins";
  `advanced_editor.ex:78` replaces the whole file by the text of the editor, which was read long before.
- A string that is null in a request body arrives as the text "null", because `encode` leaves out only
  the default (`WireAgreesWithJSON` names the exception).
- A payload that is JSON but no OTLP object throws at `llm-evals/src/index.ts:267`, before the sampling, at every delivery: it holds up
  its partition at every sample rate (`EveryMessageIsPassed` claims nothing of what is behind one).
- `postgres/init.sql:137` deletes old orders and the primary key with them: a message that is handled again after
  that records its order a second time, with the status it had before a refund (`RefundedAgainOnlyUnsaved`).

More results are properties that hold and read like warnings: an Unavailable order
is always paid (`ReplyTellsProgress`); an overlap, a dropped error, or an AddItem that writes
back an older cart sells the same items twice (`ItemsAreSoldTwiceForAReason`); two additions under way together
may lose one (`ItemsAreLostForAReason`); a refund that was not saved, or was recorded anew, can be paid
again (`RefundedAgainOnlyUnsaved`); and a producer
clogged by calls that gave up never takes an order again (`StuckForGood`).

## 6. Not modelled, and the plan

The order of the plan is by weight in the life of an order.

1. `RedisConnection`: EnsureRedisConnected, its double-checked lock and the handlers of
   replaced connections, under CartStore.
2. `FlagStorage`, `Conversation`, `CpuLoad`, `Catalogue`: concurrent editors, turns,
   threads and reloads.
3. Numbers: quotes against exact decimals; the currency service's map, which an unknown code
   changes while other calls read it.
4. Proofs: the safety of 1-2 as they are written; of `Wire`, what one level of a message allows
   once its schemas are functions.

Left out for good: rendering and styling; telemetry, deployment and configuration; the
pages and routes of the frontend that forward one request (reviews, AI answers, ads,
recommendations, orders, products) and the mobile app's pages; what the language models
answer and how their prompts are put; the mobile app's generated code, of which it uses the types
only; third-party services (Kafka, Valkey, PostgreSQL, flagd) and libraries
(react-query, kafkajs, sarama), which appear as the code uses them.
