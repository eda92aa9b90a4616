# Verification of the NestJS e-commerce monolith

TLA+ models of the shop in `src/`, TLC configurations that check them on small
instances, and theorems about them checked by TLAPS. The repository is a single
NestJS process in front of PostgreSQL (Prisma), Redis (cache-manager/Keyv) and
RabbitMQ. All paths below are relative to the repository root; line numbers are
those of the modelled commit.

## 1. Inventory

| Component | State | Operations | Talks to |
|---|---|---|---|
| Checkout (`payment/checkout.controller.ts`, `payment.service.ts` 68-131) | `Payment`, `PaymentEvent` rows; idempotency keys in Redis | `POST /order/:orderId/pay` = `createAndQueuePayment` | Redis, PostgreSQL, RabbitMQ process queue |
| Payment worker (`payment.processor.ts`, `payment.service.ts` 133-265) | the same rows, `User.balance`, `Order.status`, cart rows, cart version | `process`, `retry` handlers; `processPayment`, `recordTechnicalFailure`, retry, acknowledgement | both queues, PostgreSQL, Redis |
| Wallet (`payment.controller.ts`, `payment.service.ts` 39-71) | `User.balance` | `balanceCharge`, `credit` | PostgreSQL |
| Cart service (`cart/cart.service.ts`) | `cart-version:<user>` and the cached cart pages | `getCart`, `addToCart`, `removeFromCart`, `invalidateUserCartCache` | Redis, cart repository |
| Cart repository (`cart/repositories/cart.repository.ts`) | `Cart`, `CartItem` rows, `Cart.price` | `getOrCreatePage`, `addItem`, `removeItem`, price recalculation | PostgreSQL, reads `Product` |
| Order (`order/order.service.ts`) | `Order`, `OrderItem` rows | `createOrder` | PostgreSQL, reads the cart |
| Product (`product/product.service.ts`) | `Product` rows | list with a cursor, create, update, delete | PostgreSQL |
| Authentication (`auth/`) | `User` rows, bearer tokens | register, login, `AuthGuard`, `RolesGuard` | PostgreSQL |
| Error filters (`common/filters/`) | none | error to HTTP status | every controller |
| Process and transports (`main.ts`, `payment.module.ts`, `app.module.ts`) | the two consumers and the connections | start, consume, crash, restart | RabbitMQ, Redis |
| Prisma service, generated client, DTO validation | no logic of the program's own | | |

How the parts interact: controllers call services directly; services share
state only through the database, Redis and the queues. The checkout hands a
payment to the worker through the process queue, the worker hands failed
attempts to itself through the retry queue, and the settlement reaches into the
cart (its items are deleted, its cached pages are invalidated) and the order.

### What is hard, and what makes each part correct

* **Checkout.** The idempotency key is read first and written last; between the
  two are a check for a live payment, an insert and a publication, each behind
  an `await`, in a Read Committed transaction. A crash or an outage can fall
  between any two. Correct: one live payment per order; a key is cached only for
  a published payment of that user.
* **Payment worker.** Messages are redelivered, duplicated and worked on by two
  consumers at once. The settlement is Serializable, the recording of a failure
  is not. Correct: money is conserved, an order ships exactly when paid, is
  debited once, its events tell its history; a published payment is never
  forgotten and is settled in the end.
* **Wallet.** Conditional updates interleave with settlements. Correct: the
  balance stays between 0 and the limit.
* **Cart service.** Versioned cache keys with expiry: a slow read, itself of
  several statements, races a change and its invalidation. Correct: a page stored
  for an old version is never served for a newer one, and shows no items older
  than its total.
* **Cart repository and order.** Stock and price are read outside the
  transaction that uses them; settlement, product updates and cart changes
  interleave. Correct: the cart's total is that of its items; quantities respect
  the stock they were checked against; an order costs what the cart showed.
* **Product.** Pages are cut with a cursor while rows come and go; rows are
  deleted under foreign keys. Correct: a walk returns no row twice and every row
  that stayed; no cart or order names a product that is gone.
* **Authentication.** A registration looks nothing up, and tokens outlive the
  roles of their users. Correct: names are unique, which the indexes see to; only
  an account that is privileged at the time deletes.
* **Shop and payments together.** Orders are paid later than they are placed,
  while carts and prices change. Correct: what is taken for an order is what the
  cart showed its owner, and taken from that owner.

`PROJECT.json` lists the hazards one by one at the lines where they bite, with
the properties that cover them; those without one say why.

## 2. The modules

| Module | Models | Role |
|---|---|---|
| `PaymentStore` | rows, keys, queues, handlers, requests (`schema.prisma`, `payment.module.ts`) | state shared by the three below |
| `Checkout` | `createAndQueuePayment` | one action per `await` or statement |
| `PaymentWorker` | `PaymentProcessor`, `processPayment`, `recordTechnicalFailure` | one action per outcome of each transaction, per publication, per acknowledgement |
| `Wallet` | `balanceCharge`, `credit` | one action each |
| `PaymentSystem` | the three composed, with the process crash | specification, fairness, properties |
| `PaymentContract` | what payments promise | abstract specification |
| `MCPaymentSystem` | values of the constants | all runs |
| `PaymentProofs` | types and coherence | theorems |
| `SettlementProofs` | settlement, events, messages | theorems |
| `SumProofs` | sums over finite sets, least counterexamples | lemmas for the proofs below |
| `ContractProofs` | refinement of `PaymentContract`, conservation of money | theorems |
| `Shop` | products, carts, orders: `CartRepository`, `OrderService`, the changes of `ProductService`, the settlement's effect on a cart | specification, properties |
| `Store` | `Shop` extended by the payments of its orders | specification, properties |
| `ShopProofs` | of `Shop`: types, totals, quantities, foreign keys, order prices; of `Store`: what an order is charged | theorems |
| `CartReads` | what `GET /cart` promises | abstract specification |
| `CartCache` | `CartService`: versions, pages, expiry; implements `CartReads` | specification, properties |
| `CartCacheProofs` | what a stored page may show, refinement of `CartReads` | theorems |
| `Accounts` | `AuthService`, the guards, product mutations behind them | specification, properties |
| `AccountProofs` | who deletes | theorems |
| `Pagination` | `findAll` and the paging of `getOrCreatePage` | specification, properties |
| `PaginationProofs` | what sorting returns; order and completeness of a walk | theorems |
| `MCShop`, `MCStore`, `MCCartCache`, `MCAccounts` | symmetry sets | runs of `Shop`, `Store`, `CartCache`, `Accounts` |

### From the code to the state

* `payment[p]`, `event[p]`, `orderStatus[o]`, `balance[u]` are the rows. A row
  that does not exist yet has status `"NONE"`. Events are counted by status;
  their text is left out.
* `Owner[o]` and `Amount[o]` are constants: nothing in the code changes an
  order's user or items once it exists, and the payment's amount is computed
  from them. Orders exist from the start here; `Store` is the model in which they
  are placed one by one.
* `idem[u][k]` is the Redis entry `payment-idempotency:<user>:<key>`, removed by
  `ExpireKey` at any time (its TTL).
* `queue[q][p]` counts the waiting messages for payment `p`. A queue is a bag:
  the code relies on no order, and redelivery and two consumers break it anyway.
* `handler[h]` is a consumer with `prefetchCount: 1`: at most one
  unacknowledged message. `seen` is the attempts count `recordTechnicalFailure`
  read. `"stalled"` is a handler whose error was neither a `PaymentException`
  nor caught: the message is unacknowledged and the consumer gets no other until
  the process restarts. `"dropped"` is a message of a dead process that
  RabbitMQ has still to requeue.
* `request[r]` is one HTTP request of `POST /order/:id/pay`. `"conflict"` is the
  409 of a used key, `"rejected"` the unknown or already paid order,
  `"failed"` a 500 or no answer.
* `cartStale` holds the users whose cart a settlement emptied and whose
  `cart-version` entry has not been rewritten since. Cached pages also expire by
  their own TTL: see `CartCache`.
* `published`, `clobbered`, `raced` and `funds` are history variables: no guard
  reads them.

`Shop`:

* `product[p]`, `cart[u]`, `item[u][p]`, `order[o]` are the rows. The unique
  index on (cart, product) makes `item` a function of user and product, with
  quantity 0 for no row (`AddCartDto` lets through only quantities of 1 or
  more). Users exist from the start, as `AuthGuard` found them; nothing deletes
  a user.
* `add[a]` is a `POST /cart` request between its two steps: `addItem` has read
  the product and has yet to open its transaction. A request refused by the
  first step changes nothing and is not kept. Several of one user can be in
  flight together.
* The foreign keys without `onDelete` are the guards `product[p].live` of
  `AddItem` and `Restricted` of `DeleteProduct`.
* `Settle(o)` is what `processPayment` does when a payment of order `o`
  succeeds, any number of times: which payments succeed is the payment model's
  matter.
* `peak` and `emptied` are history variables.

`Store` adds to `Shop`:

* The payments, at the level of `PaymentContract`: `phase[p]` is the status of a
  `Payment` row, `paysFor[p]` its order, `amount[p]` what it is to debit,
  `money[u]` a balance. Requests, messages and attempts are not repeated here,
  since `PaymentSystem` is shown to implement that contract for orders that are
  given. That what is billed is what the cart showed is shown here only.
* `Settlement` is `Shop`'s `Settle` with the debit and the payment's status in
  one step, as in the code's one transaction. What it debits is `amount[p]`, which
  `Submit` summed from the order's items when it created the payment; `OrderItem`
  rows never change, which is why the bill can be a constant of `PaymentSystem`.
* `Submit` may find a live payment that its check did not, and `Overwrite` may
  undo a success: both races of findings 1 and 2 are there, and recorded in
  `spoiled`.
* `quote` (who ordered, and what their cart showed) and `debits` (what was taken
  for each order, and from whom) are history. `MaxDebits` bounds the debits of
  one order, `MaxMoney` a balance; both bounds are guards.

`CartCache`, for one user since every key contains the user's id:

* `version` is the entry `cart-version:<user>` and `page[v][p]` the entry of a
  page under version `v`, each with the position at which it was set. A change
  writes a fresh UUID: its own name serves for it. `First` is the `'1'` that a
  missing entry reads as.
* A page is abstracted to two revisions, the number of changes committed when its
  total was read (`ReadCart`) and when its items were (`ReadItems`).
  `getOrCreatePage` is one `upsert`, but with a nested selection: Prisma does it
  with several statements, the cart's row first, at Read Committed, and a change
  may commit between them.
* Every entry is set with the one TTL of `CacheModule`, hence **entries expire
  in the order in which they were set**. This takes the clocks behind the TTLs
  to agree with the order of the writes, up to the latency of Redis.
* `reader[r]` and `writer[w]` are single requests. A writer is an addition, a
  removal or a settled payment; "answered" is its end. `ReaderFails` and
  `WriterFails` stand for calls that reject (`app.module.ts:31-37` makes Redis
  errors throw) and for the death of the process.
* `answered`, `behind`, `late` and the readers' `floor` are history. `behind`
  holds the readers in flight since before the version was last rewritten.

`CartReads` keeps of all this the number of changes committed, the latest
answered one, and for each read what had been answered when it arrived and which
total and which items it was shown. `spoiled` is `late # {}`.

`Accounts`:

* `account[u]`, `title[p]` are `User` and `Product` rows; the unique indexes are
  the guards of the inserts, since PostgreSQL lets one of two racing inserts
  through and fails the other. What the loser is told is left out (section 6).
* `token` holds the signed tokens that have not expired, each with the user it
  names and, as history, the password that was shown for it. A password is
  compared as bcrypt compares it with its hash: equal or not.
* `req[r]` is a request between two of its awaits: after the hashing of
  `register`, after the read of `login`, after `AuthGuard` and after
  `RolesGuard`. Requests that are refused with nothing but a status (an unknown
  username, no token) are not kept.
* `SetRole` and `Expire` are the world outside: no endpoint writes a role, and a
  token is rejected after `JWT_EXPIRES_IN`.
* What else a deletion needs (no cart and no order holds the product) is
  `Shop`'s matter; here it succeeds or `DeleteFails`.

`Pagination`:

* `rows` is a table ordered by identifier; identifiers are UUIDs, so a new row
  appears anywhere. `walk` is a client that follows `nextCursor`. A product
  cursor is a record, distinct from the identifier it encodes; a cart cursor is
  the identifier itself, with the same arithmetic.
* A cursor whose row is gone selects nothing: that is how Prisma treats it.

### Where a step begins and ends

Node runs one callback at a time, so everything between two `await`s is one
step. What an `await` waits for is as atomic as the server makes it:

* A **conditional `UPDATE`** (charge, credit) is atomic under its row lock.
* The **settlement transaction** is Serializable. It is modelled as one step
  that commits or aborts: every row its decision to write depends on is a row it
  writes (payment, balance) or that no one else changes (the order's items), so
  a concurrent change makes PostgreSQL abort it. The refusal for lack of balance
  reads the balance without writing it; a charge that commits in between has no
  effect on any other step of the refusal, so the refusal can be placed before
  the charge.
* `createAndQueuePayment`'s and `recordTechnicalFailure`'s transactions run at
  PostgreSQL's default **Read Committed**: each statement sees what is committed
  when it starts, so each read is a step, and the writes at the end are one.
* The transactions of `addItem`, `removeItem` and `createOrder` are
  **Serializable**, as is the settlement, and nothing else writes carts' items
  or prices: each is one step or aborts. What `addItem` read before its
  transaction is not protected by it: that is `CheckProduct`.
* `ProductService`'s changes are single statements. `getOrCreatePage`'s upsert
  writes nothing when the cart exists; what it reads takes two steps in
  `CartCache`, where it matters.

### Faults

Three kinds, each with a bound `MaxFaults[kind]` per behaviour:

* `"abort"`: the settlement transaction fails (serialization conflict, timeout,
  connection), or commits and its answer is lost. Both end in the catch block.
* `"outage"`: another call fails, before or after it took effect.
* `"crash"`: the process dies. Handlers and requests vanish, unacknowledged
  messages are requeued, everything committed, cached or published stays.

Not modelled: a connection that is lost while the handler that used it keeps
running, RabbitMQ's delivery-acknowledgement timeout, and several processes.

### Mutants

Beside some definitions stands a second operator, marked `Mutant:` in its
comment: the same definition with a plausible bug. Nothing uses it; substituting
it for the definition must break the property `PROJECT.json` pairs it with.

## 3. What the runs check

Deadlock is checked in the runs of `MCPaymentSystem` (a charge or a credit is
always possible), of `MCShop` and `MCStore` (a `GET /cart` is) and of `MCAccounts` (a
role can be given). The clients of `CartCache`
are served once each and the client of `Pagination` walks once, over finitely
many rows: these models stop when all is done, so deadlock is not checked there.

| Run | Specification and bounds | Question |
|---|---|---|
| `payment_faults` | `Spec`; 1 order, its owner and another user, 2 payments, 1 key, 2 requests, a consumer per queue, `MaxAttempts` 2, 2 aborts, 1 outage, 1 crash, balances up to 1 | Do orders ship exactly when paid, do events tell the history, is no payment forgotten, is a clean order debited once, is money conserved, does a key mean what it says, and is every step one of the contract? |
| `payment_settles` | `FairSpec`; 1 order, 2 payments, 1 key, 2 attempts, 1 fault of each kind | Is every published payment settled, unless a handler is stalled? |
| `two_live_payments` | `Spec`, no faults | finding 1 |
| `success_overwritten` | `Spec`, 2 aborts | finding 2 |
| `cart_left_stale` | `FairSpec`, 1 crash | finding 3 |
| `shop_carts` | `Shop`; 1 user, 2 products, 1 order, 2 additions in flight, prices 1-2, stocks 0 and 2, quantities 1-2 | Do totals, quantities, foreign keys and order prices stay consistent? |
| `addition_over_stock` | `Shop`; 1 product, 1 addition in flight | finding 4 |
| `store` | `Store`; 2 users, 1 product of price 0 or 1 and stock 1, 2 orders, 1 addition in flight, 2 payments, balances up to 1, 2 debits per order | Is every order charged what its owner's cart showed? |
| `cart_cache` | `CartCache`; 3 reads, 2 changes, 1 page | What can a cached page show, and does the cache implement `CartReads`? |
| `cart_page_returns` | `CartCache`; 2 reads, 1 change | finding 5 |
| `accounts` | `Accounts`; 2 users, 2 usernames, 2 emails, 2 passwords, 2 products, 2 titles, 2 requests | Who deletes? |
| `pagination` | `Pagination`; 5 identifiers, limits 1-3 | What does a walk list? |

The bounds are the smallest that let the interesting cases happen. Two requests
and two payments of one order are needed for a double payment, and two payments
are as many as two requests can create. One consumer per queue is what the
process runs; both can hold the same payment because a second request publishes
a `QUEUED` payment again. `MaxAttempts` 2 lets an attempt be retried and the
last one fail; two aborts fail one payment for good, or one attempt of each. A
crash and an outage at any step are enough for each single fault and their
combination with aborts; more crashes only requeue the same messages again. With
an order amount of 1 and balances up to 1 a settlement is refused or succeeds,
and after another charge succeeds twice. The second user of `payment_faults` owns
no order: its requests are refused, its keys and its money are its own. Symmetry
over payments, keys and requests is used in the runs that check safety only;
users, orders and consumers are told apart by `Owner`, `Amount` and `QueueOf`.

In `Shop` two additions in flight are what it takes for one to be checked
against a stock that the other, or an update, makes stale; the second product
gives totals of several items, and stock 0 an addition that must fail. One user
is enough for `shop_carts`: users share only products, and a second user does to
a product what the order already does. In `Store` two users let money be taken from
the wrong one, two orders let a cart be ordered twice at two prices, and two
payments race for one order or pay both; a price of 0 or 1 tells every quote
from every other. In `CartCache` a stale page takes a
reader that stores it and one that finds it, and the third can come between;
two changes can finish in either order. In `Accounts` one request holds a
token while the other, or the database, changes what it means; two accounts and
passwords tell whose token deletes. Five rows and limits up to three give
walks of one to five pages, full and empty last pages included.

### Properties

* `ShippedIffPaid`: an order is `SHIPPING` exactly when one of its payments has
  a SUCCESS event.
* `PublishedIsCarried`: a published `QUEUED` payment has a message or a handler
  that owes it one.
* `LogMatchesRow`: events and row agree, unless a stale failure overwrote it.
* `QueuedHasAttemptLeft`: hence the `maxAttempts` branch of `processPayment`
  (lines 142-151) is never taken.
* `CleanOrderDebitedOnce`: the two races are the only way to debit twice.
* `MoneyConserved`: balance plus SUCCESS events equals what was paid in.
* `KeyMeansPublished`: a client that gets 409 never waits for a payment nobody
  will process.
* `PublishedSettles` (liveness).
* `ContractKept` (refinement): through retries, duplicate messages, an outage and
  a crash, every step of the payment code is a step of `PaymentContract`. The
  contract admits the two races of findings 1 and 2 and says what they can do: an
  order they have not hit has one live payment, and success and failure are
  final for it; even on one they have hit, the debit, the shipping and the
  success are one step and of the order's amount.
* `CartPriceIsTotal`: the stored total is the items', but for a cart that a
  settlement emptied. The settlement deletes the items and leaves `Cart.price`
  (`payment.service.ts:177`), so the empty cart shows the paid total until its
  next change, whatever `README.md:215` says of recalculation.
* `CartWithinPeak`: additions checked one by one cannot together exceed what the
  product ever had. That they do not exceed what it has by then is finding 4.
* `ItemsHaveProducts`, `OrdersCostTheCartPrice`.
* `ChargedAsQuoted`: every debit of an order, its second one included, is what
  the cart showed its owner when it was placed, and an order that no race has hit
  is charged once exactly when it ships.
* `PagesShowTheirVersion`: a read that overlaps a change never stores an old
  total, or old items, under the new version.
* `StaleOnlyBehindLateStore`: finding 5 is the only way to a stale read. It
  rests on expiry in order: a version outlives every page set before it.
* `ReadsKept` (refinement): a read shows a total that some change left and items
  that the same or a later change left, and, until the cache is spoiled by
  finding 5, no answered change is missing from either. Total and items need not
  belong together: a change that commits between the two statements of a read
  puts the old total beside the new items, and the page is cached so, under a
  version that the change is about to replace.
* `DeletedByPrivileged`: a role taken away before a request arrives is worth
  nothing to it, however old its token is; a role taken away while the request
  is between guard and handler may still serve it.
* `ListedInOrder`, `StableRowsListed`: a walk lists no row twice, and every row
  that stayed, unless the row its cursor names was deleted; it then ends early.

### Fairness

`FairSpec` assumes weak fairness of every handler and of every request: the
broker delivers to a free consumer, and a callback whose promise is settled is
run, since nothing in the process blocks the event loop. No fairness is assumed
of clients, of key expiry or of faults. A handler's alternatives (commit, abort,
lost answer) are one fair action: that it does not abort for ever comes from
`MaxFaults`, not from fairness. `PublishedSettles` has the escape `Stalled`
because the code really has it: an error that escapes the handler leaves its
consumer with an unacknowledged message, and nothing in the process ends that.

### Findings

Each is a run that expects a violation, of what the repository's own documents
say.

1. `two_live_payments`: `README.md:48` says "the service prevents creating
   another non-failed payment for the same order". Two concurrent requests both
   find none and both insert one, as the transaction is Read Committed and no
   constraint backs it; both are settled, and the order is debited twice.
   (`README.md:368` acknowledges a related race on the idempotency key.)
2. `success_overwritten`: `README.md:20` promises Serializable transactions for
   sensitive payment operations. `recordTechnicalFailure` is Read Committed and
   updates by id what it read before: it can turn a `SUCCESSED` payment back
   into `QUEUED`, whose retry then debits again.
3. `cart_left_stale`: `README.md:270` says that after the commit the user's cart
   cache is invalidated. A crash or Redis error between the two leaves it as it
   was, for the redelivered message is then ignored. The stale pages remain
   until their own TTL ends.
4. `addition_over_stock`: `README.md:215` says "The service rejects missing
   products and quantities above available stock." `addItem` reads the stock
   before it opens its transaction and looks at it no more: a product update in
   between leaves more in the cart than there is. Nothing later checks the stock
   again, neither the order nor its payment.
5. `cart_page_returns`: `README.md:215` says cart changes "invalidate cached cart
   pages". A page of version `'1'` that a slow read stores after the change wrote
   its version outlives that version; when it has expired, the next read is at
   `'1'` again and finds the page.

## 4. What is proved

For every value of the constants that satisfies the assumptions of
`PaymentStore` (`None` is no user, order, payment or key; `Owner` and `Amount`
are total; limits are naturals, `MaxAttempts` and amounts moved positive; there
are finitely many payments, as many as one likes):

| Theorem | Statement |
|---|---|
| `PaymentProofs!Coherence` | `Spec => []IInv` |
| `PaymentProofs!TypeCorrect` | `Spec => []TypeOK` |
| `PaymentProofs!KeysArePublished` | `Spec => []KeyMeansPublished` |
| `PaymentProofs!QueuedHasAttempts` | `Spec => []QueuedHasAttemptLeft` |
| `SettlementProofs!LogTellsHistory` | `Spec => []LogMatchesRow` |
| `SettlementProofs!ShippedWhenPaid` | `Spec => []ShippedIffPaid` |
| `SettlementProofs!CleanDebitedOnce` | `Spec => []CleanOrderDebitedOnce` |
| `SettlementProofs!NothingForgotten` | `Spec => []PublishedIsCarried` |
| `ContractProofs!Refinement` | `Spec => ContractKept` |
| `ContractProofs!MoneyIsConserved` | `Spec => []MoneyConserved` |

**The inductive invariant.** `TypeOK` alone is not inductive: an update of
`payment[p]` by a handler keeps the types only if `p` is a payment, which
needs that a busy handler holds one, which needs that messages name published
payments, which needs that a request that publishes has a payment that exists.
`IInv` adds these links as `Coherent`: rows have orders, a `QUEUED` row has an
attempt left, published payments have rows, messages and busy handlers are about
published payments (and a failure about to be recorded was read with an attempt
left), requests know a payment of the order they name, and keys mean published
payments. Each conjunct is preserved by a lemma of its own.

**Settlement.** On top of `IInv`, `SettlementInv` says that only published
payments were overwritten, that rows never created are blank, that the events
match the row, that orders ship exactly when paid and that a clean order has at
most one live payment. `FiveEffects` reduces the many actions to five effects on
rows, events and orders (none; a creation; a refusal; a completion; a recorded
failure), and each conjunct is then proved over the five.
`CleanOrderDebitedOnce` follows from the last three: on a clean order no row was
overwritten, so each SUCCESS event belongs to a `SUCCESSED`, hence live, row,
and there is one. `PublishedIsCarried` is proved from what each step does to the
queues and the handlers.

**Refinement.** A lemma per effect maps it to the action of `PaymentContract` or
to a stutter, under `IInv` and `SettlementInv`: a creation is a `Submit` that
spoils the order if it already has a live payment (`raced` says so), a recorded
failure is a `Fail`, a stutter, or, where the row has changed since it was read,
an `Overwrite`.

**Money.** `MoneySteps` looks at the same effects from the money's side: a step
leaves balances and `SUCCESS` events alone, or debits one payer the price of one
payment that gets one more `SUCCESS` event, or moves one balance and what its user
paid in by the same amount.
`MoneyIsConserved` adds the step from there to the sum: `Spent(u)` is the sum of
`Debits(u)` over the payments (`SpentIsSum`), a payment's share of it changes with
its `SUCCESS` events only (`DebitStays`, which needs that rows keep their order
and that a payment without a row has no event), and a sum whose terms change at
one point changes by as much (`SumOnePoint`).

**Sums, without induction.** The community modules define a sum by recursion on
the set, and the library's induction theorems take the induction hypothesis as an
operator, which the provers cannot instantiate. `SumProofs` argues from a least
counterexample instead: if a statement fails for some subset of a finite set, the
set of the subsets for which it fails has a minimal member (`LeastSet`, from the
well-founded order of inclusion), and taking one element out of that contradicts
its minimality. What is summed is a function, not an operator. So it is shown that
the recursion has a solution, that the solution is the only one, and that it does
not depend on the order of the elements; that two sums whose terms agree are
equal; and that a sum of naturals is a natural, and 0 only if all its terms are.
`SpentIsSum` and `TotalIsSum` connect `Spent` and `Total` to it.

For every value of the constants of `Shop` (prices and stocks are naturals,
requested quantities positive; `NoUser` and `NoProduct` are no user and no
product; there are finitely many products), of `Store` (the two bounds are
naturals), of `CartCache` (`First` is no change's version), of `Accounts` (`None`
is no user, name or title) and of `Pagination` (identifiers and page sizes are
positive; there are finitely many identifiers). A table of a database is finite;
no theorem depends on how large:

| Theorem | Statement |
|---|---|
| `ShopProofs!TypeCorrect` | `Spec => []TypeOK` |
| `ShopProofs!StoredTotals` | `Spec => []CartPriceIsTotal` |
| `ShopProofs!WithinPeak` | `Spec => []CartWithinPeak` |
| `ShopProofs!ProductsStay` | `Spec => []ItemsHaveProducts` |
| `ShopProofs!OrdersCost` | `Spec => OrdersCostTheCartPrice` |
| `ShopProofs!ShopInside` | `StoreSpec => Spec` |
| `ShopProofs!AlwaysAsQuoted` | `StoreSpec => []ChargedAsQuoted` |
| `CartCacheProofs!TypeCorrect` | `Spec => []TypeOK` |
| `CartCacheProofs!PagesCurrent` | `Spec => []PagesShowTheirVersion` |
| `CartCacheProofs!StaleNeedsLateStore` | `Spec => []StaleOnlyBehindLateStore` |
| `CartCacheProofs!ReadsRefined` | `Spec => ReadsKept` |
| `AccountProofs!TypeCorrect` | `Spec => []TypeOK` |
| `AccountProofs!DeletionsGuarded` | `Spec => DeletedByPrivileged` |
| `PaginationProofs!TypeCorrect` | `Spec => []TypeOK` |
| `PaginationProofs!InOrder` | `Spec => []ListedInOrder` |
| `PaginationProofs!NothingMissed` | `Spec => []StableRowsListed` |

**Carts.** `CartWithinPeak` is not inductive: an addition that fits the stock its
request was told is within the product's peak only because what a request was
told is (`StockWithinPeak`). That stored totals are naturals needs that a sum of
naturals is one (`TotalTypes`), and `CartPriceIsTotal` that items are in carts
that exist (`ItemsNeedCart`): the settlement looks for the cart first, and
without this it might leave items behind. `OrdersCostTheCartPrice` then rests on
`CartPriceIsTotal`, for an order is only created from a cart that has items.
`ItemsHaveProducts` needs that orders not yet created have no items, for the
deletion of a product looks at all of them.

**Shop and payments.** Every step of `Store` is a step of `Shop` or leaves its
variables alone (`ShopInside`), so `ShopProofs!Coherence` holds of it; a quote is
the total of its order's items by `CartPriceIsTotal`, and stays so since nothing
writes an order's items again. `StoreInv` adds that, that a payment's amount is
its order's quote, that an order without a row has no payment, that payments name
orders, and how many debits a clean order has.

**The cart cache.** The invariant is about totals: items are read after the total
they are shown with, so what a total does not miss they do not miss either
(`ItemsFollowTotals`, from an invariant of its own, `Within`, which also says that
neither is ahead of the committed changes). `TotalsShowTheirVersion` is inductive
together with the same statement of what readers are about to store
(`StoresShowTheirVersion`) and with `VersionsAreWritten`: nobody knows a change's
version before the change wrote it, so a version that is written finds nothing
stored under it. `StaleOnlyBehindLateStore` needs `Fresh`: under the current
version nothing older than the last answered change is stored or about to be
(`CurrentIsFresh`), nor under `'1'` by a reader that is not behind, since the
version was last written (`FirstIsFresh`); when the version expires, everything
set before it has (the step that uses expiry in order), so that this then holds of
all of `'1'`. Hence what a reader can find under the version it read is no older
than what was answered before it came (`LookupsFindFresh`). All of `Fresh` is
conditional on `late = {}`. `ReadsRefined` uses it for the step in which a read is
shown a page; `EndMaps` maps the steps in which a request ends, `OpenMaps` those
in which it goes on.

**Accounts.** The invariant carries what each guard has established across the
awaits that follow it (`Guarded`), that tokens and requests name registered
accounts (`NamesAccounts`), so that an insert disturbs none of them, and that a
token was signed for the password of its account (`TokensOpened`).

**Pagination.** `Sorted` chooses an increasing enumeration; that there is one for
every finite set of numbers is again shown by a least counterexample, out of which
the least number is taken (`AllSortable`), and that it lists every row by counting
(`SortedLists`). So a query lists exactly the rows ahead of its cursor
(`FromCursorLists`), and a page is the beginning of them, with a next cursor if
and only if there are more (`PageIsPrefix`, where `limit + 1` matters). The
invariant of the walk has three more parts: the cursor is the last row listed
(`CursorIsLast`, for the order), it names a row of the table as long as none that
it named was deleted (`CursorKept`), and a row that stayed has been listed or is
beyond the cursor (`NothingSkipped`).

**Only model-checked.** `PublishedSettles`: liveness under fairness, and the
`ENABLED` that fairness stands for, are beyond the prover. The properties of the
runs that expect a violation are false, and have no theorem. Every other property
of every run is stated by a theorem above.

## 5. Plan

Done: the payment system, the core of the program's own logic; products, carts
and orders; shop and payments together; the cart cache; accounts and guards;
pagination; abstract specifications of payments and of cached reads with their
refinements.

What could be added:

1. A connection lost under a running handler: the message is redelivered while
   its first handler still runs. `PaymentWorker` has one handler per consumer; a
   second request already brings two handlers to one payment, so the interleaving
   of their database steps is covered, and that of their acknowledgements is not.
2. Several processes: more consumers and an own crash for each.

## 6. Not modelled

* **Generated code.** Of the 17,786 lines counted under `src/`, 15,867 are the
  Prisma client that `prisma generate` writes into `src/src/generated/prisma`:
  types and delegates, the same for every schema. The program's own TypeScript is
  1,919 lines; the definitions of the models stand for about 800 of them. The
  others are imports, module and controller declarations, DTOs and entities, the
  selection and shaping of what a response contains, and the reading of the
  configuration. What a generated call does is modelled at the line that makes
  it.
* Password hashing, JWT signatures, DTO validation: library code. The models take
  validated inputs.
* The error filters: `toHttpError` and `statusFor` map an error to a status and a
  message and read no state. Which name a conflict is said to be about depends on
  the shape of the driver's error: where it names no field, or an index the filter
  does not recognise (`prisma-exception.filter.ts:92-106`), a conflict of usernames
  or emails is answered "A product with this title already exists". The repository
  does not show which shape its driver produces. Likewise a deletion that a cart or
  an order restricts is answered 404 "User not found", as is every foreign-key
  violation (`prisma-exception.filter.ts:61`).
* Decimal arithmetic: amounts are naturals of the smallest unit. Prices have two
  decimals in the schema, and sums and comparisons of such values are exact. A
  total beyond `Decimal(18,2)` makes the transaction fail, which `AddFails`
  covers.
* The contents of cached pages other than the cart's own rows: a page also shows
  the products' titles and prices, which no product update invalidates.
* Wording of errors and events, logging, Swagger.
