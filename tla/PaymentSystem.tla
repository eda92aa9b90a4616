--------------------------- MODULE PaymentSystem ---------------------------
(***************************************************************************)
(* Checkout requests, message handlers and wallet calls over the shared    *)
(* store, the process that may die under all of them, and what the whole   *)
(* is expected to guarantee.                                               *)
(***************************************************************************)
EXTENDS Checkout, PaymentWorker, Wallet, FiniteSetsExt

\* Handlers in a message and requests past their arrival.
Busy(h) == handler[h].pc # "idle"
InFlight(r) == request[r].pc \in {"lookup", "order", "existing", "create",
                                  "emit", "store"}

\* The one Node process dies and is started again.  Nothing of a handler or
\* of a request survives; what they committed, cached and published does.
Crash ==
    /\ Fault("crash")
    /\ handler' = [h \in Handlers |->
          IF Busy(h) THEN [pc |-> "dropped", job |-> Job(h), seen |-> 0]
          ELSE handler[h]]
    /\ request' = [r \in Requests |->
          IF InFlight(r) THEN [request[r] EXCEPT !.pc = "failed"]
          ELSE request[r]]
    /\ UNCHANGED << orderStatus, payment, event, balance, cartStale, idem, queue,
                    published, clobbered, raced, funds >>

Next ==
    \/ \E r \in Requests : Pay(r) \/ RequestStep(r)
    \/ \E u \in Users, k \in Keys : ExpireKey(u, k)
    \/ \E h \in Handlers : HandlerStep(h)
    \/ \E u \in Users, a \in MoveAmounts : BalanceCharge(u, a) \/ Credit(u, a)
    \/ Crash

Spec == Init /\ [][Next]_vars

\* The broker delivers to a free slot, and a handler or request that can take
\* a step takes one: nothing in the process blocks the event loop.  No client
\* owes a request, a charge or a credit, and no fault has to happen.
Fairness ==
    /\ \A h \in Handlers : WF_vars(HandlerStep(h))
    /\ \A r \in Requests : WF_vars(RequestStep(r))

FairSpec == Spec /\ Fairness

----------------------------------------------------------------------------
\* Rows, keys, messages, handlers and requests are what the schema and the
\* clients allow; a balance stays within 0 and MAX_ALLOWED_BALANCE.
TypeOK ==
    /\ orderStatus \in [Orders -> OrderStatus]
    /\ payment \in [Payments -> PaymentRow]
    /\ event \in [Payments -> [PaymentEventStatus -> Nat]]
    /\ balance \in [Users -> 0 .. MaxBalance]
    /\ cartStale \subseteq Users
    /\ idem \in [Users -> [Keys -> Payments \cup {None}]]
    /\ queue \in [Queues -> [Payments -> Nat]]
    /\ handler \in [Handlers -> HandlerState]
    /\ request \in [Requests -> RequestState]
    /\ faults \in [FaultKinds -> Nat]
    /\ published \subseteq Payments
    /\ clobbered \subseteq Payments
    /\ raced \subseteq Orders
    /\ funds \in [Users -> Int]

----------------------------------------------------------------------------
(* Safety. *)

Sum(f(_), S) == MapThenSumSet(f, S)

\* What user u has been debited, according to the SUCCESS events of the
\* payments of u's orders.
Spent(u) ==
    Sum(LAMBDA p : event[p]["SUCCESS"] * Price(p),
        {p \in Payments : Exists(p) /\ Payer(p) = u})

\* Every unit charged is in the balance, credited out, or accounted for by a
\* SUCCESS event of an order's amount: no debit without its event and no event
\* without its debit, whatever retries, redeliveries and crashes happen.
MoneyConserved == \A u \in Users : balance[u] + Spent(u) = funds[u]

\* An order is SHIPPING exactly when one of its payments has a SUCCESS event:
\* nothing ships unpaid and nothing paid is left unshipped, even when the
\* payment's own row is later overwritten.
ShippedIffPaid ==
    \A o \in Orders :
       orderStatus[o] = "SHIPPING" <=>
          \E p \in Payments : payment[p].order = o /\ event[p]["SUCCESS"] > 0

\* The steps at which a handler still owes its payment a settlement, a retry
\* message or a redelivery.
Holds(h, p) ==
    /\ Job(h) = p
    /\ handler[h].pc \in {"process", "record", "write", "emit", "stalled",
                          "dropped"}

Carried(p) ==
    \/ \E q \in Queues : queue[q][p] > 0
    \/ \E h \in Handlers : Holds(h, p)

\* A payment that reached the process queue and is still QUEUED is never
\* forgotten: a message waits for it or a handler holds one.  A handler
\* acknowledges only after the row was settled or its retry was published.
PublishedIsCarried == \A p \in published : Queued(p) => Carried(p)

\* A cached idempotency key names a payment of an order of that user whose
\* message has been published: a client told "key already used" is never
\* waiting for a payment nobody will process.
KeyMeansPublished ==
    \A u \in Users, k \in Keys :
       idem[u][k] # None =>
          idem[u][k] \in published /\ Payer(idem[u][k]) = u

\* For a payment that recordTechnicalFailure never overwrote, the events tell
\* the row's history: one CREATED, a SUCCESS or FAILED event exactly when that
\* is its status, and one attempt per RETRYING, FAILED or SUCCESS event.
LogMatches(p) ==
    LET n(s) == event[p][s] IN
    /\ n("CREATED") = IF Exists(p) THEN 1 ELSE 0
    /\ n("SUCCESS") = IF payment[p].status = "SUCCESSED" THEN 1 ELSE 0
    /\ n("FAILED") = IF payment[p].status = "FAILED" THEN 1 ELSE 0
    /\ payment[p].attempts = n("RETRYING") + n("FAILED") + n("SUCCESS")

LogMatchesRow == \A p \in Payments \ clobbered : LogMatches(p)

\* A payment still QUEUED has an attempt left, so the maxAttempts branch of
\* the settlement is never taken: recordTechnicalFailure has failed the row
\* before it could be.
QueuedHasAttemptLeft ==
    \A p \in Payments : Queued(p) => payment[p].attempts < MaxAttempts

\* The order's money is taken once: no payment has two SUCCESS events and no
\* two payments of the order have one.
DebitedOnce(o) ==
    \A p1, p2 \in {p \in Payments : payment[p].order = o} :
       /\ event[p1]["SUCCESS"] <= 1
       /\ event[p1]["SUCCESS"] > 0 /\ event[p2]["SUCCESS"] > 0 => p1 = p2

Clean(o) ==
    /\ o \notin raced
    /\ \A p \in clobbered : payment[p].order # o

\* The two races are the only ways to charge an order twice: one without
\* concurrent creations and without an overwritten failure is debited once,
\* through every retry, duplicate message and crash.
CleanOrderDebitedOnce == \A o \in Orders : Clean(o) => DebitedOnce(o)

----------------------------------------------------------------------------
(* Liveness. *)

Stalled == \E h \in Handlers : At(h, "stalled")

\* A published payment is settled in the end, unless a handler sits on an
\* unacknowledged message: with one message per consumer, everything behind
\* that message waits until the process is restarted.
PublishedSettles ==
    \A p \in Payments :
       (p \in published /\ Queued(p)) ~> (~Queued(p) \/ Stalled)

----------------------------------------------------------------------------
(* The contract. *)

Phase(p) == CASE payment[p].status = "NONE" -> "none"
              [] payment[p].status = "QUEUED" -> "queued"
              [] payment[p].status = "SUCCESSED" -> "succeeded"
              [] payment[p].status = "FAILED" -> "failed"

Contract == INSTANCE PaymentContract WITH
    bill <- [o \in Orders |-> [user |-> Owner[o], amount |-> Amount[o]]],
    phase <- [p \in Payments |-> Phase(p)],
    paysFor <- [p \in Payments |-> payment[p].order],
    shipped <- {o \in Orders : orderStatus[o] = "SHIPPING"},
    money <- balance,
    spoiled <- {o \in Orders : ~Clean(o)}

\* The payment code implements the contract: outside the two races an order has
\* one live payment at a time, success and failure are final, and the debit,
\* the shipping and the success are one step, through every retry, duplicate
\* message, outage and crash.
ContractKept == Contract!Spec

----------------------------------------------------------------------------
(* What the documentation says and the code does not keep. *)

\* "the service prevents creating another non-failed payment for the same
\* order": at most one payment of an order is QUEUED or SUCCESSED.
OneLivePaymentPerOrder ==
    \A o \in Orders : \A p1, p2 \in LivePayments(o) : p1 = p2

\* "Serializable Prisma transactions for sensitive ... payment operations":
\* a payment that succeeded stays so, whatever runs beside it.
SuccessIsFinal ==
    [][\A p \in Payments : payment[p].status = "SUCCESSED" =>
          payment'[p].status = "SUCCESSED"]_vars

\* "After commit, the user's cart cache is invalidated."
SettledCartInvalidated ==
    \A u \in Users : u \in cartStale ~> u \notin cartStale

============================================================================
