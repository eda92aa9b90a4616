---------------------------- MODULE PaymentStore ----------------------------
(***************************************************************************)
(* The state that the payment code shares, and the helpers every other     *)
(* payment module writes it with: the PostgreSQL rows (orders, payments,   *)
(* payment events, balances, cart freshness), the idempotency keys in      *)
(* Redis, the two RabbitMQ queues, the running message handlers and HTTP   *)
(* requests.                                                               *)
(*                                                                         *)
(* A payment's row is written by a handler of the process queue, by a      *)
(* handler of the retry queue and by the checkout request, and nothing but *)
(* the database orders those writes.                                       *)
(***************************************************************************)
EXTENDS Integers, FiniteSets

CONSTANTS
    Users,
    Orders,
    Payments,       \* the identifiers the database may hand out
    Keys,           \* idempotency keys a client may send
    Requests,       \* POST /order/:id/pay requests, each served once
    Handlers,       \* RabbitMQ consumer slots (one message each: prefetchCount 1)
    None,
    Owner,          \* Owner[o]: the user that placed order o
    Amount,         \* Amount[o]: sum of price * quantity over o's items
    QueueOf,        \* QueueOf[h]: the queue that handler h consumes
    MaxAttempts,    \* Payment.maxAttempts, 4 by default in the schema
    MaxBalance,     \* MAX_ALLOWED_BALANCE
    MoveAmounts,    \* amounts accepted by /payment/charge and /payment/credit
    MaxFaults       \* how many faults of each kind a behaviour may contain

\* "abort": a settlement transaction fails (serialization conflict, timeout,
\* lost commit answer).  "outage": Redis, RabbitMQ or PostgreSQL does not
\* answer some other call.  "crash": the Node process dies.
FaultKinds == {"abort", "outage", "crash"}

Queues == {"process", "retry"}

ASSUME NoneAssumption ==
    /\ None \notin Users /\ None \notin Orders /\ None \notin Payments
    /\ None \notin Keys
ASSUME OrderAssumption ==
    /\ Owner \in [Orders -> Users]
    /\ Amount \in [Orders -> Nat]
\* A table holds finitely many rows, whatever identifiers they have.
ASSUME FiniteAssumption == IsFiniteSet(Payments)
ASSUME QueueAssumption == QueueOf \in [Handlers -> Queues]
ASSUME LimitAssumption ==
    /\ MaxAttempts \in Nat \ {0}
    /\ MaxBalance \in Nat
    /\ MoveAmounts \subseteq Nat \ {0}
    /\ MaxFaults \in [FaultKinds -> Nat]

VARIABLES
    orderStatus,    \* Order.status
    payment,        \* Payment rows; status "NONE" is a row not created yet
    event,          \* PaymentEvent rows, counted by payment and status
    balance,        \* User.balance
    cartStale,      \* users whose cart rows a settlement emptied and whose
                    \* cart-version entry has not been rewritten since
    idem,           \* payment-idempotency:<user>:<key> -> payment id
    queue,          \* messages waiting, counted by queue and payment
    handler,        \* the message handlers
    request,        \* the checkout requests
    faults,         \* faults so far, by kind
    \* History variables: no action reads them.
    published,      \* payments whose message has entered the process queue
    clobbered,      \* payments whose row recordTechnicalFailure overwrote
                    \* after another transaction had changed it
    raced,          \* orders given a payment while another one was live
    funds           \* what each user paid in, less what was credited out

vars == << orderStatus, payment, event, balance, cartStale, idem, queue,
           handler, request, faults, published, clobbered, raced, funds >>

PaymentStatus == {"QUEUED", "FAILED", "SUCCESSED"}
PaymentEventStatus == {"CREATED", "PENDING", "FAILED", "SUCCESS", "RETRYING"}
OrderStatus == {"PAYMENT_PENDING", "SHIPPING"}

PaymentRow == [status : PaymentStatus \cup {"NONE"},
               order : Orders \cup {None},
               attempts : 0 .. MaxAttempts]

HandlerPc == {"idle", "process", "record", "write", "emit", "invalidate",
              "ack", "stalled", "dropped"}
HandlerState == [pc : HandlerPc,
                 job : Payments \cup {None},
                 seen : 0 .. MaxAttempts]

RequestPc == {"new", "lookup", "order", "existing", "create", "emit", "store",
              "done", "conflict", "rejected", "failed"}
RequestState == [pc : RequestPc,
                 user : Users \cup {None},
                 order : Orders \cup {None},
                 key : Keys \cup {None},
                 pay : Payments \cup {None}]

NoRow == [status |-> "NONE", order |-> None, attempts |-> 0]
Idle == [pc |-> "idle", job |-> None, seen |-> 0]
NewRequest == [pc |-> "new", user |-> None, order |-> None, key |-> None,
               pay |-> None]

Init ==
    /\ orderStatus = [o \in Orders |-> "PAYMENT_PENDING"]
    /\ payment = [p \in Payments |-> NoRow]
    /\ event = [p \in Payments |-> [s \in PaymentEventStatus |-> 0]]
    /\ balance = [u \in Users |-> 0]
    /\ cartStale = {}
    /\ idem = [u \in Users |-> [k \in Keys |-> None]]
    /\ queue = [q \in Queues |-> [p \in Payments |-> 0]]
    /\ handler = [h \in Handlers |-> Idle]
    /\ request = [r \in Requests |-> NewRequest]
    /\ faults = [f \in FaultKinds |-> 0]
    /\ published = {}
    /\ clobbered = {}
    /\ raced = {}
    /\ funds = [u \in Users |-> 0]

----------------------------------------------------------------------------
(* Reading the rows. *)

Exists(p) == payment[p].status # "NONE"
Queued(p) == payment[p].status = "QUEUED"

\* A payment that has not failed: what `status: { not: 'FAILED' }` selects.
Live(p) == Exists(p) /\ payment[p].status # "FAILED"

LivePayments(o) == {p \in Payments : Live(p) /\ payment[p].order = o}

Payer(p) == Owner[payment[p].order]
Price(p) == Amount[payment[p].order]

----------------------------------------------------------------------------
(* Writing them. *)

\* One PaymentEvent row of each status in S is added for payment p.
LogEvents(p, S) ==
    event' = [event EXCEPT ![p] =
                [s \in PaymentEventStatus |->
                    IF s \in S THEN event[p][s] + 1 ELSE event[p][s]]]

SetStatus(p, st, n) ==
    payment' = [payment EXCEPT ![p] =
                  [status |-> st, order |-> payment[p].order, attempts |-> n]]

\* emit() of the RabbitMQ clients: one more persistent message in a queue.
Publish(q, p) ==
    queue' = [queue EXCEPT ![q] = [queue[q] EXCEPT ![p] = queue[q][p] + 1]]

Fault(k) ==
    /\ faults[k] < MaxFaults[k]
    /\ faults' = [faults EXCEPT ![k] = faults[k] + 1]

\* Calls that answer: no fault is spent.
NoFault == UNCHANGED faults

============================================================================
