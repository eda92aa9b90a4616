------------------------------ MODULE Checkout ------------------------------
(***************************************************************************)
(* POST /order/:orderId/pay, that is PaymentService.createAndQueuePayment. *)
(*                                                                         *)
(* The request awaits Redis, PostgreSQL, RabbitMQ and Redis again, and     *)
(* anything may happen at each await, so every await ends a step.  The     *)
(* transaction runs at PostgreSQL's default level, Read Committed: each of *)
(* its statements sees what is committed when it starts, so each statement *)
(* is a step too.                                                          *)
(***************************************************************************)
EXTENDS PaymentStore

\* What a checkout never writes.
checkoutFrame == << orderStatus, balance, cartStale, handler, clobbered, funds >>

Goto(r, pc) == request' = [request EXCEPT ![r] = [request[r] EXCEPT !.pc = pc]]

GotoWith(r, pc, p) ==
    request' = [request EXCEPT ![r] = [request[r] EXCEPT !.pc = pc, !.pay = p]]

\* The controller has parsed the order id, the key and the bearer's user id.
\* Any user may name any order.
Pay(r) ==
    /\ request[r].pc = "new"
    /\ \E u \in Users, o \in Orders, k \in Keys :
          request' = [request EXCEPT ![r] =
             [pc |-> "lookup", user |-> u, order |-> o, key |-> k, pay |-> None]]
    /\ UNCHANGED << payment, event, idem, queue, published, raced >>
    /\ NoFault
    /\ UNCHANGED checkoutFrame

\* A key that is in the cache is refused with 409.
KeyUsed(r) == idem[request[r].user][request[r].key] # None

LookupKey(r) ==
    /\ request[r].pc = "lookup"
    /\ Goto(r, IF KeyUsed(r) THEN "conflict" ELSE "order")
    /\ UNCHANGED << payment, event, idem, queue, published, raced >>
    /\ NoFault
    /\ UNCHANGED checkoutFrame

\* The order is looked up by id and owner, and must await payment.
Payable(r) ==
    /\ Owner[request[r].order] = request[r].user
    /\ orderStatus[request[r].order] = "PAYMENT_PENDING"

FindOrder(r) ==
    /\ request[r].pc = "order"
    /\ Goto(r, IF Payable(r) THEN "existing" ELSE "rejected")
    /\ UNCHANGED << payment, event, idem, queue, published, raced >>
    /\ NoFault
    /\ UNCHANGED checkoutFrame

\* Mutant: an existing payment is taken to have been published already.
NeverEmitAgain(p) == "store"

\* A payment that has not failed is returned instead of a new one.  Only a
\* QUEUED one is published again.
AfterExisting(p) == IF Queued(p) THEN "emit" ELSE "store"

FindExisting(r) ==
    /\ request[r].pc = "existing"
    /\ \/ /\ LivePayments(request[r].order) = {}
          /\ Goto(r, "create")
       \/ \E p \in LivePayments(request[r].order) :
             GotoWith(r, AfterExisting(p), p)
    /\ UNCHANGED << payment, event, idem, queue, published, raced >>
    /\ NoFault
    /\ UNCHANGED checkoutFrame

\* The insert commits.  Nothing in the schema stops a second live payment of
\* the same order: the check was the earlier read.
CreatePayment(r) ==
    /\ request[r].pc = "create"
    /\ \E p \in Payments :
          /\ ~Exists(p)
          /\ payment' = [payment EXCEPT ![p] =
                [status |-> "QUEUED", order |-> request[r].order,
                 attempts |-> 0]]
          /\ LogEvents(p, {"CREATED"})
          /\ \/ GotoWith(r, "emit", p) /\ NoFault
             \/ Goto(r, "failed") /\ Fault("outage")  \* the answer is lost
    /\ raced' = IF LivePayments(request[r].order) = {} THEN raced
                ELSE raced \cup {request[r].order}
    /\ UNCHANGED << idem, queue, published >>
    /\ UNCHANGED checkoutFrame

\* The message goes to the process queue.  An outage may hit before the
\* broker has it or after: the request fails either way.
EmitProcess(r) ==
    /\ request[r].pc = "emit"
    /\ \/ /\ Publish("process", request[r].pay)
          /\ published' = published \cup {request[r].pay}
          /\ \/ Goto(r, "store") /\ NoFault
             \/ Goto(r, "failed") /\ Fault("outage")
       \/ /\ Goto(r, "failed") /\ Fault("outage")
          /\ UNCHANGED << queue, published >>
    /\ UNCHANGED << payment, event, idem, raced >>
    /\ UNCHANGED checkoutFrame

\* The key is cached last, with the payment's id.
CacheKey(r) ==
    idem' = [idem EXCEPT ![request[r].user] =
               [idem[request[r].user] EXCEPT ![request[r].key] = request[r].pay]]

StoreKey(r) ==
    /\ request[r].pc = "store"
    /\ \/ CacheKey(r) /\ Goto(r, "done") /\ NoFault
       \/ CacheKey(r) /\ Goto(r, "failed") /\ Fault("outage")
       \/ UNCHANGED idem /\ Goto(r, "failed") /\ Fault("outage")
    /\ UNCHANGED << payment, event, queue, published, raced >>
    /\ UNCHANGED checkoutFrame

\* Redis or PostgreSQL does not answer before anything was written: 500.
RequestFails(r) ==
    /\ request[r].pc \in {"lookup", "order", "existing", "create"}
    /\ Fault("outage")
    /\ Goto(r, "failed")
    /\ UNCHANGED << payment, event, idem, queue, published, raced >>
    /\ UNCHANGED checkoutFrame

\* PAYMENT_IDEMPOTENCY_TTL_MS passes for one cached key.
ExpireKey(u, k) ==
    /\ idem[u][k] # None
    /\ idem' = [idem EXCEPT ![u] = [idem[u] EXCEPT ![k] = None]]
    /\ UNCHANGED << payment, event, queue, request, published, raced >>
    /\ NoFault
    /\ UNCHANGED checkoutFrame

RequestStep(r) ==
    \/ LookupKey(r) \/ FindOrder(r) \/ FindExisting(r) \/ CreatePayment(r)
    \/ EmitProcess(r) \/ StoreKey(r) \/ RequestFails(r)

============================================================================
