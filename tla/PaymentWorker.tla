--------------------------- MODULE PaymentWorker ---------------------------
(***************************************************************************)
(* The RabbitMQ consumers: PaymentProcessor.handle, and the service calls  *)
(* it makes, processPayment and recordTechnicalFailure.                    *)
(*                                                                         *)
(* The settlement transaction is Serializable, and every row it decides on *)
(* it also writes, or reads without writing anything: it is one step, that *)
(* either commits or aborts.  recordTechnicalFailure runs at the default   *)
(* level, Read Committed: it reads the row in one step and writes what it  *)
(* computed from it in another.                                            *)
(***************************************************************************)
EXTENDS PaymentStore

\* What a handler never writes.
workerFrame == << idem, request, raced, funds >>

At(h, pc) == handler[h].pc = pc
Job(h) == handler[h].job

Continue(h, pc) == handler' = [handler EXCEPT ![h] = [handler[h] EXCEPT !.pc = pc]]
Release(h) == handler' = [handler EXCEPT ![h] = Idle]

\* The broker hands the free slot any message waiting in its queue:
\* redelivered messages and a second consumer reorder them.
Deliver(h) ==
    /\ At(h, "idle")
    /\ \E p \in Payments :
          /\ queue[QueueOf[h]][p] > 0
          /\ queue' = [queue EXCEPT ![QueueOf[h]] =
                [queue[QueueOf[h]] EXCEPT ![p] = queue[QueueOf[h]][p] - 1]]
          /\ handler' = [handler EXCEPT ![h] =
                [pc |-> "process", job |-> p, seen |-> 0]]
    /\ UNCHANGED << orderStatus, payment, event, balance, cartStale, published,
                    clobbered >>
    /\ NoFault
    /\ UNCHANGED workerFrame

----------------------------------------------------------------------------
(* The settlement transaction. *)

\* The transaction took effect.  Its answer may still be lost, and then the
\* catch block runs as if it had not.
Answered(h, pc) ==
    \/ Continue(h, pc) /\ NoFault
    \/ Continue(h, "record") /\ Fault("abort")

\* Mutant: the settlement does not look at the payment's status.
ProcessableWhateverStatus(p) == Exists(p)

Processable(p) == Queued(p)

Exhausted(p) == payment[p].attempts >= MaxAttempts

\* Mutant: the debit does not look at the balance it takes from.
CoveredByAnything(p) == TRUE

\* `balance: { gte: payment.amount }` of the debit.
Covered(p) == balance[Payer(p)] >= Price(p)

\* The row is gone or settled: 'ignored', and the message is acknowledged.
ProcessIgnored(h) ==
    /\ At(h, "process")
    /\ ~Processable(Job(h))
    /\ Answered(h, "ack")
    /\ UNCHANGED << orderStatus, payment, event, balance, cartStale, queue,
                    published, clobbered >>
    /\ UNCHANGED workerFrame

\* No attempt is left, or the balance is too low.  The PaymentException that
\* reports the latter is swallowed, so both end in an acknowledgement.
ProcessRefused(h) ==
    LET p == Job(h) IN
    /\ At(h, "process")
    /\ Processable(p)
    /\ Exhausted(p) \/ ~Covered(p)
    /\ SetStatus(p, "FAILED", IF Exhausted(p) THEN payment[p].attempts
                              ELSE payment[p].attempts + 1)
    /\ LogEvents(p, IF Exhausted(p) THEN {"FAILED"} ELSE {"PENDING", "FAILED"})
    /\ Answered(h, "ack")
    /\ UNCHANGED << orderStatus, balance, cartStale, queue, published,
                    clobbered >>
    /\ UNCHANGED workerFrame

\* Mutant: the debit is left out.
DebitNothing(p) == UNCHANGED balance

Debit(p) == balance' = [balance EXCEPT ![Payer(p)] = balance[Payer(p)] - Price(p)]

\* Mutant: the order is left as it was.
ShipNothing(p) == UNCHANGED orderStatus

Ship(p) == orderStatus' = [orderStatus EXCEPT ![payment[p].order] = "SHIPPING"]

\* The debit, the emptied cart, the two statuses and the events, together.
ProcessCompleted(h) ==
    LET p == Job(h) IN
    /\ At(h, "process")
    /\ Processable(p)
    /\ ~Exhausted(p)
    /\ Covered(p)
    /\ Debit(p)
    /\ cartStale' = cartStale \cup {Payer(p)}
    /\ SetStatus(p, "SUCCESSED", payment[p].attempts + 1)
    /\ LogEvents(p, {"PENDING", "SUCCESS"})
    /\ Ship(p)
    /\ Answered(h, "invalidate")
    /\ UNCHANGED << queue, published, clobbered >>
    /\ UNCHANGED workerFrame

\* The transaction rolls back: the catch block takes over.
ProcessAborted(h) ==
    /\ At(h, "process")
    /\ Fault("abort")
    /\ Continue(h, "record")
    /\ UNCHANGED << orderStatus, payment, event, balance, cartStale, queue,
                    published, clobbered >>
    /\ UNCHANGED workerFrame

----------------------------------------------------------------------------
(* recordTechnicalFailure and the retry. *)

Recordable(p) == Queued(p)

\* A row that is no longer QUEUED needs no retry.
RecordRead(h) ==
    /\ At(h, "record")
    /\ handler' = [handler EXCEPT ![h] =
          IF Recordable(Job(h))
          THEN [pc |-> "write", job |-> Job(h), seen |-> payment[Job(h)].attempts]
          ELSE [pc |-> "ack", job |-> Job(h), seen |-> 0]]
    /\ UNCHANGED << orderStatus, payment, event, balance, cartStale, queue,
                    published, clobbered >>
    /\ NoFault
    /\ UNCHANGED workerFrame

\* Mutant: one attempt too many is allowed.
AnotherAttemptLeft(n) == n <= MaxAttempts

ShouldRetry(n) == n < MaxAttempts

\* Another transaction committed to this row since RecordRead.
Changed(h) == ~Queued(Job(h)) \/ payment[Job(h)].attempts # handler[h].seen

\* The update is by id alone, with the number of attempts computed from the
\* earlier read.
RecordWrite(h) ==
    LET p == Job(h)
        n == handler[h].seen + 1
    IN
    /\ At(h, "write")
    /\ SetStatus(p, IF ShouldRetry(n) THEN "QUEUED" ELSE "FAILED", n)
    /\ LogEvents(p, IF ShouldRetry(n) THEN {"RETRYING"} ELSE {"FAILED"})
    /\ clobbered' = IF Changed(h) THEN clobbered \cup {p} ELSE clobbered
    /\ \/ Continue(h, IF ShouldRetry(n) THEN "emit" ELSE "ack") /\ NoFault
       \/ Continue(h, "stalled") /\ Fault("outage")   \* the answer is lost
    /\ UNCHANGED << orderStatus, balance, cartStale, queue, published >>
    /\ UNCHANGED workerFrame

\* The failure cannot be recorded: the error leaves the handler, and the
\* message stays unacknowledged in a slot that takes no other.
RecordFails(h) ==
    /\ At(h, "record") \/ At(h, "write")
    /\ Fault("outage")
    /\ Continue(h, "stalled")
    /\ UNCHANGED << orderStatus, payment, event, balance, cartStale, queue,
                    published, clobbered >>
    /\ UNCHANGED workerFrame

\* Mutant: the retry message is never sent.
EmitNothing(p) == UNCHANGED queue

RetryMessage(p) == Publish("retry", p)

EmitRetry(h) ==
    /\ At(h, "emit")
    /\ \/ RetryMessage(Job(h)) /\ Continue(h, "ack") /\ NoFault
       \/ RetryMessage(Job(h)) /\ Continue(h, "stalled") /\ Fault("outage")
       \/ UNCHANGED queue /\ Continue(h, "stalled") /\ Fault("outage")
    /\ UNCHANGED << orderStatus, payment, event, balance, cartStale, published,
                    clobbered >>
    /\ UNCHANGED workerFrame

----------------------------------------------------------------------------
(* After the commit. *)

\* The user's cart-version entry is rewritten.
InvalidateCart(h) ==
    LET fresh == cartStale \ {Payer(Job(h))} IN
    /\ At(h, "invalidate")
    /\ \/ cartStale' = fresh /\ Continue(h, "ack") /\ NoFault
       \/ cartStale' = fresh /\ Continue(h, "stalled") /\ Fault("outage")
       \/ UNCHANGED cartStale /\ Continue(h, "stalled") /\ Fault("outage")
    /\ UNCHANGED << orderStatus, payment, event, balance, queue, published,
                    clobbered >>
    /\ UNCHANGED workerFrame

Ack(h) ==
    /\ At(h, "ack")
    /\ Release(h)
    /\ UNCHANGED << orderStatus, payment, event, balance, cartStale, queue,
                    published, clobbered >>
    /\ NoFault
    /\ UNCHANGED workerFrame

Redeliver(q, p) == Publish(q, p)

\* The connection of a dead process is closed: its message is requeued.
Requeue(h) ==
    /\ At(h, "dropped")
    /\ Redeliver(QueueOf[h], Job(h))
    /\ Release(h)
    /\ UNCHANGED << orderStatus, payment, event, balance, cartStale, published,
                    clobbered >>
    /\ NoFault
    /\ UNCHANGED workerFrame

HandlerStep(h) ==
    \/ Deliver(h) \/ ProcessIgnored(h) \/ ProcessRefused(h)
    \/ ProcessCompleted(h) \/ ProcessAborted(h) \/ RecordRead(h)
    \/ RecordWrite(h) \/ RecordFails(h) \/ EmitRetry(h) \/ InvalidateCart(h)
    \/ Ack(h) \/ Requeue(h)

============================================================================
