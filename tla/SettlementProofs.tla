-------------------------- MODULE SettlementProofs --------------------------
(***************************************************************************)
(* Proofs of the safety properties of settlement: the event log and the    *)
(* row agree, an order ships exactly when it was paid, an order outside    *)
(* the two races is debited once, and no published payment is forgotten.   *)
(***************************************************************************)
EXTENDS PaymentProofs

----------------------------------------------------------------------------
(* The strengthening: what the rows, the events and the orders share. *)

\* Only published payments are ever overwritten.
ClobberedPublished == clobbered \subseteq published

\* An order outside the races has one live payment at a time.
CleanOrderOneLive ==
    \A o \in Orders : Clean(o) => \A p1, p2 \in LivePayments(o) : p1 = p2

\* A row not created yet has no attempts.
BlankRows == \A p \in Payments : ~Exists(p) => payment[p].attempts = 0

SettlementInv ==
    /\ ClobberedPublished
    /\ BlankRows
    /\ LogMatchesRow
    /\ ShippedIffPaid
    /\ CleanOrderOneLive

\* Nothing is paid and no order ships in the initial state.
LEMMA InitSettlement == Init => SettlementInv
  <1> SUFFICES ASSUME Init PROVE SettlementInv
    OBVIOUS
  <1>1. ClobberedPublished /\ BlankRows /\ LogMatchesRow
    BY DEF Init, ClobberedPublished, BlankRows, LogMatchesRow, LogMatches, NoRow, Exists,
       PaymentEventStatus
  <1>2. ShippedIffPaid
    BY DEF Init, ShippedIffPaid, PaymentEventStatus
  <1>3. CleanOrderOneLive
    BY DEF Init, CleanOrderOneLive, LivePayments, Live, Exists, NoRow
  <1> QED BY <1>1, <1>2, <1>3 DEF SettlementInv

----------------------------------------------------------------------------
(* What a step may do to one payment's row and events together. *)

Bumped(p, S) ==
    \A s \in PaymentEventStatus :
       event'[p][s] = IF s \in S THEN event[p][s] + 1 ELSE event[p][s]

OneMoreAttempt(p) == payment'[p].attempts = payment[p].attempts + 1

Refused(p) ==
    /\ Queued(p) /\ payment'[p].status = "FAILED" /\ OneMoreAttempt(p)
    /\ Bumped(p, {"PENDING", "FAILED"})

Completed(p) ==
    /\ Queued(p) /\ payment'[p].status = "SUCCESSED" /\ OneMoreAttempt(p)
    /\ Bumped(p, {"PENDING", "SUCCESS"})

Recorded(p) ==
    /\ p \in clobbered' \/ (Queued(p) /\ OneMoreAttempt(p))
    /\ \/ payment'[p].status = "QUEUED" /\ Bumped(p, {"RETRYING"})
       \/ payment'[p].status = "FAILED" /\ Bumped(p, {"FAILED"})

Same(p) == payment'[p] = payment[p] /\ event'[p] = event[p]

LogStep(p) ==
    \/ Same(p)
    \/ RowCreated(p) /\ Bumped(p, {"CREATED"})
    \/ Refused(p)
    \/ Completed(p)
    \/ Recorded(p)

\* LogEvents on one payment bumps it and leaves the others alone.
LEMMA LogEventsBumps ==
  ASSUME TypeOK, NEW p \in Payments, NEW S, LogEvents(p, S)
  PROVE  /\ Bumped(p, S)
         /\ \A q \in Payments \ {p} : event'[q] = event[q]
  BY DEF TypeOK, LogEvents, Bumped

\* SetStatus on one payment writes it and leaves the others alone.
LEMMA SetStatusWrites ==
  ASSUME TypeOK, NEW p \in Payments, NEW st, NEW n, SetStatus(p, st, n)
  PROVE  /\ payment'[p] = [status |-> st, order |-> payment[p].order,
                           attempts |-> n]
         /\ \A q \in Payments \ {p} : payment'[q] = payment[q]
  BY TypeParts DEF SetStatus, Payments0

\* A busy handler's job is a payment that exists and was published.
LEMMA JobFacts ==
  ASSUME IInv, NEW h \in Handlers, Busy(h)
  PROVE  Job(h) \in Payments /\ Job(h) \in published /\ Exists(Job(h))
  BY TypeParts DEF IInv, Coherent, JobsPublished, PublishedRows

\* What the insert of a checkout does to rows, events and orders.
LEMMA CreateEffect ==
  ASSUME IInv, NEW r \in Requests, CreatePayment(r)
  PROVE  \E p \in Payments :
            /\ RowCreated(p) /\ Bumped(p, {"CREATED"})
            /\ \A q \in Payments \ {p} : Same(q)
            /\ \/ payment'[p].order \in raced'
               \/ LivePayments(payment'[p].order) = {}
            /\ UNCHANGED << orderStatus, clobbered, published >>
            /\ raced \subseteq raced'
  <1>0. TypeOK /\ payment \in [Payments -> PaymentRow]
    BY TypeParts DEF IInv, Payments0
  <1>1. request[r].order \in Orders
    BY DEF CreatePayment, IInv, Coherent, RequestsKnow, RequestKnows, InFlight
  <1>2. PICK p \in Payments :
           /\ ~Exists(p)
           /\ payment' = [payment EXCEPT ![p] =
                 [status |-> "QUEUED", order |-> request[r].order,
                  attempts |-> 0]]
           /\ LogEvents(p, {"CREATED"})
    BY DEF CreatePayment
  <1>3. RowCreated(p) /\ payment'[p].order = request[r].order
    BY <1>0, <1>1, <1>2 DEF RowCreated
  <1>4. Bumped(p, {"CREATED"}) /\ \A q \in Payments \ {p} : Same(q)
    BY <1>0, <1>2, LogEventsBumps DEF Same
  <1>5. /\ UNCHANGED << orderStatus, clobbered, published >>
        /\ raced' = IF LivePayments(request[r].order) = {} THEN raced
                    ELSE raced \cup {request[r].order}
    BY DEF CreatePayment, checkoutFrame
  <1> QED BY <1>3, <1>4, <1>5

\* What a settlement that finds too little money does to rows, events and
\* orders.
LEMMA RefusedEffect ==
  ASSUME IInv, NEW h \in Handlers, ProcessRefused(h)
  PROVE  /\ Refused(Job(h)) /\ payment'[Job(h)].order = payment[Job(h)].order
         /\ \A q \in Payments \ {Job(h)} : Same(q)
         /\ UNCHANGED << orderStatus, clobbered, published, raced >>
  <1>0. TypeOK /\ Job(h) \in Payments
    BY JobFacts DEF IInv, ProcessRefused, At, Busy
  <1>1. Queued(Job(h)) /\ payment[Job(h)].attempts \in Nat
    BY <1>0, TypeParts, LimitAssumption
       DEF ProcessRefused, Processable, Payments0, PaymentRow
  <1>2. ~Exhausted(Job(h))
    BY <1>0, <1>1, LimitAssumption
       DEF IInv, Coherent, QueuedHasAttemptLeft, Exhausted
  <1>3. /\ SetStatus(Job(h), "FAILED", payment[Job(h)].attempts + 1)
        /\ LogEvents(Job(h), {"PENDING", "FAILED"})
    BY <1>2 DEF ProcessRefused
  <1>4. Bumped(Job(h), {"PENDING", "FAILED"})
    BY <1>0, <1>3, LogEventsBumps
  <1>5. payment'[Job(h)] = [status |-> "FAILED", order |-> payment[Job(h)].order,
                            attempts |-> payment[Job(h)].attempts + 1]
    BY <1>0, <1>3, SetStatusWrites
  <1>6. \A q \in Payments \ {Job(h)} : Same(q)
    BY <1>0, <1>3, LogEventsBumps, SetStatusWrites DEF Same
  <1>7. Refused(Job(h))
    BY <1>1, <1>4, <1>5 DEF Refused, OneMoreAttempt
  <1> QED BY <1>5, <1>6, <1>7 DEF ProcessRefused, workerFrame

\* What a settlement that takes the money does to rows, events and orders.
LEMMA CompletedEffect ==
  ASSUME IInv, NEW h \in Handlers, ProcessCompleted(h)
  PROVE  /\ Completed(Job(h)) /\ payment'[Job(h)].order = payment[Job(h)].order
         /\ \A q \in Payments \ {Job(h)} : Same(q)
         /\ Ship(Job(h))
         /\ UNCHANGED << clobbered, published, raced >>
  <1>0. TypeOK /\ Job(h) \in Payments
    BY JobFacts DEF IInv, ProcessCompleted, At, Busy
  <1>1. /\ Queued(Job(h))
        /\ SetStatus(Job(h), "SUCCESSED", payment[Job(h)].attempts + 1)
        /\ LogEvents(Job(h), {"PENDING", "SUCCESS"})
    BY DEF ProcessCompleted, Processable
  <1>4. Bumped(Job(h), {"PENDING", "SUCCESS"})
    BY <1>0, <1>1, LogEventsBumps
  <1>5. payment'[Job(h)] = [status |-> "SUCCESSED", order |-> payment[Job(h)].order,
                            attempts |-> payment[Job(h)].attempts + 1]
    BY <1>0, <1>1, SetStatusWrites
  <1>6. \A q \in Payments \ {Job(h)} : Same(q)
    BY <1>0, <1>1, LogEventsBumps, SetStatusWrites DEF Same
  <1>7. Completed(Job(h))
    BY <1>1, <1>4, <1>5 DEF Completed, OneMoreAttempt
  <1> QED BY <1>5, <1>6, <1>7 DEF ProcessCompleted, workerFrame

\* What recordTechnicalFailure's update does to rows, events and orders.
LEMMA RecordedEffect ==
  ASSUME IInv, NEW h \in Handlers, RecordWrite(h)
  PROVE  /\ Recorded(Job(h)) /\ payment'[Job(h)].order = payment[Job(h)].order
         /\ \A q \in Payments \ {Job(h)} : Same(q)
         /\ clobbered \subseteq clobbered'
         /\ clobbered' \subseteq clobbered \cup {Job(h)}
         /\ UNCHANGED << orderStatus, published, raced >>
  <1>0. TypeOK /\ Job(h) \in Payments
    BY JobFacts DEF IInv, RecordWrite, At, Busy
  <1>1. Job(h) \in clobbered' \/
           (Queued(Job(h)) /\ payment[Job(h)].attempts = handler[h].seen)
    BY DEF RecordWrite, Changed
  <1>2. \/ /\ SetStatus(Job(h), "QUEUED", handler[h].seen + 1)
           /\ LogEvents(Job(h), {"RETRYING"})
        \/ /\ SetStatus(Job(h), "FAILED", handler[h].seen + 1)
           /\ LogEvents(Job(h), {"FAILED"})
    BY DEF RecordWrite
  <1>3. /\ clobbered \subseteq clobbered'
        /\ clobbered' \subseteq clobbered \cup {Job(h)}
        /\ UNCHANGED << orderStatus, published, raced >>
    BY DEF RecordWrite, workerFrame
  <1>4. ASSUME NEW st, NEW S, LogEvents(Job(h), S),
               SetStatus(Job(h), st, handler[h].seen + 1)
        PROVE  /\ Bumped(Job(h), S)
               /\ payment'[Job(h)].status = st
               /\ payment'[Job(h)].order = payment[Job(h)].order
               /\ payment'[Job(h)].attempts = handler[h].seen + 1
               /\ \A q \in Payments \ {Job(h)} : Same(q)
    <2>1. Bumped(Job(h), S) /\ \A q \in Payments \ {Job(h)} : event'[q] = event[q]
      BY <1>0, <1>4, LogEventsBumps
    <2>2. /\ payment'[Job(h)] = [status |-> st, order |-> payment[Job(h)].order,
                                 attempts |-> handler[h].seen + 1]
          /\ \A q \in Payments \ {Job(h)} : payment'[q] = payment[q]
      BY <1>0, <1>4, SetStatusWrites
    <2> QED BY <2>1, <2>2 DEF Same
  <1>5. /\ payment'[Job(h)].order = payment[Job(h)].order
        /\ payment'[Job(h)].attempts = handler[h].seen + 1
        /\ \A q \in Payments \ {Job(h)} : Same(q)
    BY <1>2, <1>4
  <1>6. \/ Bumped(Job(h), {"RETRYING"}) /\ payment'[Job(h)].status = "QUEUED"
        \/ Bumped(Job(h), {"FAILED"}) /\ payment'[Job(h)].status = "FAILED"
    BY <1>2, <1>4
  <1>7. Recorded(Job(h))
    BY <1>1, <1>5, <1>6 DEF Recorded, OneMoreAttempt
  <1> QED BY <1>3, <1>5, <1>7

\* The settlement-relevant effect of every step: one of four, or none.
Quiet == UNCHANGED << payment, event, orderStatus, clobbered, raced >>

\* Every step of the system has one of five effects on rows, events and
\* orders.
LEMMA FiveEffects ==
  ASSUME [Next]_vars
  PROVE  \/ Quiet
         \/ \E r \in Requests : CreatePayment(r)
         \/ \E h \in Handlers : \/ ProcessRefused(h) \/ ProcessCompleted(h)
                                \/ RecordWrite(h)
  BY DEF Quiet, Next, vars, Pay, RequestStep, LookupKey, FindOrder, FindExisting,
         EmitProcess, StoreKey, RequestFails, ExpireKey, checkoutFrame,
         HandlerStep, Deliver, ProcessIgnored, ProcessAborted, RecordRead,
         RecordFails, EmitRetry, InvalidateCart, Ack, Requeue, workerFrame,
         BalanceCharge, Credit, walletFrame, Crash

\* No step forgets that a payment was overwritten or an order raced.
LEMMA RacesGrow ==
  ASSUME IInv, [Next]_vars
  PROVE  clobbered \subseteq clobbered' /\ raced \subseteq raced'
  BY FiveEffects, CreateEffect, RefusedEffect, CompletedEffect, RecordedEffect
     DEF Quiet

\* An event count changes only with the row of the same payment.
LEMMA LogSteps ==
  ASSUME IInv, [Next]_vars, NEW p \in Payments
  PROVE  LogStep(p)
  BY FiveEffects, CreateEffect, RefusedEffect, CompletedEffect, RecordedEffect
     DEF Quiet, LogStep, Same

----------------------------------------------------------------------------
(* The log tells the row's history. *)

\* The events keep telling the history of a row that no stale failure
\* overwrote.
LEMMA LogMatchesStep ==
  ASSUME IInv, SettlementInv, [Next]_vars
  PROVE  LogMatchesRow'
  <1>1. SUFFICES ASSUME NEW p \in Payments, p \notin clobbered'
                 PROVE  LogMatches(p)'
    BY DEF LogMatchesRow
  <1>2. LogMatches(p) /\ LogStep(p)
    BY <1>1, RacesGrow, LogSteps DEF SettlementInv, LogMatchesRow
  <1>3. /\ payment[p] \in PaymentRow
        /\ event[p] \in [PaymentEventStatus -> Nat]
    BY TypeParts DEF IInv, Payments0, Events0
  <1> USE <1>3 DEF PaymentRow, PaymentStatus, PaymentEventStatus, Bumped, Exists,
                   Queued, OneMoreAttempt
  <1>4. CASE Same(p)
    BY <1>2, <1>4 DEF Same, LogMatches
  <1>5. CASE RowCreated(p) /\ Bumped(p, {"CREATED"})
    <2>1. payment[p].status = "NONE" /\ payment[p].attempts = 0
      BY <1>5 DEF RowCreated, SettlementInv, BlankRows
    <2>2. /\ event[p]["CREATED"] = 0 /\ event[p]["SUCCESS"] = 0
          /\ event[p]["FAILED"] = 0 /\ event[p]["RETRYING"] = 0
      BY <1>2, <2>1 DEF LogMatches
    <2>3. /\ event'[p]["CREATED"] = 1 /\ event'[p]["SUCCESS"] = 0
          /\ event'[p]["FAILED"] = 0 /\ event'[p]["RETRYING"] = 0
      BY <1>5, <2>2
    <2> QED BY <1>5, <2>3 DEF RowCreated, LogMatches
  <1>6. CASE Refused(p)
    BY <1>2, <1>6 DEF Refused, LogMatches
  <1>7. CASE Completed(p)
    BY <1>2, <1>7 DEF Completed, LogMatches
  <1>8. CASE Recorded(p)
    BY <1>1, <1>2, <1>8 DEF Recorded, LogMatches
  <1> QED BY <1>2, <1>4, <1>5, <1>6, <1>7, <1>8 DEF LogStep

\* A row that was never created keeps having no events and no order.
LEMMA BlankStep ==
  ASSUME IInv, SettlementInv, [Next]_vars
  PROVE  BlankRows' /\ ClobberedPublished'
  <1>1. BlankRows'
    BY RowSteps DEF SettlementInv, BlankRows, RowStep, RowCreated, RowWritten,
       Exists, PaymentStatus
  <1>2. \A h \in Handlers : RecordWrite(h) => Job(h) \in published
    BY JobFacts DEF RecordWrite, At, Busy
  <1>3. ClobberedPublished'
    BY <1>2, FiveEffects, CreateEffect, RefusedEffect, CompletedEffect,
       RecordedEffect, PublishedGrows
       DEF SettlementInv, ClobberedPublished, Quiet
  <1> QED BY <1>1, <1>3

----------------------------------------------------------------------------
(* Shipped exactly when paid. *)

Paid(o) ==
    \E p \in Payments : payment[p].order = o /\ event[p]["SUCCESS"] > 0

\* Only a completed settlement adds a SUCCESS event, and no row that exists
\* changes its order: every other step keeps the paid orders.
LEMMA PaidKept ==
  ASSUME IInv, SettlementInv, [Next]_vars,
         \A p \in Payments : ~Completed(p), NEW o \in Orders
  PROVE  Paid(o)' <=> Paid(o)
  <1>1. ASSUME NEW p \in Payments
        PROVE  /\ event'[p]["SUCCESS"] > 0 <=> event[p]["SUCCESS"] > 0
               /\ event[p]["SUCCESS"] > 0 =>
                     payment'[p].order = payment[p].order
    <2>1. LogStep(p) /\ RowStep(p)
      BY LogSteps, RowSteps
    <2>2. event'[p]["SUCCESS"] = event[p]["SUCCESS"]
      BY <2>1 DEF LogStep, Same, Bumped, Refused, Recorded, PaymentEventStatus
    <2>3. ~Exists(p) => p \notin clobbered
      BY DEF IInv, Coherent, PublishedRows, SettlementInv, ClobberedPublished
    <2>4. ~Exists(p) => event[p]["SUCCESS"] = 0
      BY <2>3 DEF SettlementInv, LogMatchesRow, LogMatches, Exists
    <2> QED BY <2>1, <2>2, <2>4 DEF RowStep, RowCreated, RowWritten
  <1> QED BY <1>1 DEF Paid

\* An order keeps being SHIPPING exactly when one of its payments has a
\* SUCCESS event.
LEMMA ShippedStep ==
  ASSUME IInv, SettlementInv, [Next]_vars
  PROVE  ShippedIffPaid'
  <1>0. /\ orderStatus \in [Orders -> OrderStatus]
        /\ event \in [Payments -> [PaymentEventStatus -> Nat]]
        /\ \A o \in Orders : orderStatus[o] = "SHIPPING" <=> Paid(o)
    BY DEF IInv, TypeOK, SettlementInv, ShippedIffPaid, Paid
  <1>1. CASE \E h \in Handlers : ProcessCompleted(h)
    <2>1. PICK h \in Handlers : ProcessCompleted(h)
      BY <1>1
    <2> DEFINE p == Job(h)
    <2>2. /\ p \in Payments /\ payment[p].order \in Orders
          /\ Completed(p) /\ payment'[p].order = payment[p].order
          /\ \A q \in Payments \ {p} : Same(q)
          /\ Ship(p)
      BY <2>1, JobFacts, CompletedEffect
         DEF ProcessCompleted, At, Busy, IInv, Coherent, RowsHaveOrders
    <2>3. event'[p]["SUCCESS"] = event[p]["SUCCESS"] + 1
      BY <2>2 DEF Completed, Bumped, PaymentEventStatus
    <2>4. event[p]["SUCCESS"] \in Nat
      BY <1>0, <2>2 DEF PaymentEventStatus
    <2> HIDE DEF p
    <2>5. ASSUME NEW o \in Orders PROVE orderStatus'[o] = "SHIPPING" <=> Paid(o)'
      <3>1. CASE o = payment[p].order
        BY <1>0, <2>2, <2>3, <2>4, <3>1 DEF Ship, Paid
      <3>2. CASE o # payment[p].order
        <4>1. Paid(o)' <=> Paid(o)
          BY <2>2, <3>2 DEF Paid, Same
        <4> QED BY <1>0, <2>2, <3>2, <4>1 DEF Ship
      <3> QED BY <3>1, <3>2
    <2> QED BY <2>5 DEF ShippedIffPaid, Paid
  <1>2. CASE ~ \E h \in Handlers : ProcessCompleted(h)
    <2>1. UNCHANGED orderStatus
      BY <1>2, FiveEffects, CreateEffect, RefusedEffect, RecordedEffect DEF Quiet
    <2>2. \A p \in Payments : ~Completed(p)
      <3>1. ASSUME NEW p \in Payments, Completed(p) PROVE FALSE
        <4>1. event'[p]["SUCCESS"] = event[p]["SUCCESS"] + 1
          BY <3>1 DEF Completed, Bumped, PaymentEventStatus
        <4>2. event[p]["SUCCESS"] \in Nat
          BY <1>0 DEF PaymentEventStatus
        <4>3. event'[p] = event[p] \/ event'[p]["SUCCESS"] = event[p]["SUCCESS"]
          BY <1>2, FiveEffects, CreateEffect, RefusedEffect, RecordedEffect
             DEF Quiet, Same, Bumped, Refused, Recorded, PaymentEventStatus
        <4> QED BY <4>1, <4>2, <4>3
      <3> QED BY <3>1
    <2> QED BY <1>0, <2>1, <2>2, PaidKept DEF ShippedIffPaid, Paid
  <1> QED BY <1>1, <1>2

----------------------------------------------------------------------------
(* An order outside the races is debited once. *)

\* A payment of a clean order that is live after a step other than its own
\* creation was live before it, for the same order.
LEMMA LiveBefore ==
  ASSUME IInv, SettlementInv, [Next]_vars, NEW o \in Orders, Clean(o)',
         NEW p \in LivePayments(o)', ~RowCreated(p)
  PROVE  p \in LivePayments(o)
  <1>1. p \in Payments /\ Live(p)' /\ payment'[p].order = o
    BY DEF LivePayments
  <1>2. LogStep(p) /\ RowStep(p)
    BY <1>1, LogSteps, RowSteps
  <1>3. p \notin clobbered'
    BY <1>1 DEF Clean
  <1>4. payment[p].order = o
    BY <1>1, <1>2 DEF RowStep, RowWritten
  <1>5. Live(p)
    BY <1>1, <1>2, <1>3
       DEF LogStep, Same, Refused, Completed, Recorded, Live, Exists, Queued
  <1> QED BY <1>1, <1>4, <1>5 DEF LivePayments

\* A clean order was clean before the step.
LEMMA CleanBefore ==
  ASSUME IInv, SettlementInv, [Next]_vars, NEW o \in Orders, Clean(o)'
  PROVE  Clean(o)
  <1>1. \A p \in clobbered : p \in Payments /\ Exists(p) /\ RowStep(p)
    BY RowSteps DEF SettlementInv, ClobberedPublished, IInv, TypeOK, Coherent,
       PublishedRows
  <1> QED BY <1>1, RacesGrow DEF Clean, RowStep, RowCreated, RowWritten

\* An order without either race keeps at most one live payment.
LEMMA OneLiveStep ==
  ASSUME IInv, SettlementInv, [Next]_vars
  PROVE  CleanOrderOneLive'
  <1>1. SUFFICES ASSUME NEW o \in Orders, Clean(o)',
                        NEW p1 \in LivePayments(o)', NEW p2 \in LivePayments(o)'
                 PROVE  p1 = p2
    BY DEF CleanOrderOneLive
  <1>2. \A q1, q2 \in LivePayments(o) : q1 = q2
    <2>1. Clean(o)
      BY <1>1, CleanBefore
    <2> QED BY <2>1 DEF SettlementInv, CleanOrderOneLive
  <1>3. ASSUME NEW p \in Payments, RowCreated(p), payment'[p].order = o
        PROVE  LivePayments(o) = {} /\ \A q \in Payments \ {p} : ~RowCreated(q)
    <2>1. ~Quiet
      BY <1>3 DEF Quiet, RowCreated, Exists
    <2>2. ~ \E h \in Handlers : \/ ProcessRefused(h) \/ ProcessCompleted(h)
                                \/ RecordWrite(h)
      <3>1. ASSUME NEW h \in Handlers,
                   ProcessRefused(h) \/ ProcessCompleted(h) \/ RecordWrite(h)
            PROVE  FALSE
        <4>1. Exists(Job(h)) /\ \A q \in Payments \ {Job(h)} : Same(q)
          BY <3>1, JobFacts, RefusedEffect, CompletedEffect, RecordedEffect
             DEF ProcessRefused, ProcessCompleted, RecordWrite, At, Busy
        <4> QED BY <1>3, <4>1 DEF RowCreated, Same, Exists
      <3> QED BY <3>1
    <2>3. PICK q \in Payments :
             /\ RowCreated(q)
             /\ \A s \in Payments \ {q} : Same(s)
             /\ \/ payment'[q].order \in raced'
                \/ LivePayments(payment'[q].order) = {}
      BY <2>1, <2>2, FiveEffects, CreateEffect
    <2>4. \A s \in Payments : RowCreated(s) => s = q
      BY <2>3 DEF RowCreated, Same, Exists
    <2> QED BY <1>1, <1>3, <2>3, <2>4 DEF Clean
  <1>4. /\ p1 \in Payments /\ payment'[p1].order = o
        /\ p2 \in Payments /\ payment'[p2].order = o
    BY <1>1 DEF LivePayments
  <1>5. CASE RowCreated(p1)
    BY <1>1, <1>3, <1>4, <1>5, LiveBefore
  <1>6. CASE RowCreated(p2)
    BY <1>1, <1>3, <1>4, <1>6, LiveBefore
  <1>7. CASE ~RowCreated(p1) /\ ~RowCreated(p2)
    BY <1>1, <1>2, <1>7, LiveBefore
  <1> QED BY <1>5, <1>6, <1>7

\* Every step preserves the settlement invariant.
LEMMA SettlementStep == IInv /\ SettlementInv /\ [Next]_vars => SettlementInv'
  BY LogMatchesStep, BlankStep, ShippedStep, OneLiveStep DEF SettlementInv

\* The settlement invariant, of the rows, the events and the order status
\* that processPayment writes together, holds in every reachable state.
THEOREM Settlement == Spec => []SettlementInv
  <1>1. Init => SettlementInv
    BY InitSettlement
  <1>2. IInv /\ SettlementInv /\ [Next]_vars => SettlementInv'
    BY SettlementStep
  <1> QED BY <1>1, <1>2, Coherence, PTL DEF Spec

\* The events tell the history of every row that was not overwritten.
THEOREM LogTellsHistory == Spec => []LogMatchesRow
  <1>1. SettlementInv => LogMatchesRow
    BY DEF SettlementInv
  <1> QED BY <1>1, Settlement, PTL

\* An order is SHIPPING exactly when it was paid, through every race.
THEOREM ShippedWhenPaid == Spec => []ShippedIffPaid
  <1>1. SettlementInv => ShippedIffPaid
    BY DEF SettlementInv
  <1> QED BY <1>1, Settlement, PTL

\* The two races are the only ways to charge an order twice.
THEOREM CleanDebitedOnce == Spec => []CleanOrderDebitedOnce
  <1>1. IInv /\ SettlementInv => CleanOrderDebitedOnce
    <2> SUFFICES ASSUME IInv, SettlementInv, NEW o \in Orders, Clean(o),
                        NEW p1 \in Payments, payment[p1].order = o,
                        NEW p2 \in Payments, payment[p2].order = o
                 PROVE  /\ event[p1]["SUCCESS"] <= 1
                        /\ event[p1]["SUCCESS"] > 0 /\ event[p2]["SUCCESS"] > 0
                              => p1 = p2
      BY DEF CleanOrderDebitedOnce, DebitedOnce
    <2>1. LogMatches(p1) /\ LogMatches(p2)
      BY DEF Clean, SettlementInv, LogMatchesRow
    <2>2. event[p1]["SUCCESS"] <= 1
      BY <2>1 DEF LogMatches
    <2>3. ASSUME event[p1]["SUCCESS"] > 0, event[p2]["SUCCESS"] > 0
          PROVE  p1 = p2
      <3>1. p1 \in LivePayments(o) /\ p2 \in LivePayments(o)
        BY <2>1, <2>3 DEF LogMatches, LivePayments, Live, Exists
      <3> QED BY <3>1 DEF SettlementInv, CleanOrderOneLive
    <2> QED BY <2>2, <2>3
  <1> QED BY <1>1, Coherence, Settlement, PTL

----------------------------------------------------------------------------
(* No published payment is forgotten. *)

\* What a step of the handler that holds p leaves: p is settled, or still held,
\* or a message for it waits.
LEMMA HolderStep ==
  ASSUME IInv, NEW h \in Handlers, HandlerStep(h), NEW p \in Payments,
         Job(h) = p, Busy(h), Queued(p)',
         Queued(p) => Holds(h, p)
  PROVE  Carried(p)'
  <1>0. /\ handler \in [Handlers -> HandlerState]
        /\ queue \in [Queues -> [Payments -> Nat]]
        /\ QueueOf[h] \in Queues
    BY QueueAssumption DEF IInv, TypeOK
  <1>1. ASSUME NEW pc \in {"record", "write", "emit", "stalled"},
               handler'[h].pc = pc, handler'[h].job = p
        PROVE  Carried(p)'
    BY <1>1 DEF Carried, Holds, Job
  <1>2. ASSUME NEW pc, Continue(h, pc)
        PROVE  handler'[h].pc = pc /\ handler'[h].job = p
    BY <1>0, <1>2 DEF Continue, HandlerState, Job
  <1>3. ASSUME NEW q \in Queues, Publish(q, p)
        PROVE  Carried(p)'
    BY <1>0, <1>3 DEF Publish, Carried
  <1>4. CASE ProcessIgnored(h)
    BY <1>4, <1>1, <1>2 DEF ProcessIgnored, Processable, Queued, Answered
  <1>5. CASE ProcessRefused(h)
    BY <1>5, RefusedEffect DEF Refused, Queued
  <1>6. CASE ProcessCompleted(h)
    BY <1>6, CompletedEffect DEF Completed, Queued
  <1>7. CASE ProcessAborted(h)
    BY <1>1, <1>2, <1>7 DEF ProcessAborted
  <1>8. CASE RecordRead(h)
    <2>1. Queued(p)
      BY <1>8 DEF RecordRead, Queued
    <2>2. handler'[h].pc = "write" /\ handler'[h].job = p
      BY <1>0, <1>8, <2>1 DEF RecordRead, Recordable, Job
    <2> QED BY <1>1, <2>2
  <1>9. CASE RecordWrite(h)
    <2>1. ShouldRetry(handler[h].seen + 1)
      <3>1. SUFFICES ASSUME ~ShouldRetry(handler[h].seen + 1) PROVE FALSE
        OBVIOUS
      <3>2. SetStatus(p, "FAILED", handler[h].seen + 1)
        BY <1>9, <3>1 DEF RecordWrite
      <3>3. TypeOK
        BY DEF IInv
      <3>4. payment'[p] = [status |-> "FAILED", order |-> payment[p].order,
                           attempts |-> handler[h].seen + 1]
        BY <3>2, <3>3, SetStatusWrites
      <3> QED BY <3>4 DEF Queued
    <2>2. Continue(h, "emit") \/ Continue(h, "stalled")
      BY <1>9, <2>1 DEF RecordWrite
    <2> QED BY <1>1, <1>2, <2>2
  <1>10. CASE RecordFails(h)
    BY <1>1, <1>2, <1>10 DEF RecordFails
  <1>11. CASE EmitRetry(h)
    BY <1>1, <1>2, <1>3, <1>11 DEF EmitRetry, RetryMessage, Queues
  <1>12. CASE Requeue(h)
    BY <1>0, <1>3, <1>12 DEF Requeue, Redeliver
  <1>13. CASE InvalidateCart(h) \/ Ack(h)
    <2>1. UNCHANGED payment
      BY <1>13 DEF InvalidateCart, Ack
    <2>2. Holds(h, p)
      BY <2>1 DEF Queued
    <2> QED BY <1>13, <2>2 DEF InvalidateCart, Ack, At, Holds
  <1>14. CASE Deliver(h)
    BY <1>14 DEF Deliver, At, Busy
  <1> QED BY <1>4, <1>5, <1>6, <1>7, <1>8, <1>9, <1>10, <1>11, <1>12, <1>13, <1>14
          DEF HandlerStep

\* A step of anything else leaves a held or waiting payment so.
LEMMA WaitingStays ==
  ASSUME IInv, [Next]_vars, NEW q \in Queues, NEW p \in Payments,
         queue[q][p] > 0, ~ \E h \in Handlers : Deliver(h)
  PROVE  queue'[q][p] > 0
  <1>0. queue \in [Queues -> [Payments -> Nat]]
    BY DEF IInv, TypeOK
  <1>1. CASE UNCHANGED queue
    BY <1>1
  <1>2. ASSUME NEW q1 \in Queues, NEW p1, Publish(q1, p1)
        PROVE  queue'[q][p] > 0
    BY <1>0, <1>2 DEF Publish
  <1>3. UNCHANGED queue \/ \E q1 \in Queues : \E p1 : Publish(q1, p1)
    <2>1. ASSUME NEW h \in Handlers, HandlerStep(h)
          PROVE  UNCHANGED queue \/ \E q1 \in Queues : \E p1 : Publish(q1, p1)
      BY <2>1, QueueAssumption
         DEF HandlerStep, ProcessIgnored, ProcessRefused, ProcessCompleted,
             ProcessAborted, RecordRead, RecordWrite, RecordFails, EmitRetry,
             RetryMessage, InvalidateCart, Ack, Requeue, Redeliver, Queues
    <2>2. ASSUME NEW r \in Requests, Pay(r) \/ RequestStep(r)
          PROVE  UNCHANGED queue \/ \E q1 \in Queues : \E p1 : Publish(q1, p1)
      BY <2>2 DEF Pay, RequestStep, LookupKey, FindOrder, FindExisting,
         CreatePayment, EmitProcess, StoreKey, RequestFails, Queues
    <2> QED BY <2>1, <2>2 DEF Next, vars, ExpireKey, BalanceCharge, Credit,
            walletFrame, Crash
  <1> QED BY <1>1, <1>2, <1>3

\* A message that is delivered is carried by the handler that took it.
LEMMA DeliverKeeps ==
  ASSUME IInv, NEW h \in Handlers, Deliver(h), NEW p \in Payments, Carried(p)
  PROVE  Carried(p)'
  <1>0. /\ handler \in [Handlers -> HandlerState]
        /\ queue \in [Queues -> [Payments -> Nat]]
        /\ QueueOf[h] \in Queues
    BY QueueAssumption DEF IInv, TypeOK
  <1>1. PICK m \in Payments :
           /\ queue' = [queue EXCEPT ![QueueOf[h]] =
                 [queue[QueueOf[h]] EXCEPT ![m] = queue[QueueOf[h]][m] - 1]]
           /\ handler' = [handler EXCEPT ![h] =
                 [pc |-> "process", job |-> m, seen |-> 0]]
    BY DEF Deliver
  <1>2. CASE m = p
    BY <1>0, <1>1, <1>2 DEF Carried, Holds, Job
  <1>3. CASE m # p
    <2>1. CASE \E q \in Queues : queue[q][p] > 0
      BY <1>0, <1>1, <1>3, <2>1 DEF Carried
    <2>2. CASE \E g \in Handlers : Holds(g, p)
      <3>1. PICK g \in Handlers : Holds(g, p)
        BY <2>2
      <3>2. g # h
        BY <3>1 DEF Holds, Deliver, At
      <3> QED BY <1>0, <1>1, <3>1, <3>2 DEF Carried, Holds, Job
    <2> QED BY <2>1, <2>2 DEF Carried
  <1> QED BY <1>2, <1>3

\* Every step keeps a waiting message or a handler for each published QUEUED
\* payment.
LEMMA CarriedStep ==
  ASSUME IInv, PublishedIsCarried, [Next]_vars
  PROVE  PublishedIsCarried'
  <1>1. SUFFICES ASSUME NEW p \in published', Queued(p)'
                 PROVE  Carried(p)'
    BY DEF PublishedIsCarried
  <1>0. /\ handler \in [Handlers -> HandlerState]
        /\ p \in Payments
        /\ p \in published /\ Queued(p) => Carried(p)
    BY TypeStep DEF IInv, TypeOK, PublishedIsCarried
  \* The message has just been published.
  <1>2. CASE p \notin published
    <2>1. PICK r \in Requests : EmitProcess(r)
      BY <1>1, <1>2
         DEF Next, vars, Pay, RequestStep, LookupKey, FindOrder, FindExisting,
             CreatePayment, StoreKey, RequestFails, ExpireKey, HandlerStep,
             Deliver, ProcessIgnored, ProcessRefused, ProcessCompleted,
             ProcessAborted, RecordRead, RecordWrite, RecordFails, EmitRetry,
             InvalidateCart, Ack, Requeue, workerFrame, BalanceCharge, Credit,
             walletFrame, Crash
    <2>2. Publish("process", p)
      BY <1>1, <1>2, <2>1 DEF EmitProcess
    <2>3. queue'["process"][p] > 0
      BY <1>0, <2>2 DEF Publish, IInv, TypeOK, Queues
    <2> QED BY <2>3 DEF Carried, Queues
  \* The row has just been set back to QUEUED, by the handler that holds p.
  <1>3. CASE p \in published /\ ~Queued(p)
    <2>1. PICK h \in Handlers : HandlerStep(h) /\ Job(h) = p /\ Busy(h)
      <3>1. ~Quiet
        BY <1>1, <1>3 DEF Quiet, Queued
      <3>2. Exists(p)
        BY <1>3 DEF IInv, Coherent, PublishedRows
      <3>3. ~Same(p)
        BY <1>1, <1>3 DEF Same, Queued
      <3>4. PICK h \in Handlers : \/ ProcessRefused(h) \/ ProcessCompleted(h)
                                  \/ RecordWrite(h)
        BY <1>0, <3>1, <3>2, <3>3, FiveEffects, CreateEffect DEF RowCreated
      <3>5. Job(h) = p
        BY <1>0, <3>3, <3>4, RefusedEffect, CompletedEffect, RecordedEffect
      <3> QED BY <3>4, <3>5 DEF HandlerStep, ProcessRefused, ProcessCompleted,
              RecordWrite, At, Busy
    <2> QED BY <1>0, <1>1, <1>3, <2>1, HolderStep
  \* It was QUEUED and carried before the step.
  <1>4. CASE p \in published /\ Queued(p)
    <2>0. Carried(p)
      BY <1>0, <1>4
    <2>1. CASE \E h \in Handlers : Deliver(h)
      BY <1>0, <2>0, <2>1, DeliverKeeps
    <2>2. CASE /\ ~ \E h \in Handlers : Deliver(h)
               /\ \E q \in Queues : queue[q][p] > 0
      BY <1>0, <2>2, WaitingStays DEF Carried
    <2>3. CASE \E h \in Handlers : Holds(h, p)
      <3>1. PICK h \in Handlers : Holds(h, p)
        BY <2>3
      <3>2. CASE HandlerStep(h)
        BY <1>0, <1>1, <3>1, <3>2, HolderStep DEF Holds, Busy
      <3>3. ASSUME NEW g \in Handlers, g # h, HandlerStep(g)
            PROVE  Carried(p)'
        <4>1. \E v : handler' = [handler EXCEPT ![g] = v]
          BY <3>3 DEF HandlerStep, Deliver, ProcessIgnored, ProcessRefused,
             ProcessCompleted, ProcessAborted, RecordRead, RecordWrite,
             RecordFails, EmitRetry, InvalidateCart, Ack, Requeue, Answered,
             Continue, Release
        <4>2. handler'[h] = handler[h]
          BY <1>0, <3>3, <4>1
        <4> QED BY <3>1, <4>2 DEF Carried, Holds, Job
      <3>4. CASE Crash
        BY <1>0, <3>1, <3>4 DEF Crash, Carried, Holds, Job, Busy
      <3>5. CASE UNCHANGED handler
        BY <3>1, <3>5 DEF Carried, Holds, Job
      <3> QED BY <3>2, <3>3, <3>4, <3>5
          DEF Next, vars, Pay, RequestStep, LookupKey, FindOrder, FindExisting,
              CreatePayment, EmitProcess, StoreKey, RequestFails, ExpireKey,
              checkoutFrame, BalanceCharge, Credit, walletFrame
    <2> QED BY <2>0, <2>1, <2>2, <2>3 DEF Carried
  <1> QED BY <1>2, <1>3, <1>4

\* A payment that reached the process queue is never forgotten while QUEUED:
\* a message waits for it or a handler still owes it one.
THEOREM NothingForgotten == Spec => []PublishedIsCarried
  <1>1. Init => PublishedIsCarried
    BY DEF Init, PublishedIsCarried
  <1>2. IInv /\ PublishedIsCarried /\ [Next]_vars => PublishedIsCarried'
    BY CarriedStep
  <1> QED BY <1>1, <1>2, Coherence, PTL DEF Spec

============================================================================
