--------------------------- MODULE PaymentProofs ---------------------------
(***************************************************************************)
(* Proofs about PaymentSystem, for every set of users, orders, payments,   *)
(* keys, requests and handlers, every owner, amount and limit, and any     *)
(* number of faults.                                                       *)
(***************************************************************************)
EXTENDS PaymentSystem, TLAPS

----------------------------------------------------------------------------
(* The inductive invariant, in named parts. *)

\* A row that exists names its order.
RowsHaveOrders == \A p \in Payments : Exists(p) => payment[p].order \in Orders

\* Whatever was published is a row, whatever was settled was published.
PublishedRows ==
    /\ \A p \in published : Exists(p)
    /\ \A p \in Payments : payment[p].status \in {"FAILED", "SUCCESSED"} =>
                              p \in published

\* Messages and busy handlers are about published payments, and a failure is
\* about to be recorded only when an attempt was left.
JobsPublished ==
    /\ \A q \in Queues, p \in Payments : queue[q][p] > 0 => p \in published
    /\ \A h \in Handlers : Busy(h) => Job(h) \in published
    /\ \A h \in Handlers : At(h, "write") => handler[h].seen < MaxAttempts

\* What a request knows by the time it gets anywhere.
RequestKnows(r) ==
    /\ InFlight(r) => /\ request[r].user \in Users
                      /\ request[r].order \in Orders
                      /\ request[r].key \in Keys
    /\ request[r].pc \in {"existing", "create", "emit", "store"} =>
          Owner[request[r].order] = request[r].user
    /\ request[r].pc \in {"emit", "store"} =>
          /\ request[r].pay \in Payments
          /\ Exists(request[r].pay)
          /\ payment[request[r].pay].order = request[r].order
    /\ request[r].pc = "store" => request[r].pay \in published

RequestsKnow == \A r \in Requests : RequestKnows(r)

Coherent ==
    /\ RowsHaveOrders
    /\ QueuedHasAttemptLeft
    /\ PublishedRows
    /\ JobsPublished
    /\ RequestsKnow
    /\ KeyMeansPublished

IInv == TypeOK /\ Coherent

\* The state the database, the queues and the process start in satisfies the
\* inductive invariant.
LEMMA InitIInv == Init => IInv
  <1> SUFFICES ASSUME Init PROVE IInv
    OBVIOUS
  <1>1. TypeOK
    BY LimitAssumption
       DEF Init, TypeOK, NoRow, Idle, NewRequest, PaymentRow, PaymentStatus,
           HandlerState, HandlerPc, RequestState, RequestPc, OrderStatus
  <1>2. Coherent
    BY DEF Init, NoRow, Idle, NewRequest, Coherent, RowsHaveOrders, Exists,
           QueuedHasAttemptLeft, Queued, PublishedRows, JobsPublished, Busy, At,
           RequestsKnow, RequestKnows, InFlight, KeyMeansPublished
  <1> QED BY <1>1, <1>2 DEF IInv

----------------------------------------------------------------------------
(* What the helpers of the store do to the types. *)

Requests0 == request \in [Requests -> RequestState]
Handlers0 == handler \in [Handlers -> HandlerState]
Payments0 == payment \in [Payments -> PaymentRow]
Events0 == event \in [Payments -> [PaymentEventStatus -> Nat]]
Queues0 == queue \in [Queues -> [Payments -> Nat]]

\* Moving a request to another program point, with or without its payment.
LEMMA GotoType ==
  ASSUME Requests0, NEW r \in Requests, NEW pc \in RequestPc, Goto(r, pc)
  PROVE  Requests0'
  BY DEF Requests0, Goto, RequestState

\* Moving one request to another step and payment keeps every request a
\* request record.
LEMMA GotoWithType ==
  ASSUME Requests0, NEW r \in Requests, NEW pc \in RequestPc,
         NEW p \in Payments, GotoWith(r, pc, p)
  PROVE  Requests0'
  BY DEF Requests0, GotoWith, RequestState

\* Moving a handler, and freeing it.
LEMMA ContinueType ==
  ASSUME Handlers0, NEW h \in Handlers, NEW pc \in HandlerPc, Continue(h, pc)
  PROVE  Handlers0'
  BY DEF Handlers0, Continue, HandlerState

\* A handler that acknowledges its message is an idle handler record.
LEMMA ReleaseType ==
  ASSUME Handlers0, NEW h \in Handlers, Release(h)
  PROVE  Handlers0'
  BY LimitAssumption DEF Handlers0, Release, Idle, HandlerState, HandlerPc

\* Writing a payment row, its events, and a queue.
LEMMA SetStatusType ==
  ASSUME Payments0, NEW p \in Payments, NEW st \in PaymentStatus,
         NEW n \in 0 .. MaxAttempts, SetStatus(p, st, n)
  PROVE  Payments0'
  <1>1. [status |-> st, order |-> payment[p].order, attempts |-> n] \in PaymentRow
    BY DEF Payments0, PaymentRow
  <1> QED BY <1>1 DEF Payments0, SetStatus

\* Writing PaymentEvent rows keeps the counts natural numbers.
LEMMA LogEventsType ==
  ASSUME Events0, NEW p \in Payments, NEW S, LogEvents(p, S)
  PROVE  Events0'
  <1>1. [s \in PaymentEventStatus |->
           IF s \in S THEN event[p][s] + 1 ELSE event[p][s]]
              \in [PaymentEventStatus -> Nat]
    BY DEF Events0
  <1> QED BY <1>1 DEF Events0, LogEvents

\* Publishing a message keeps the queues counts of messages.
LEMMA PublishType ==
  ASSUME Queues0, NEW q \in Queues, NEW p \in Payments, Publish(q, p)
  PROVE  Queues0'
  BY DEF Queues0, Publish

\* The type invariant, conjunct by conjunct, as the later steps cite it.
LEMMA TypeParts ==
  TypeOK <=> /\ Requests0 /\ Handlers0 /\ Payments0 /\ Events0 /\ Queues0
             /\ orderStatus \in [Orders -> OrderStatus]
             /\ balance \in [Users -> 0 .. MaxBalance]
             /\ cartStale \subseteq Users
             /\ idem \in [Users -> [Keys -> Payments \cup {None}]]
             /\ faults \in [FaultKinds -> Nat]
             /\ published \subseteq Payments
             /\ clobbered \subseteq Payments
             /\ raced \subseteq Orders
             /\ funds \in [Users -> Int]
  BY DEF TypeOK, Requests0, Handlers0, Payments0, Events0, Queues0

\* Spending a fault, or none, keeps the counters natural.
LEMMA FaultType ==
  ASSUME faults \in [FaultKinds -> Nat],
         (\E k \in FaultKinds : Fault(k)) \/ NoFault
  PROVE  faults' \in [FaultKinds -> Nat]
  BY DEF Fault, NoFault

----------------------------------------------------------------------------
(* Type correctness: each action in turn, given the coherent state. *)

\* Every step of a checkout request (createAndQueuePayment) keeps the types.
LEMMA RequestType ==
  ASSUME IInv, NEW r \in Requests, Pay(r) \/ RequestStep(r)
  PROVE  TypeOK'
  <1> USE DEF checkoutFrame
  <1>0. TypeOK
    BY DEF IInv
  <1>a. Requests0 /\ Payments0 /\ Events0 /\ Queues0
    BY <1>0, TypeParts
  <1>b. InFlight(r) => /\ request[r].user \in Users
                       /\ request[r].order \in Orders
                       /\ request[r].key \in Keys
    BY DEF IInv, Coherent, RequestsKnow, RequestKnows
  <1>c. request[r].pc \in {"emit", "store"} => request[r].pay \in Payments
    BY DEF IInv, Coherent, RequestsKnow, RequestKnows
  <1>f. faults' \in [FaultKinds -> Nat]
    <2>1. (\E k \in FaultKinds : Fault(k)) \/ NoFault
      BY DEF Pay, RequestStep, LookupKey, FindOrder, FindExisting, CreatePayment,
             EmitProcess, StoreKey, RequestFails, FaultKinds
    <2> QED BY <1>0, <2>1, FaultType, TypeParts
  <1>1. CASE Pay(r)
    <2>1. Requests0'
      BY <1>1, <1>a DEF Pay, Requests0, RequestState, RequestPc
    <2> QED BY <1>0, <1>1, <1>f, <2>1 DEF Pay, TypeOK, Requests0
  <1>2. CASE LookupKey(r)
    <2>1. Requests0'
      BY <1>2, <1>a, GotoType DEF LookupKey, RequestPc
    <2> QED BY <1>0, <1>2, <1>f, <2>1 DEF LookupKey, TypeOK, Requests0
  <1>3. CASE FindOrder(r)
    <2>1. Requests0'
      BY <1>3, <1>a, GotoType DEF FindOrder, RequestPc
    <2> QED BY <1>0, <1>3, <1>f, <2>1 DEF FindOrder, TypeOK, Requests0
  <1>4. CASE FindExisting(r)
    <2>1. Requests0'
      BY <1>4, <1>a, GotoType, GotoWithType
         DEF FindExisting, RequestPc, AfterExisting, LivePayments
    <2> QED BY <1>0, <1>4, <1>f, <2>1 DEF FindExisting, TypeOK, Requests0
  <1>5. CASE CreatePayment(r)
    <2>1. PICK p \in Payments :
             /\ payment' = [payment EXCEPT ![p] =
                   [status |-> "QUEUED", order |-> request[r].order,
                    attempts |-> 0]]
             /\ LogEvents(p, {"CREATED"})
             /\ GotoWith(r, "emit", p) \/ Goto(r, "failed")
      BY <1>5 DEF CreatePayment
    <2>2. Requests0'
      BY <1>a, <2>1, GotoType, GotoWithType DEF RequestPc
    <2>3. Events0'
      BY <1>a, <2>1, LogEventsType
    <2>4. request[r].order \in Orders
      BY <1>5, <1>b DEF CreatePayment, InFlight
    <2>5. Payments0'
      BY <1>a, <2>1, <2>4, LimitAssumption DEF Payments0, PaymentRow, PaymentStatus
    <2>6. raced' \subseteq Orders
      BY <1>0, <1>5, <2>4 DEF CreatePayment, TypeOK
    <2>7. UNCHANGED << idem, queue, published, orderStatus, balance, cartStale,
                       handler, clobbered, funds >>
      BY <1>5 DEF CreatePayment
    <2> QED BY <1>0, <1>f, <2>2, <2>3, <2>5, <2>6, <2>7
            DEF TypeOK, Requests0, Events0, Payments0
  <1>6. CASE EmitProcess(r)
    <2>1. Requests0'
      BY <1>6, <1>a, GotoType DEF EmitProcess, RequestPc
    <2>2. Queues0' /\ published' \subseteq Payments
      <3>1. request[r].pay \in Payments
        BY <1>6, <1>c DEF EmitProcess
      <3>2. CASE UNCHANGED << queue, published >>
        BY <1>0, <3>2 DEF Queues0, TypeOK
      <3>3. CASE /\ Publish("process", request[r].pay)
                 /\ published' = published \cup {request[r].pay}
        BY <1>0, <1>a, <3>1, <3>3, PublishType DEF TypeOK, Queues
      <3> QED BY <1>6, <3>2, <3>3 DEF EmitProcess
    <2> QED BY <1>0, <1>6, <1>f, <2>1, <2>2
            DEF EmitProcess, TypeOK, Requests0, Queues0
  <1>7. CASE StoreKey(r)
    <2>1. Requests0'
      BY <1>7, <1>a, GotoType DEF StoreKey, RequestPc
    <2>2. idem' \in [Users -> [Keys -> Payments \cup {None}]]
      <3>1. idem \in [Users -> [Keys -> Payments \cup {None}]]
        BY <1>0 DEF TypeOK
      <3>2. /\ request[r].user \in Users /\ request[r].key \in Keys
            /\ request[r].pay \in Payments
        BY <1>7, <1>b, <1>c DEF StoreKey, InFlight
      <3>3. [idem[request[r].user] EXCEPT ![request[r].key] = request[r].pay]
               \in [Keys -> Payments \cup {None}]
        BY <3>1, <3>2
      <3>4. CASE CacheKey(r)
        BY <3>1, <3>2, <3>3, <3>4 DEF CacheKey
      <3>5. CASE UNCHANGED idem
        BY <3>1, <3>5
      <3> QED BY <1>7, <3>4, <3>5 DEF StoreKey
    <2> QED BY <1>0, <1>7, <1>f, <2>1, <2>2 DEF StoreKey, TypeOK, Requests0
  <1>8. CASE RequestFails(r)
    <2>1. Requests0'
      BY <1>8, <1>a, GotoType DEF RequestFails, RequestPc
    <2> QED BY <1>0, <1>8, <1>f, <2>1 DEF RequestFails, TypeOK, Requests0
  <1> QED BY <1>1, <1>2, <1>3, <1>4, <1>5, <1>6, <1>7, <1>8 DEF RequestStep

\* Every step of a message handler (PaymentProcessor) keeps the types.
LEMMA HandlerType ==
  ASSUME IInv, NEW h \in Handlers, HandlerStep(h)
  PROVE  TypeOK'
  <1> USE DEF workerFrame
  <1>0. TypeOK
    BY DEF IInv
  <1>a. Handlers0 /\ Payments0 /\ Events0 /\ Queues0
    BY <1>0, TypeParts
  <1>b. Busy(h) => Job(h) \in Payments
    BY <1>0 DEF IInv, Coherent, JobsPublished, TypeOK
  <1>c. Busy(h) => /\ payment[Job(h)].order \in Orders
                   /\ payment[Job(h)].attempts \in 0 .. MaxAttempts
    BY <1>a, <1>b DEF IInv, Coherent, JobsPublished, PublishedRows, RowsHaveOrders,
       Payments0, PaymentRow
  <1>d. Processable(Job(h)) /\ Busy(h) => payment[Job(h)].attempts < MaxAttempts
    BY <1>b DEF IInv, Coherent, QueuedHasAttemptLeft, Processable
  <1>e. QueueOf[h] \in Queues
    BY QueueAssumption
  <1>f. faults' \in [FaultKinds -> Nat]
    <2>1. (\E k \in FaultKinds : Fault(k)) \/ NoFault
      BY DEF HandlerStep, Deliver, ProcessIgnored, ProcessRefused,
             ProcessCompleted, ProcessAborted, RecordRead, RecordWrite,
             RecordFails, EmitRetry, InvalidateCart, Ack, Requeue, Answered,
             FaultKinds
    <2> QED BY <1>0, <2>1, FaultType, TypeParts
  <1>1. CASE Deliver(h)
    <2>1. Handlers0' /\ Queues0'
      BY <1>1, <1>a, <1>e, LimitAssumption
         DEF Deliver, Handlers0, HandlerState, HandlerPc, Queues0
    <2> QED BY <1>0, <1>1, <1>f, <2>1 DEF Deliver, TypeOK, Handlers0, Queues0
  <1>2. CASE ProcessIgnored(h)
    <2>1. Handlers0'
      BY <1>2, <1>a, ContinueType DEF ProcessIgnored, Answered, HandlerPc
    <2> QED BY <1>0, <1>2, <1>f, <2>1 DEF ProcessIgnored, TypeOK, Handlers0
  <1>3. CASE ProcessRefused(h)
    <2>1. Handlers0'
      BY <1>3, <1>a, ContinueType DEF ProcessRefused, Answered, HandlerPc
    <2>2. Busy(h)
      BY <1>3 DEF ProcessRefused, At, Busy
    <2>3. Payments0'
      <3>1. PICK n \in 0 .. MaxAttempts : SetStatus(Job(h), "FAILED", n)
        BY <1>3, <1>c, <1>d, <2>2, LimitAssumption DEF ProcessRefused
      <3> QED BY <1>a, <1>b, <2>2, <3>1, SetStatusType DEF PaymentStatus
    <2>4. Events0'
      BY <1>3, <1>a, <1>b, <2>2, LogEventsType DEF ProcessRefused
    <2> QED BY <1>0, <1>3, <1>f, <2>1, <2>3, <2>4
            DEF ProcessRefused, TypeOK, Handlers0, Payments0, Events0
  <1>4. CASE ProcessCompleted(h)
    <2>1. Handlers0'
      BY <1>4, <1>a, ContinueType DEF ProcessCompleted, Answered, HandlerPc
    <2>2. Busy(h) /\ Processable(Job(h))
      BY <1>4 DEF ProcessCompleted, At, Busy
    <2>3. Payments0'
      <3>1. PICK n \in 0 .. MaxAttempts : SetStatus(Job(h), "SUCCESSED", n)
        BY <1>4, <1>c, <1>d, <2>2, LimitAssumption DEF ProcessCompleted
      <3> QED BY <1>a, <1>b, <2>2, <3>1, SetStatusType DEF PaymentStatus
    <2>4. Events0'
      BY <1>4, <1>a, <1>b, <2>2, LogEventsType DEF ProcessCompleted
    <2>5. Payer(Job(h)) \in Users /\ Price(Job(h)) \in Nat
      BY <1>c, <2>2, OrderAssumption DEF Payer, Price
    <2>6. balance' \in [Users -> 0 .. MaxBalance] /\ cartStale' \subseteq Users
      BY <1>0, <1>4, <2>5, LimitAssumption
         DEF ProcessCompleted, Debit, Covered, TypeOK
    <2>7. orderStatus' \in [Orders -> OrderStatus]
      BY <1>0, <1>4 DEF ProcessCompleted, Ship, TypeOK, OrderStatus
    <2>8. UNCHANGED << queue, published, clobbered, idem, request, raced, funds >>
      BY <1>4 DEF ProcessCompleted
    <2> QED BY <1>0, <1>f, <2>1, <2>3, <2>4, <2>6, <2>7, <2>8
            DEF TypeOK, Handlers0, Payments0, Events0
  <1>5. CASE ProcessAborted(h)
    <2>1. Handlers0'
      BY <1>5, <1>a, ContinueType DEF ProcessAborted, HandlerPc
    <2> QED BY <1>0, <1>5, <1>f, <2>1 DEF ProcessAborted, TypeOK, Handlers0
  <1>6. CASE RecordRead(h)
    <2>1. Handlers0'
      <3>1. Busy(h)
        BY <1>6 DEF RecordRead, At, Busy
      <3> QED BY <1>6, <1>a, <1>b, <1>c, <3>1, LimitAssumption
              DEF RecordRead, Handlers0, HandlerState, HandlerPc
    <2> QED BY <1>0, <1>6, <1>f, <2>1 DEF RecordRead, TypeOK, Handlers0
  <1>7. CASE RecordWrite(h)
    <2>1. Handlers0'
      BY <1>7, <1>a, ContinueType DEF RecordWrite, HandlerPc
    <2>2. Busy(h)
      BY <1>7 DEF RecordWrite, At, Busy
    <2>3. handler[h].seen + 1 \in 0 .. MaxAttempts
      BY <1>7, <1>a, LimitAssumption
         DEF RecordWrite, IInv, Coherent, JobsPublished, Handlers0, HandlerState
    <2>4. Payments0'
      <3>1. PICK st \in PaymentStatus :
                SetStatus(Job(h), st, handler[h].seen + 1)
        BY <1>7 DEF RecordWrite, PaymentStatus
      <3> QED BY <1>a, <1>b, <2>2, <2>3, <3>1, SetStatusType
    <2>5. Events0'
      BY <1>7, <1>a, <1>b, <2>2, LogEventsType DEF RecordWrite
    <2>6. clobbered' \subseteq Payments
      BY <1>0, <1>7, <1>b, <2>2 DEF RecordWrite, TypeOK
    <2> QED BY <1>0, <1>7, <1>f, <2>1, <2>4, <2>5, <2>6
            DEF RecordWrite, TypeOK, Handlers0, Payments0, Events0
  <1>8. CASE RecordFails(h)
    <2>1. Handlers0'
      BY <1>8, <1>a, ContinueType DEF RecordFails, HandlerPc
    <2> QED BY <1>0, <1>8, <1>f, <2>1 DEF RecordFails, TypeOK, Handlers0
  <1>9. CASE EmitRetry(h)
    <2>1. Handlers0'
      BY <1>9, <1>a, ContinueType DEF EmitRetry, HandlerPc
    <2>2. Busy(h)
      BY <1>9 DEF EmitRetry, At, Busy
    <2>3. Queues0'
      <3>1. CASE UNCHANGED queue
        BY <1>a, <3>1 DEF Queues0
      <3>2. CASE RetryMessage(Job(h))
        BY <1>a, <1>b, <2>2, <3>2, PublishType DEF RetryMessage, Queues
      <3> QED BY <1>9, <3>1, <3>2 DEF EmitRetry
    <2> QED BY <1>0, <1>9, <1>f, <2>1, <2>3 DEF EmitRetry, TypeOK, Handlers0, Queues0
  <1>10. CASE InvalidateCart(h)
    <2>1. Handlers0'
      BY <1>10, <1>a, ContinueType DEF InvalidateCart, HandlerPc
    <2>2. cartStale' \subseteq Users
      BY <1>0, <1>10 DEF InvalidateCart, TypeOK
    <2> QED BY <1>0, <1>10, <1>f, <2>1, <2>2 DEF InvalidateCart, TypeOK, Handlers0
  <1>11. CASE Ack(h)
    <2>1. Handlers0'
      BY <1>11, <1>a, ReleaseType DEF Ack
    <2> QED BY <1>0, <1>11, <1>f, <2>1 DEF Ack, TypeOK, Handlers0
  <1>12. CASE Requeue(h)
    <2>1. Handlers0'
      BY <1>12, <1>a, ReleaseType DEF Requeue
    <2>2. Queues0'
      BY <1>12, <1>a, <1>b, <1>e, PublishType DEF Requeue, Redeliver, At, Busy
    <2> QED BY <1>0, <1>12, <1>f, <2>1, <2>2 DEF Requeue, TypeOK, Handlers0, Queues0
  <1> QED BY <1>1, <1>2, <1>3, <1>4, <1>5, <1>6, <1>7, <1>8, <1>9, <1>10, <1>11,
             <1>12 DEF HandlerStep

\* Every step of the system keeps the types.
LEMMA TypeStep == IInv /\ [Next]_vars => TypeOK'
  <1> SUFFICES ASSUME IInv, [Next]_vars PROVE TypeOK'
    OBVIOUS
  <1>0. TypeOK
    BY DEF IInv
  <1>1. CASE \E r \in Requests : Pay(r) \/ RequestStep(r)
    BY <1>1, RequestType
  <1>2. CASE \E u \in Users, k \in Keys : ExpireKey(u, k)
    <2>1. PICK u \in Users, k \in Keys : ExpireKey(u, k)
      BY <1>2
    <2>2. [idem[u] EXCEPT ![k] = None] \in [Keys -> Payments \cup {None}]
      BY <1>0 DEF TypeOK
    <2>3. idem' \in [Users -> [Keys -> Payments \cup {None}]]
      BY <1>0, <2>1, <2>2 DEF ExpireKey, TypeOK
    <2> QED BY <1>0, <2>1, <2>3 DEF ExpireKey, TypeOK, NoFault, checkoutFrame
  <1>3. CASE \E h \in Handlers : HandlerStep(h)
    BY <1>3, HandlerType
  <1>4. CASE \E u \in Users, a \in MoveAmounts : BalanceCharge(u, a) \/ Credit(u, a)
    <2>1. /\ balance' \in [Users -> 0 .. MaxBalance]
          /\ funds' \in [Users -> Int]
      BY <1>0, <1>4, LimitAssumption
         DEF BalanceCharge, Chargeable, Credit, Creditable, TypeOK
    <2>2. UNCHANGED walletFrame
      BY <1>4 DEF BalanceCharge, Credit
    <2> QED BY <1>0, <2>1, <2>2 DEF walletFrame, TypeOK
  <1>5. CASE Crash
    <2>1. Handlers0'
      BY <1>0, <1>5, TypeParts, LimitAssumption
         DEF Crash, Handlers0, HandlerState, HandlerPc, Job
    <2>2. Requests0'
      <3>1. \A r \in Requests : request[r] \in RequestState
        BY <1>0, TypeParts DEF Requests0
      <3>2. \A r \in Requests : [request[r] EXCEPT !.pc = "failed"] \in RequestState
        BY <3>1 DEF RequestState, RequestPc
      <3> QED BY <1>5, <3>1, <3>2 DEF Crash, Requests0
    <2>3. faults' \in [FaultKinds -> Nat]
      BY <1>0, <1>5, FaultType, TypeParts DEF Crash, FaultKinds
    <2> QED BY <1>0, <1>5, <2>1, <2>2, <2>3 DEF Crash, TypeOK, Handlers0, Requests0
  <1>6. CASE UNCHANGED vars
    BY <1>0, <1>6 DEF vars, TypeOK
  <1> QED BY <1>1, <1>2, <1>3, <1>4, <1>5, <1>6 DEF Next

----------------------------------------------------------------------------
(* What a step may do to one payment row. *)

RowCreated(p) ==
    /\ ~Exists(p)
    /\ payment'[p].status = "QUEUED"
    /\ payment'[p].attempts = 0
    /\ payment'[p].order \in Orders

RowWritten(p) ==
    /\ Exists(p) /\ p \in published
    /\ payment'[p].status \in PaymentStatus
    /\ payment'[p].order = payment[p].order
    /\ payment'[p].status = "QUEUED" => payment'[p].attempts < MaxAttempts

RowStep(p) == payment'[p] = payment[p] \/ RowCreated(p) \/ RowWritten(p)

\* A row update writes one row, keeps its order and its existence.
LEMMA SetStatusRow ==
  ASSUME IInv, NEW h \in Handlers, Busy(h), NEW st \in PaymentStatus, NEW n,
         SetStatus(Job(h), st, n), st = "QUEUED" => n < MaxAttempts,
         NEW p \in Payments
  PROVE  RowStep(p)
  <1>1. Job(h) \in published /\ Exists(Job(h)) /\ Job(h) \in Payments
    BY TypeParts DEF IInv, Coherent, JobsPublished, PublishedRows
  <1>2. payment \in [Payments -> PaymentRow]
    BY TypeParts DEF IInv, Payments0
  <1> QED BY <1>1, <1>2 DEF SetStatus, RowStep, RowWritten

\* What any step may do to a payment row: nothing, the insert of a checkout,
\* or an update by a handler that holds the row's message.
LEMMA RowSteps ==
  ASSUME IInv, [Next]_vars, NEW p \in Payments
  PROVE  RowStep(p)
  <1>1. CASE UNCHANGED payment
    BY <1>1 DEF RowStep
  <1>2. CASE \E r \in Requests : CreatePayment(r)
    <2>1. PICK r \in Requests : CreatePayment(r)
      BY <1>2
    <2>2. request[r].order \in Orders
      BY <2>1 DEF CreatePayment, IInv, Coherent, RequestsKnow, RequestKnows,
         InFlight
    <2>3. payment \in [Payments -> PaymentRow]
      BY TypeParts DEF IInv, Payments0
    <2> QED BY <2>1, <2>2, <2>3 DEF CreatePayment, RowStep, RowCreated
  <1>3. CASE \E h \in Handlers : ProcessRefused(h)
    <2>1. PICK h \in Handlers : Busy(h) /\ \E n : SetStatus(Job(h), "FAILED", n)
      BY <1>3 DEF ProcessRefused, At, Busy
    <2> QED BY <2>1, SetStatusRow DEF PaymentStatus
  <1>4. CASE \E h \in Handlers : ProcessCompleted(h)
    <2>1. PICK h \in Handlers : Busy(h) /\ \E n : SetStatus(Job(h), "SUCCESSED", n)
      BY <1>4 DEF ProcessCompleted, At, Busy
    <2> QED BY <2>1, SetStatusRow DEF PaymentStatus
  <1>5. CASE \E h \in Handlers : RecordWrite(h)
    <2>1. PICK h \in Handlers : RecordWrite(h)
      BY <1>5
    <2>2. Busy(h)
      BY <2>1 DEF RecordWrite, At, Busy
    <2>3. PICK st \in PaymentStatus :
             /\ SetStatus(Job(h), st, handler[h].seen + 1)
             /\ st = "QUEUED" => handler[h].seen + 1 < MaxAttempts
      BY <2>1 DEF RecordWrite, ShouldRetry, PaymentStatus
    <2> QED BY <2>2, <2>3, SetStatusRow
  <1> QED
    BY <1>1, <1>2, <1>3, <1>4, <1>5
       DEF Next, vars, Pay, RequestStep, LookupKey, FindOrder, FindExisting,
           EmitProcess, StoreKey, RequestFails, ExpireKey, HandlerStep, Deliver,
           ProcessIgnored, ProcessAborted, RecordRead, RecordFails, EmitRetry,
           InvalidateCart, Ack, Requeue, BalanceCharge, Credit, walletFrame, Crash

\* Only EmitProcess adds to the published payments, and never one without row.
LEMMA PublishedGrows ==
  ASSUME IInv, [Next]_vars
  PROVE  /\ published \subseteq published'
         /\ \A p \in published' : Exists(p)
  <1>0. \A p \in published : Exists(p)
    BY DEF IInv, Coherent, PublishedRows
  <1>1. CASE UNCHANGED published
    BY <1>0, <1>1
  <1>2. CASE \E r \in Requests : EmitProcess(r)
    <2>1. PICK r \in Requests : EmitProcess(r)
      BY <1>2
    <2>2. Exists(request[r].pay)
      BY <2>1 DEF EmitProcess, IInv, Coherent, RequestsKnow, RequestKnows
    <2> QED BY <1>0, <2>1, <2>2 DEF EmitProcess
  <1> QED
    BY <1>1, <1>2
       DEF Next, vars, Pay, RequestStep, LookupKey, FindOrder, FindExisting,
           CreatePayment, StoreKey, RequestFails, ExpireKey, HandlerStep, Deliver,
           ProcessIgnored, ProcessRefused, ProcessCompleted, ProcessAborted,
           RecordRead, RecordWrite, RecordFails, EmitRetry, InvalidateCart, Ack,
           Requeue, workerFrame, BalanceCharge, Credit, walletFrame, Crash

\* Payment rows keep naming an order and QUEUED rows keep an attempt below
\* maxAttempts.
LEMMA RowsStep ==
  ASSUME IInv, [Next]_vars
  PROVE  RowsHaveOrders' /\ QueuedHasAttemptLeft' /\ PublishedRows'
  <1>1. \A p \in Payments : RowStep(p)
    BY RowSteps
  <1>2. \A p \in Payments : Exists(p) => Exists(p)'
    BY <1>1 DEF RowStep, RowCreated, RowWritten, Exists, PaymentStatus
  <1>3. RowsHaveOrders'
    BY <1>1 DEF IInv, Coherent, RowsHaveOrders, RowStep, RowCreated, RowWritten,
       Exists
  <1>4. QueuedHasAttemptLeft'
    BY <1>1, LimitAssumption DEF IInv, Coherent, QueuedHasAttemptLeft, RowStep,
       RowCreated, RowWritten, Queued
  <1>5. published' \subseteq Payments
    BY TypeStep DEF TypeOK
  <1>6. PublishedRows'
    BY <1>1, <1>2, <1>5, PublishedGrows
       DEF IInv, Coherent, PublishedRows, RowStep, RowCreated, RowWritten
  <1> QED BY <1>3, <1>4, <1>6

----------------------------------------------------------------------------
(* Messages and handlers stay about published payments. *)

QueueStep(q, p) == queue'[q][p] > 0 => queue[q][p] > 0 \/ p \in published'

HandlerStepsTo(h) ==
    /\ Busy(h)' => Job(h)' \in published'
    /\ At(h, "write")' => handler'[h].seen < MaxAttempts

\* A publication adds messages of a published payment only.
LEMMA PublishStep ==
  ASSUME TypeOK, NEW q \in Queues, NEW p \in published', Publish(q, p)
  PROVE  \A q1 \in Queues, p1 \in Payments : QueueStep(q1, p1)
  <1>1. queue \in [Queues -> [Payments -> Nat]]
    BY DEF TypeOK
  <1> QED BY <1>1 DEF Publish, QueueStep

\* Messages enter a queue only for published payments, and leave it only into
\* a handler.
LEMMA QueueSteps ==
  ASSUME IInv, [Next]_vars
  PROVE  \A q \in Queues, p \in Payments : QueueStep(q, p)
  <1>0. /\ TypeOK
        /\ queue \in [Queues -> [Payments -> Nat]]
        /\ \A h \in Handlers : Busy(h) => Job(h) \in published'
    BY PublishedGrows DEF IInv, TypeOK, Coherent, JobsPublished
  <1>1. CASE UNCHANGED queue
    BY <1>0, <1>1 DEF QueueStep
  <1>2. CASE \E r \in Requests : EmitProcess(r)
    <2>1. PICK r \in Requests : EmitProcess(r)
      BY <1>2
    <2>2. UNCHANGED queue \/ (/\ Publish("process", request[r].pay)
                              /\ request[r].pay \in published')
      BY <2>1 DEF EmitProcess
    <2> QED BY <1>0, <1>1, <2>2, PublishStep DEF Queues
  <1>3. CASE \E h \in Handlers : Deliver(h)
    <2>1. PICK h \in Handlers, p \in Payments :
             /\ queue[QueueOf[h]][p] > 0
             /\ queue' = [queue EXCEPT ![QueueOf[h]] =
                   [queue[QueueOf[h]] EXCEPT ![p] = queue[QueueOf[h]][p] - 1]]
      BY <1>3 DEF Deliver
    <2> QED BY <1>0, <2>1, QueueAssumption DEF QueueStep
  <1>4. CASE \E h \in Handlers : EmitRetry(h)
    <2>1. PICK h \in Handlers : EmitRetry(h)
      BY <1>4
    <2>2. UNCHANGED queue \/ Publish("retry", Job(h))
      BY <2>1 DEF EmitRetry, RetryMessage
    <2>3. Job(h) \in published'
      BY <1>0, <2>1 DEF EmitRetry, At, Busy
    <2> QED BY <1>0, <1>1, <2>2, <2>3, PublishStep DEF Queues
  <1>5. CASE \E h \in Handlers : Requeue(h)
    <2>1. PICK h \in Handlers : Requeue(h)
      BY <1>5
    <2>2. Job(h) \in published' /\ Publish(QueueOf[h], Job(h))
      BY <1>0, <2>1 DEF Requeue, Redeliver, At, Busy
    <2> QED BY <1>0, <2>2, PublishStep, QueueAssumption
  <1> QED
    BY <1>1, <1>2, <1>3, <1>4, <1>5
       DEF Next, vars, Pay, RequestStep, LookupKey, FindOrder, FindExisting,
           CreatePayment, StoreKey, RequestFails, ExpireKey, HandlerStep,
           ProcessIgnored, ProcessRefused, ProcessCompleted, ProcessAborted,
           RecordRead, RecordWrite, RecordFails, InvalidateCart, Ack,
           workerFrame, BalanceCharge, Credit, walletFrame, Crash

\* A busy handler keeps holding a published payment, and keeps an attempt for
\* the failure it is about to record.
LEMMA HandlerSteps ==
  ASSUME IInv, [Next]_vars, NEW h \in Handlers
  PROVE  HandlerStepsTo(h)
  <1>0. /\ Busy(h) => Job(h) \in published'
        /\ At(h, "write") => handler[h].seen < MaxAttempts
        /\ handler \in [Handlers -> HandlerState]
    BY PublishedGrows DEF IInv, TypeOK, Coherent, JobsPublished
  <1> USE DEF HandlerStepsTo, Busy, Job, At
  <1>1. CASE handler'[h] = handler[h]
    BY <1>0, <1>1
  <1>2. ASSUME NEW pc \in HandlerPc \ {"write"}, Busy(h), Continue(h, pc)
        PROVE  HandlerStepsTo(h)
    BY <1>0, <1>2 DEF Continue
  <1>3. CASE Release(h)
    BY <1>0, <1>3 DEF Release, Idle
  <1>4. CASE Deliver(h)
    <2>1. PICK p \in Payments :
             /\ queue[QueueOf[h]][p] > 0
             /\ handler' = [handler EXCEPT ![h] =
                              [pc |-> "process", job |-> p, seen |-> 0]]
      BY <1>4 DEF Deliver
    <2>2. p \in published'
      BY <2>1, PublishedGrows, QueueAssumption
         DEF IInv, Coherent, JobsPublished
    <2> QED BY <1>0, <2>1, <2>2
  <1>5. CASE RecordRead(h)
    <2>1. Job(h) \in Payments /\ Job(h) \in published'
      BY <1>0, <1>5 DEF RecordRead, IInv, TypeOK, Coherent, JobsPublished
    <2>2. Queued(Job(h)) => payment[Job(h)].attempts < MaxAttempts
      BY <2>1 DEF IInv, Coherent, QueuedHasAttemptLeft
    <2> QED BY <1>0, <1>5, <2>1, <2>2 DEF RecordRead, Recordable
  <1>6. CASE Crash
    BY <1>0, <1>6 DEF Crash
  <1>7. CASE HandlerStep(h)
    <2>1. CASE \/ ProcessIgnored(h) \/ ProcessRefused(h) \/ ProcessCompleted(h)
               \/ ProcessAborted(h) \/ RecordWrite(h) \/ RecordFails(h)
               \/ EmitRetry(h) \/ InvalidateCart(h)
      <3>1. \E pc \in HandlerPc \ {"write"} : Busy(h) /\ Continue(h, pc)
        BY <2>1 DEF ProcessIgnored, ProcessRefused, ProcessCompleted,
           ProcessAborted, RecordWrite, RecordFails, EmitRetry, InvalidateCart,
           Answered, HandlerPc
      <3> QED BY <1>2, <3>1
    <2> QED BY <1>3, <1>4, <1>5, <1>7, <2>1 DEF HandlerStep, Ack, Requeue
  <1>8. ASSUME NEW g \in Handlers, g # h, HandlerStep(g)
        PROVE  handler'[h] = handler[h]
    <2>1. \E v : handler' = [handler EXCEPT ![g] = v]
      BY <1>8 DEF HandlerStep, Deliver, ProcessIgnored, ProcessRefused,
         ProcessCompleted, ProcessAborted, RecordRead, RecordWrite, RecordFails,
         EmitRetry, InvalidateCart, Ack, Requeue, Answered, Continue, Release
    <2> QED BY <1>0, <1>8, <2>1
  <1>9. CASE UNCHANGED handler
    BY <1>1, <1>9
  <1> QED
    BY <1>1, <1>6, <1>7, <1>8, <1>9
       DEF Next, vars, Pay, RequestStep, LookupKey, FindOrder, FindExisting,
           CreatePayment, EmitProcess, StoreKey, RequestFails, ExpireKey,
           checkoutFrame, BalanceCharge, Credit, walletFrame

\* Every message, waiting or held by a handler, keeps naming a published
\* payment.
LEMMA JobsStep ==
  ASSUME IInv, [Next]_vars
  PROVE  JobsPublished'
  <1>1. \A q \in Queues, p \in Payments : queue'[q][p] > 0 => p \in published'
    BY QueueSteps, PublishedGrows
       DEF QueueStep, IInv, Coherent, JobsPublished
  <1> QED BY <1>1, HandlerSteps DEF JobsPublished, HandlerStepsTo

----------------------------------------------------------------------------
(* What requests and cached keys know stays true. *)

\* A request that stands still keeps what it knows: rows keep their orders.
LEMMA RequestStable ==
  ASSUME IInv, [Next]_vars, NEW r \in Requests, request'[r] = request[r]
  PROVE  RequestKnows(r)'
  <1>1. RequestKnows(r)
    BY DEF IInv, Coherent, RequestsKnow
  <1>2. request[r].pay \in Payments => RowStep(request[r].pay)
    BY RowSteps
  <1> QED BY <1>1, <1>2, PublishedGrows
      DEF RequestKnows, InFlight, RowStep, RowCreated, RowWritten, Exists,
          PaymentStatus

\* What a checkout request knows about its payment stays true while it awaits
\* Redis, PostgreSQL and RabbitMQ.
LEMMA RequestSteps ==
  ASSUME IInv, [Next]_vars, NEW r \in Requests
  PROVE  RequestKnows(r)'
  <1>0. /\ RequestKnows(r)
        /\ request \in [Requests -> RequestState]
        /\ payment \in [Payments -> PaymentRow]
    BY DEF IInv, TypeOK, Coherent, RequestsKnow
  <1> USE DEF RequestKnows, InFlight
  <1>1. CASE request'[r] = request[r]
    BY <1>1, RequestStable
  <1>2. CASE Pay(r)
    BY <1>0, <1>2 DEF Pay
  <1>3. CASE LookupKey(r)
    BY <1>0, <1>3 DEF LookupKey, Goto
  <1>4. CASE FindOrder(r)
    BY <1>0, <1>4 DEF FindOrder, Payable, Goto
  <1>5. CASE FindExisting(r)
    <2>1. CASE Goto(r, "create")
      BY <1>0, <1>5, <2>1 DEF FindExisting, Goto
    <2>2. ASSUME NEW p \in LivePayments(request[r].order),
                 GotoWith(r, AfterExisting(p), p)
          PROVE  RequestKnows(r)'
      <3>1. /\ p \in Payments /\ Exists(p)
            /\ payment[p].order = request[r].order
            /\ payment[p].status \in {"QUEUED", "SUCCESSED"}
        BY <1>0, <2>2 DEF LivePayments, Live, PaymentRow, PaymentStatus, Exists
      <3>2. ~Queued(p) => p \in published
        BY <3>1 DEF IInv, Coherent, PublishedRows, Queued
      <3>3. /\ request'[r].pc \in {"emit", "store"}
            /\ request'[r].pc = "store" => p \in published
            /\ request'[r].pay = p
            /\ request'[r].order = request[r].order
            /\ request'[r].user = request[r].user
            /\ request'[r].key = request[r].key
        BY <1>0, <2>2, <3>2 DEF GotoWith, AfterExisting
      <3> QED BY <1>0, <1>5, <3>1, <3>3 DEF FindExisting, Exists
    <2> QED BY <1>5, <2>1, <2>2 DEF FindExisting
  <1>6. CASE CreatePayment(r)
    <2>1. PICK p \in Payments :
             /\ ~Exists(p)
             /\ payment' = [payment EXCEPT ![p] =
                   [status |-> "QUEUED", order |-> request[r].order,
                    attempts |-> 0]]
             /\ GotoWith(r, "emit", p) \/ Goto(r, "failed")
      BY <1>6 DEF CreatePayment
    <2>2. /\ payment'[p].status # "NONE"
          /\ payment'[p].order = request[r].order
      BY <1>0, <2>1
    <2>3. CASE GotoWith(r, "emit", p)
      <3>1. /\ request'[r].pc = "emit" /\ request'[r].pay = p
            /\ request'[r].order = request[r].order
            /\ request'[r].user = request[r].user
            /\ request'[r].key = request[r].key
        BY <1>0, <2>3 DEF GotoWith
      <3> QED BY <1>0, <1>6, <2>2, <3>1 DEF CreatePayment, Exists
    <2>4. CASE Goto(r, "failed")
      BY <1>0, <2>4 DEF Goto
    <2> QED BY <2>1, <2>3, <2>4
  <1>7. CASE EmitProcess(r)
    <2>1. \/ Goto(r, "failed")
          \/ Goto(r, "store") /\ request[r].pay \in published'
      BY <1>7 DEF EmitProcess
    <2>2. UNCHANGED payment
      BY <1>7 DEF EmitProcess
    <2>3. CASE Goto(r, "failed")
      BY <1>0, <2>3 DEF Goto
    <2>4. CASE Goto(r, "store") /\ request[r].pay \in published'
      <3>1. request'[r] = [request[r] EXCEPT !.pc = "store"]
        BY <1>0, <2>4 DEF Goto
      <3> QED BY <1>0, <1>7, <2>2, <2>4, <3>1 DEF EmitProcess, Exists, RequestState
    <2> QED BY <2>1, <2>3, <2>4
  <1>8. CASE StoreKey(r)
    <2>1. Goto(r, "done") \/ Goto(r, "failed")
      BY <1>8 DEF StoreKey
    <2>2. CASE Goto(r, "done")
      BY <1>0, <2>2 DEF Goto
    <2>3. CASE Goto(r, "failed")
      BY <1>0, <2>3 DEF Goto
    <2> QED BY <2>1, <2>2, <2>3
  <1>9. CASE RequestFails(r)
    BY <1>0, <1>9 DEF RequestFails, Goto
  <1>10. CASE Crash
    BY <1>0, <1>1, <1>10 DEF Crash
  <1>11. ASSUME NEW q \in Requests, q # r, Pay(q) \/ RequestStep(q)
         PROVE  request'[r] = request[r]
    <2>1. \E v : request' = [request EXCEPT ![q] = v]
      BY <1>11 DEF Pay, RequestStep, LookupKey, FindOrder, FindExisting,
         CreatePayment, EmitProcess, StoreKey, RequestFails, Goto, GotoWith
    <2> QED BY <1>0, <1>11, <2>1
  <1>12. CASE UNCHANGED request
    BY <1>1, <1>12
  <1>13. CASE RequestStep(r)
    BY <1>3, <1>4, <1>5, <1>6, <1>7, <1>8, <1>9, <1>13 DEF RequestStep
  <1> QED
    BY <1>1, <1>2, <1>10, <1>11, <1>12, <1>13
       DEF Next, vars, ExpireKey, HandlerStep, Deliver, ProcessIgnored,
           ProcessRefused, ProcessCompleted, ProcessAborted, RecordRead,
           RecordWrite, RecordFails, EmitRetry, InvalidateCart, Ack, Requeue,
           workerFrame, BalanceCharge, Credit, walletFrame

\* A key is stored only after its payment was published, and the payment's
\* order never changes hands.
LEMMA KeySteps ==
  ASSUME IInv, [Next]_vars
  PROVE  KeyMeansPublished'
  <1>0. /\ TypeOK /\ KeyMeansPublished
        /\ idem \in [Users -> [Keys -> Payments \cup {None}]]
        /\ published \subseteq Payments
    BY DEF IInv, TypeOK, Coherent
  <1>1. \A p \in published : p \in published' /\ Payer(p)' = Payer(p)
    <2>1. \A p \in published : RowStep(p) /\ Exists(p)
      BY <1>0, RowSteps DEF IInv, Coherent, PublishedRows
    <2> QED BY <2>1, PublishedGrows DEF RowStep, RowCreated, RowWritten, Payer
  <1>2. CASE UNCHANGED idem
    BY <1>0, <1>1, <1>2 DEF KeyMeansPublished
  <1>3. ASSUME NEW r \in Requests, StoreKey(r), CacheKey(r)
        PROVE  KeyMeansPublished'
    <2>1. /\ request[r].user \in Users /\ request[r].key \in Keys
          /\ request[r].pay \in published
          /\ Payer(request[r].pay) = request[r].user
      BY <1>3 DEF StoreKey, IInv, Coherent, RequestsKnow, RequestKnows, InFlight,
         Payer
    <2>2. \A u \in Users, k \in Keys :
             idem'[u][k] = idem[u][k] \/ (/\ idem'[u][k] = request[r].pay
                                          /\ u = request[r].user)
      BY <1>0, <1>3, <2>1 DEF CacheKey
    <2> QED BY <1>0, <1>1, <2>1, <2>2 DEF KeyMeansPublished
  <1>4. ASSUME NEW u \in Users, NEW k \in Keys, ExpireKey(u, k)
        PROVE  KeyMeansPublished'
    <2>1. \A v \in Users, l \in Keys :
             idem'[v][l] = idem[v][l] \/ idem'[v][l] = None
      BY <1>0, <1>4 DEF ExpireKey
    <2> QED BY <1>0, <1>1, <2>1 DEF KeyMeansPublished
  <1> QED
    BY <1>2, <1>3, <1>4
       DEF Next, vars, Pay, RequestStep, LookupKey, FindOrder, FindExisting,
           CreatePayment, EmitProcess, StoreKey, RequestFails, HandlerStep,
           Deliver, ProcessIgnored, ProcessRefused, ProcessCompleted,
           ProcessAborted, RecordRead, RecordWrite, RecordFails, EmitRetry,
           InvalidateCart, Ack, Requeue, workerFrame, BalanceCharge, Credit,
           walletFrame, Crash

----------------------------------------------------------------------------
(* The inductive invariant holds, and with it the parts the runs check. *)

\* Every step of the system preserves the inductive invariant.
LEMMA StepIInv == IInv /\ [Next]_vars => IInv'
  BY TypeStep, RowsStep, JobsStep, RequestSteps, KeySteps
     DEF IInv, Coherent, RequestsKnow

\* Every reachable state has the types and the coherence the proofs rest on.
THEOREM Coherence == Spec => []IInv
  BY InitIInv, StepIInv, PTL DEF Spec

\* Type correctness, with every balance between 0 and the limit: no
\* interleaving of charges, credits and settlements overdraws or overflows it.
THEOREM TypeCorrect == Spec => []TypeOK
  <1>1. IInv => TypeOK
    BY DEF IInv
  <1> QED BY <1>1, Coherence, PTL

\* A cached idempotency key always names a published payment of its user.
THEOREM KeysArePublished == Spec => []KeyMeansPublished
  <1>1. IInv => KeyMeansPublished
    BY DEF IInv, Coherent
  <1> QED BY <1>1, Coherence, PTL

\* A QUEUED payment always has an attempt left: the settlement's maxAttempts
\* branch is dead code.
THEOREM QueuedHasAttempts == Spec => []QueuedHasAttemptLeft
  <1>1. IInv => QueuedHasAttemptLeft
    BY DEF IInv, Coherent
  <1> QED BY <1>1, Coherence, PTL

============================================================================
