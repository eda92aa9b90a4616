--------------------------- MODULE ContractProofs ---------------------------
(***************************************************************************)
(* The payment code implements PaymentContract, races, retries and faults  *)
(* included: every step maps to a step of the contract or to a stutter.    *)
(* And every unit of money that moves is accounted for.                    *)
(***************************************************************************)
EXTENDS SettlementProofs, SumProofs

PhaseFn == [p \in Payments |-> Phase(p)]
PaysForFn == [p \in Payments |-> payment[p].order]
ShippedSet == {o \in Orders : orderStatus[o] = "SHIPPING"}
BillFn == [o \in Orders |-> [user |-> Owner[o], amount |-> Amount[o]]]
SpoiledSet == {o \in Orders : ~Clean(o)}

\* The bill of an order is its owner's.
LEMMA Bills ==
  \A o \in Orders : BillFn[o].user = Owner[o] /\ BillFn[o].amount = Amount[o]
  BY DEF BillFn

\* An overwritten payment stays a payment of its order.
LEMMA ClobberedOrders ==
  ASSUME IInv, SettlementInv, [Next]_vars, NEW p \in clobbered
  PROVE  /\ p \in Payments /\ Exists(p)
         /\ payment'[p].order = payment[p].order
  <1>1. p \in Payments /\ Exists(p) /\ RowStep(p)
    BY RowSteps DEF SettlementInv, ClobberedPublished, IInv, TypeOK, Coherent,
       PublishedRows
  <1> QED BY <1>1 DEF RowStep, RowCreated, RowWritten

\* A step that adds to neither race spoils no order.
LEMMA SpoiledStays ==
  ASSUME IInv, SettlementInv, [Next]_vars, UNCHANGED << raced, clobbered >>
  PROVE  UNCHANGED SpoiledSet
  BY ClobberedOrders DEF SpoiledSet, Clean

\* What the contract sees of a step that writes one payment's row.
LEMMA PhaseOfWrite ==
  ASSUME TypeOK', NEW p \in Payments, NEW st \in {"queued", "succeeded", "failed"},
         Phase(p)' = st, \A q \in Payments \ {p} : payment'[q] = payment[q]
  PROVE  PhaseFn' = [PhaseFn EXCEPT ![p] = st]
  <1>1. \A q \in Payments \ {p} : Phase(q)' = Phase(q)
    BY DEF Phase
  <1> HIDE DEF Phase
  <1> QED BY <1>1 DEF PhaseFn

\* A row update does not move a payment to another order.
LEMMA OrderOfWrite ==
  ASSUME NEW p \in Payments,
         payment'[p].order = payment[p].order,
         \A q \in Payments \ {p} : payment'[q] = payment[q]
  PROVE  UNCHANGED PaysForFn
  BY DEF PaysForFn

\* Balances move only in a settlement, a charge or a credit.
LEMMA BalanceMoves ==
  ASSUME IInv, [Next]_vars
  PROVE  \/ UNCHANGED balance
         \/ \E h \in Handlers : ProcessCompleted(h)
         \/ \E u \in Users : /\ balance'[u] \in Nat
                             /\ balance' = [balance EXCEPT ![u] = balance'[u]]
                             /\ UNCHANGED << payment, orderStatus >>
  <1>1. ASSUME NEW u \in Users, NEW a \in MoveAmounts,
               BalanceCharge(u, a) \/ Credit(u, a)
        PROVE  /\ balance'[u] \in Nat
               /\ balance' = [balance EXCEPT ![u] = balance'[u]]
               /\ UNCHANGED << payment, orderStatus >>
    <2>1. balance \in [Users -> 0 .. MaxBalance] /\ a \in Nat \ {0}
      BY LimitAssumption DEF IInv, TypeOK
    <2>2. \E n \in Nat : balance' = [balance EXCEPT ![u] = n]
      BY <1>1, <2>1, LimitAssumption
         DEF BalanceCharge, Chargeable, Credit, Creditable
    <2>3. UNCHANGED << payment, orderStatus >>
      BY <1>1 DEF BalanceCharge, Credit, walletFrame
    <2> QED BY <2>1, <2>2, <2>3
  <1> QED
    BY <1>1
       DEF Next, vars, Pay, RequestStep, LookupKey, FindOrder, FindExisting,
           CreatePayment, EmitProcess, StoreKey, RequestFails, ExpireKey,
           checkoutFrame, HandlerStep, Deliver, ProcessIgnored, ProcessRefused,
           ProcessAborted, RecordRead, RecordWrite, RecordFails, EmitRetry,
           InvalidateCart, Ack, Requeue, Crash

\* The insert of a checkout is the contract's submission of a payment.
LEMMA CreateMaps ==
  ASSUME IInv, SettlementInv, [Next]_vars, TypeOK',
         NEW r \in Requests, CreatePayment(r)
  PROVE  Contract!Next
  <1>1. PICK p \in Payments :
           /\ RowCreated(p)
           /\ \A q \in Payments \ {p} : Same(q)
           /\ UNCHANGED << orderStatus, clobbered >>
    BY CreateEffect
  <1>2. PICK o \in Orders :
           /\ o = payment'[p].order
           /\ raced' = IF LivePayments(o) = {} THEN raced ELSE raced \cup {o}
           /\ UNCHANGED balance
    <2>1. request[r].order \in Orders
      BY DEF CreatePayment, IInv, Coherent, RequestsKnow, RequestKnows, InFlight
    <2>2. PICK q \in Payments :
             payment' = [payment EXCEPT ![q] = [status |-> "QUEUED",
                          order |-> request[r].order, attempts |-> 0]]
      BY DEF CreatePayment
    <2>3. payment'[q].order = request[r].order /\ payment'[q].status = "QUEUED"
          /\ \A s \in Payments \ {q} : payment'[s] = payment[s]
      BY <2>2, TypeParts DEF IInv, Payments0
    <2>4. p = q
      BY <1>1, <2>3 DEF RowCreated, Exists
    <2> QED BY <2>1, <2>3, <2>4 DEF CreatePayment, checkoutFrame
  <1>3. PhaseFn[p] = "none"
    BY <1>1 DEF PhaseFn, Phase, RowCreated, Exists
  <1>4. PhaseFn' = [PhaseFn EXCEPT ![p] = "queued"]
    BY <1>1, PhaseOfWrite DEF RowCreated, Phase, Same
  <1>5. PaysForFn' = [PaysForFn EXCEPT ![p] = o]
    BY <1>1, <1>2 DEF PaysForFn, Same
  <1>6. LivePayments(o) =
           {q \in Payments : PhaseFn[q] \in {"queued", "succeeded"}
                             /\ PaysForFn[q] = o}
    <2>1. ASSUME NEW q \in Payments
          PROVE  PhaseFn[q] \in {"queued", "succeeded"} <=> Live(q)
      <3>1. payment[q].status \in {"NONE", "QUEUED", "SUCCESSED", "FAILED"}
        BY TypeParts DEF IInv, Payments0, PaymentRow, PaymentStatus
      <3> QED BY <3>1 DEF PhaseFn, Phase, Live, Exists
    <2> QED BY <2>1 DEF LivePayments, PaysForFn
  <1>7. SpoiledSet' = IF LivePayments(o) = {} THEN SpoiledSet
                      ELSE SpoiledSet \cup {o}
    <2>1. \A x \in Orders :
             (\A q \in clobbered' : payment'[q].order # x)
                <=> (\A q \in clobbered : payment[q].order # x)
      BY <1>1, ClobberedOrders
    <2> QED BY <1>2, <2>1 DEF SpoiledSet, Clean
  <1>8. Contract!Submit(p, o)
    BY <1>1, <1>2, <1>3, <1>4, <1>5, <1>6, <1>7, Bills
       DEF Contract!Submit, Contract!LiveFor, PhaseFn, PaysForFn, BillFn,
           SpoiledSet
  <1> QED BY <1>8 DEF Contract!Next

\* A row update that fails a QUEUED payment is the contract's failure.
LEMMA FailMaps ==
  ASSUME IInv, TypeOK', NEW p \in Payments, Queued(p),
         payment'[p].status = "FAILED", payment'[p].order = payment[p].order,
         \A q \in Payments \ {p} : Same(q),
         UNCHANGED << orderStatus, balance, SpoiledSet >>
  PROVE  Contract!Next
  <1>1. PhaseFn[p] = "queued"
    BY DEF PhaseFn, Phase, Queued
  <1>2. PhaseFn' = [PhaseFn EXCEPT ![p] = "failed"]
    BY PhaseOfWrite DEF Phase, Same
  <1>3. UNCHANGED PaysForFn
    BY OrderOfWrite DEF Same
  <1>4. Contract!Fail(p)
    BY <1>1, <1>2, <1>3, Bills
       DEF Contract!Fail, PhaseFn, PaysForFn, BillFn, SpoiledSet
  <1> QED BY <1>4 DEF Contract!Next

\* A settlement that takes the money is the contract's success.
LEMMA CompletedMaps ==
  ASSUME IInv, TypeOK', UNCHANGED SpoiledSet, NEW h \in Handlers,
         ProcessCompleted(h)
  PROVE  Contract!Next
  <1>0. PICK p \in Payments : p = Job(h)
    BY JobFacts DEF ProcessCompleted, At, Busy
  <1> DEFINE o == payment[p].order
  <1>1. /\ p \in Payments /\ o \in Orders /\ Queued(p)
        /\ payment'[p].status = "SUCCESSED" /\ payment'[p].order = o
        /\ \A q \in Payments \ {p} : Same(q)
        /\ orderStatus' = [orderStatus EXCEPT ![o] = "SHIPPING"]
    BY <1>0, CompletedEffect
       DEF ProcessCompleted, At, Busy, Completed, Ship, IInv, Coherent,
           RowsHaveOrders, Exists, Queued
  <1>2. /\ balance[Owner[o]] >= Amount[o]
        /\ balance' = [balance EXCEPT ![Owner[o]] = balance[Owner[o]] - Amount[o]]
    BY <1>0 DEF ProcessCompleted, Covered, Debit, Payer, Price
  <1>3. PhaseFn[p] = "queued"
    BY <1>1 DEF PhaseFn, Phase, Queued
  <1>4. PhaseFn' = [PhaseFn EXCEPT ![p] = "succeeded"]
    BY <1>1, PhaseOfWrite DEF Phase, Same
  <1>5. UNCHANGED PaysForFn
    BY <1>1, OrderOfWrite DEF Same
  <1>6. ShippedSet' = ShippedSet \cup {o}
    <2>1. orderStatus \in [Orders -> OrderStatus]
      BY DEF IInv, TypeOK
    <2> QED BY <1>1, <2>1 DEF ShippedSet
  <1>7. PaysForFn[p] = o /\ BillFn[o].user = Owner[o] /\ BillFn[o].amount = Amount[o]
    BY <1>1, Bills DEF PaysForFn
  <1>8. Contract!Succeed(p)
    BY <1>2, <1>3, <1>4, <1>5, <1>6, <1>7, Bills
       DEF Contract!Succeed, PhaseFn, PaysForFn, ShippedSet, BillFn, SpoiledSet
  <1> QED BY <1>1, <1>8 DEF Contract!Next

\* recordTechnicalFailure over a row that nobody has changed since it was read
\* is a failure or a stutter; over any other it is the contract's overwriting.
LEMMA RecordMaps ==
  ASSUME IInv, SettlementInv, [Next]_vars, TypeOK',
         NEW h \in Handlers, RecordWrite(h)
  PROVE  \/ Contract!Next
         \/ UNCHANGED << PhaseFn, PaysForFn, ShippedSet, balance, SpoiledSet >>
  <1>1. PICK p \in Payments : p = Job(h) /\ Exists(p)
    BY JobFacts DEF RecordWrite, At, Busy
  <1>2. /\ payment'[p].order = payment[p].order
        /\ payment'[p].status \in {"QUEUED", "FAILED"}
        /\ \A q \in Payments \ {p} : Same(q)
        /\ UNCHANGED << orderStatus, balance, raced >>
        /\ clobbered' = IF Changed(h) THEN clobbered \cup {p} ELSE clobbered
    BY <1>1, RecordedEffect DEF RecordWrite, Recorded
  <1>3. UNCHANGED << PaysForFn, ShippedSet >>
    BY <1>2, OrderOfWrite DEF Same, ShippedSet
  <1>4. CASE ~Changed(h)
    <2>1. Queued(p) /\ UNCHANGED SpoiledSet
      BY <1>1, <1>2, <1>4, SpoiledStays DEF Changed
    <2>2. CASE payment'[p].status = "FAILED"
      BY <1>2, <2>1, <2>2, FailMaps
    <2>3. CASE payment'[p].status = "QUEUED"
      <3>1. \A q \in Payments : Phase(q)' = Phase(q)
        BY <1>2, <2>1, <2>3 DEF Phase, Same, Queued
      <3>2. UNCHANGED PhaseFn
        BY <3>1 DEF PhaseFn
      <3> QED BY <1>2, <1>3, <2>1, <3>2
    <2> QED BY <1>2, <2>2, <2>3
  <1>5. CASE Changed(h)
    <2>1. PhaseFn[p] # "none"
      <3>1. payment[p].status \in {"QUEUED", "SUCCESSED", "FAILED"}
        BY <1>1, TypeParts DEF IInv, Payments0, PaymentRow, PaymentStatus, Exists
      <3> QED BY <3>1 DEF PhaseFn, Phase
    <2>2. PICK ph \in {"queued", "failed"} : Phase(p)' = ph
      BY <1>2 DEF Phase
    <2>3. PhaseFn' = [PhaseFn EXCEPT ![p] = ph]
      BY <1>2, <2>2, PhaseOfWrite DEF Same
    <2>4. SpoiledSet' = SpoiledSet \cup {payment[p].order}
      <3>1. payment[p].order \in Orders
        BY <1>1 DEF IInv, Coherent, RowsHaveOrders
      <3>2. \A x \in Orders :
               (\A q \in clobbered' : payment'[q].order # x)
                  <=> /\ \A q \in clobbered : payment[q].order # x
                      /\ payment[p].order # x
        BY <1>2, <1>5, ClobberedOrders
      <3> QED BY <1>2, <3>1, <3>2 DEF SpoiledSet, Clean
    <2>5. Contract!Overwrite(p)
      BY <1>2, <1>3, <2>1, <2>3, <2>4, Bills
         DEF Contract!Overwrite, PhaseFn, PaysForFn, ShippedSet, BillFn,
             SpoiledSet
    <2> QED BY <2>5 DEF Contract!Next
  <1> QED BY <1>4, <1>5

\* Every step is a step of the contract or a stutter.
LEMMA StepMaps ==
  ASSUME IInv, SettlementInv, [Next]_vars
  PROVE  [Contract!Next]_(Contract!contractVars)
  <1>1. TypeOK'
    BY TypeStep
  <1>s. ASSUME UNCHANGED << PhaseFn, PaysForFn, ShippedSet, balance, SpoiledSet >>
        PROVE  [Contract!Next]_(Contract!contractVars)
    BY <1>s, Bills DEF Contract!contractVars, PhaseFn, PaysForFn, ShippedSet,
       BillFn, SpoiledSet
  <1>2. ASSUME UNCHANGED << payment, orderStatus >>
        PROVE  UNCHANGED << PhaseFn, PaysForFn, ShippedSet >>
    BY <1>2 DEF PhaseFn, Phase, PaysForFn, ShippedSet
  <1>3. CASE \E r \in Requests : CreatePayment(r)
    BY <1>1, <1>3, CreateMaps
  <1>4. CASE \E h \in Handlers : ProcessRefused(h)
    <2>1. PICK h \in Handlers : ProcessRefused(h)
      BY <1>4
    <2>2. /\ Job(h) \in Payments /\ Refused(Job(h))
          /\ payment'[Job(h)].order = payment[Job(h)].order
          /\ \A q \in Payments \ {Job(h)} : Same(q)
          /\ UNCHANGED << orderStatus, balance, raced, clobbered >>
      BY <2>1, JobFacts, RefusedEffect DEF ProcessRefused, At, Busy
    <2>3. UNCHANGED SpoiledSet
      BY <2>2, SpoiledStays
    <2> QED BY <1>1, <2>2, <2>3, FailMaps DEF Refused
  <1>5. CASE \E h \in Handlers : ProcessCompleted(h)
    <2>1. UNCHANGED SpoiledSet
      BY <1>5, CompletedEffect, SpoiledStays
    <2> QED BY <1>1, <1>5, <2>1, CompletedMaps
  <1>6. CASE \E h \in Handlers : RecordWrite(h)
    BY <1>1, <1>6, <1>s, RecordMaps
  <1>7. CASE Quiet \/ UNCHANGED vars
    <2>1. /\ UNCHANGED << payment, orderStatus, raced, clobbered >>
          /\ UNCHANGED << PhaseFn, PaysForFn, ShippedSet, SpoiledSet >>
      BY <1>2, <1>7, SpoiledStays DEF Quiet, vars
    <2>2. CASE UNCHANGED balance
      BY <1>s, <2>1, <2>2
    <2>3. CASE \E u \in Users : /\ balance'[u] \in Nat
                                /\ balance' = [balance EXCEPT ![u] = balance'[u]]
      <3>1. \E u \in Users : Contract!Move(u)
        BY <2>1, <2>3, Bills
           DEF Contract!Move, PhaseFn, PaysForFn, ShippedSet, BillFn, SpoiledSet
      <3> QED BY <3>1 DEF Contract!Next
    <2> QED BY <1>5, <2>2, <2>3, BalanceMoves
  <1> QED BY <1>3, <1>4, <1>5, <1>6, <1>7, FiveEffects

\* The initial states of the system are initial states of the contract.
LEMMA InitMaps == Init => Contract!Init
  BY OrderAssumption DEF Init, Contract!Init, Phase, NoRow, Clean

\* The payment code implements its contract: an order that no race has hit has
\* one live payment at a time, its success and failure are final, and the
\* debit, the shipping and the success are one step.
THEOREM Refinement == Spec => ContractKept
  <1>1. IInv /\ SettlementInv /\ [Next]_vars
           => [Contract!Next]_(Contract!contractVars)
    BY StepMaps
  <1> QED BY <1>1, InitMaps, Coherence, Settlement, PTL
          DEF Spec, ContractKept, Contract!Spec

----------------------------------------------------------------------------
(* Every unit of money is accounted for. *)

\* Only a settlement, a charge or a credit changes what users paid in or have.
LEMMA FundsMove ==
  ASSUME [Next]_vars
  PROVE  \/ UNCHANGED << balance, funds >>
         \/ \E h \in Handlers : ProcessCompleted(h)
         \/ \E u \in Users, a \in MoveAmounts : BalanceCharge(u, a) \/ Credit(u, a)
  BY DEF Next, vars, Pay, RequestStep, LookupKey, FindOrder, FindExisting,
         CreatePayment, EmitProcess, StoreKey, RequestFails, ExpireKey,
         checkoutFrame, HandlerStep, Deliver, ProcessIgnored, ProcessRefused,
         ProcessAborted, RecordRead, RecordWrite, RecordFails, EmitRetry,
         InvalidateCart, Ack, Requeue, workerFrame, Crash

\* The three things a step may do with money: leave it, debit it for one
\* payment that exists with one SUCCESS event, or move it for one user.
SuccessesKept(S) ==
    \A p \in S : event'[p]["SUCCESS"] = event[p]["SUCCESS"]

MoneyKept == UNCHANGED << balance, funds >> /\ SuccessesKept(Payments)

Debited(p) ==
    /\ Exists(p)
    /\ event'[p]["SUCCESS"] = event[p]["SUCCESS"] + 1
    /\ SuccessesKept(Payments \ {p})
    /\ balance' = [balance EXCEPT ![Payer(p)] = balance[Payer(p)] - Price(p)]
    /\ UNCHANGED funds

Moved(u) ==
    /\ balance'[u] - balance[u] = funds'[u] - funds[u]
    /\ \A v \in Users \ {u} : balance'[v] = balance[v] /\ funds'[v] = funds[v]
    /\ SuccessesKept(Payments)

\* A settlement is the only step that adds a SUCCESS event, and a charge or a
\* credit the only one that changes what a user paid in.
LEMMA MoneySteps ==
  ASSUME IInv, SettlementInv, [Next]_vars
  PROVE  \/ MoneyKept
         \/ \E p \in Payments : Debited(p)
         \/ \E u \in Users : Moved(u)
  <1>1. ASSUME NEW h \in Handlers, ProcessCompleted(h)
        PROVE  \E p \in Payments : Debited(p)
    <2>1. PICK p \in Payments : p = Job(h)
      BY <1>1, JobFacts DEF ProcessCompleted, At, Busy
    <2>2. Completed(p) /\ \A q \in Payments \ {p} : Same(q)
      BY <1>1, <2>1, CompletedEffect
    <2>3. event'[p]["SUCCESS"] = event[p]["SUCCESS"] + 1 /\ Exists(p)
      BY <2>2 DEF Completed, Bumped, PaymentEventStatus, Queued, Exists
    <2>4. SuccessesKept(Payments \ {p})
      BY <2>2 DEF Same, SuccessesKept
    <2>5. /\ balance' = [balance EXCEPT
                            ![Payer(p)] = balance[Payer(p)] - Price(p)]
          /\ UNCHANGED funds
      BY <1>1, <2>1 DEF ProcessCompleted, Debit, workerFrame
    <2> QED BY <2>3, <2>4, <2>5 DEF Debited
  <1>2. ASSUME \A h \in Handlers : ~ProcessCompleted(h)
        PROVE  SuccessesKept(Payments)
    <2>1. ASSUME NEW p \in Payments
          PROVE  event'[p]["SUCCESS"] = event[p]["SUCCESS"]
      <3>1. LogStep(p) /\ ~Completed(p)
        BY <1>2, LogSteps, FiveEffects, CreateEffect, RefusedEffect,
           RecordedEffect
           DEF Quiet, Completed, Queued, RowCreated, Exists, Refused,
               Recorded, Same
      <3> QED BY <3>1 DEF LogStep, Same, Bumped, Refused, Recorded,
              PaymentEventStatus
    <2> QED BY <2>1 DEF SuccessesKept
  <1>3. ASSUME NEW u \in Users, NEW a \in MoveAmounts,
               BalanceCharge(u, a) \/ Credit(u, a)
        PROVE  Moved(u)
    <2>1. /\ balance \in [Users -> 0 .. MaxBalance] /\ MaxBalance \in Nat
          /\ funds \in [Users -> Int] /\ a \in Nat
      BY LimitAssumption DEF IInv, TypeOK
    <2>2. \E n \in {a, 0 - a} : /\ balance' = [balance EXCEPT ![u] = balance[u] + n]
                                /\ funds' = [funds EXCEPT ![u] = funds[u] + n]
      BY <1>3, <2>1 DEF BalanceCharge, Credit
    <2>3. SuccessesKept(Payments)
      BY <1>3 DEF BalanceCharge, Credit, walletFrame, SuccessesKept
    <2> QED BY <2>1, <2>2, <2>3 DEF Moved
  <1> QED BY <1>1, <1>2, <1>3, FundsMove DEF MoneyKept

----------------------------------------------------------------------------
(* What a user spent is a sum over the payments. *)

\* What payment p cost user u so far: the summand of Spent, and 0 for a payment
\* that is not one of u's.
Debits(u) ==
    [p \in Payments |-> IF Exists(p) /\ Payer(p) = u
                        THEN event[p]["SUCCESS"] * Price(p) ELSE 0]

PaymentsOf(u) == {p \in Payments : Exists(p) /\ Payer(p) = u}

\* Each payment that exists cost its payer a natural number.
LEMMA DebitTypes ==
  ASSUME IInv, NEW u \in Users
  PROVE  /\ Debits(u) \in [Payments -> Int]
         /\ \A p \in PaymentsOf(u) : Debits(u)[p] = event[p]["SUCCESS"] * Price(p)
         /\ \A p \in Payments \ PaymentsOf(u) : Debits(u)[p] = 0
         /\ \A p \in Payments : event[p]["SUCCESS"] \in Nat
         /\ \A p \in Payments : Exists(p) => Price(p) \in Nat /\ Payer(p) \in Users
  <1>1. ASSUME NEW p \in Payments
        PROVE  event[p]["SUCCESS"] \in Nat
    BY TypeParts DEF IInv, Events0, PaymentEventStatus
  <1>2. ASSUME NEW p \in Payments, Exists(p)
        PROVE  Price(p) \in Nat /\ Payer(p) \in Users
    BY <1>2, OrderAssumption DEF IInv, Coherent, RowsHaveOrders, Price, Payer
  <1>3. ASSUME NEW p \in Payments
        PROVE  (IF Exists(p) /\ Payer(p) = u
                THEN event[p]["SUCCESS"] * Price(p) ELSE 0) \in Int
    BY <1>1, <1>2
  <1> QED BY <1>1, <1>2, <1>3 DEF Debits, PaymentsOf

\* The recursion that Spent unfolds to is the sum of the debits.
LEMMA SpentIsSum ==
  ASSUME IInv, NEW u \in Users
  PROVE  Spent(u) = SumOf(Debits(u), Payments)
  <1> DEFINE f == Debits(u)
             S == PaymentsOf(u)
             Cost(s) == event[Pick(s)]["SUCCESS"] * Price(Pick(s))
             Body(g) == [s \in SUBSET S |->
                           IF s = {} THEN 0 ELSE Cost(s) + g[s \ {Pick(s)}]]
  <1>1. f \in [Payments -> Int] /\ S \in SUBSET Payments /\ IsFiniteSet(S)
    BY DebitTypes, FS_Subset, FiniteAssumption DEF PaymentsOf
  <1>2. \A g : g = Body(g) <=> Sums(g, f, S)
    <2>1. ASSUME NEW s \in SUBSET S, s # {}
          PROVE  Cost(s) = f[Pick(s)]
      BY <2>1, PickIn, DebitTypes
    <2> HIDE DEF f, S, Cost
    <2>2. ASSUME NEW g
          PROVE  Body(g) = [s \in SUBSET S |->
                     IF s = {} THEN 0 ELSE f[Pick(s)] + g[s \ {Pick(s)}]]
      BY <2>1
    <2> HIDE DEF Body
    <2> QED BY <2>2 DEF Sums
  <1>3. Spent(u) = (CHOOSE g : g = Body(g))[S]
    BY DEF Spent, Sum, MapThenSumSet, MapThenFoldSet, Pick, PaymentsOf
  <1> HIDE DEF f, S, Body
  <1>4. \E g : g = Body(g)
    BY <1>1, <1>2, SumsExist
  <1>5. Sums(CHOOSE g : g = Body(g), f, S)
    BY <1>2, <1>4
  <1>6. Spent(u) = SumOf(f, S)
    BY <1>1, <1>3, <1>5, SumsAreSum, FiniteAssumption
  <1>7. \A p \in Payments \ S : f[p] = 0
    BY DebitTypes DEF f, S
  <1> QED BY <1>1, <1>6, <1>7, SumExtends, FiniteAssumption DEF f

\* What the step of a sum needs in both of its states.
SpentSums ==
    \A u \in Users : /\ Debits(u) \in [Payments -> Int]
                    /\ Spent(u) = SumOf(Debits(u), Payments)

LEMMA SpentAlways == IInv => SpentSums
  BY DebitTypes, SpentIsSum DEF SpentSums

\* A payment that exists keeps its payer and its price, and one that does not
\* has no SUCCESS event: what it costs changes with its SUCCESS events only.
LEMMA DebitStays ==
  ASSUME IInv, SettlementInv, [Next]_vars, NEW u \in Users, NEW p \in Payments,
         event'[p]["SUCCESS"] = event[p]["SUCCESS"]
  PROVE  Debits(u)'[p] = Debits(u)[p]
  <1>1. RowStep(p)
    BY RowSteps
  <1>2. CASE Exists(p)
    <2>1. Exists(p)' /\ payment'[p].order = payment[p].order
      BY <1>1, <1>2 DEF RowStep, RowCreated, RowWritten, Exists, PaymentStatus
    <2> QED BY <2>1, <1>2 DEF Debits, Payer, Price
  <1>3. CASE ~Exists(p)
    <2>1. p \notin clobbered
      BY <1>3 DEF SettlementInv, ClobberedPublished, IInv, Coherent, PublishedRows
    <2>2. event[p]["SUCCESS"] = 0
      BY <1>3, <2>1 DEF SettlementInv, LogMatchesRow, LogMatches, Exists
    <2>3. Debits(u)[p] = 0
      BY <1>3 DEF Debits
    <2>4. Exists(p)' => Price(p)' \in Nat
      BY <1>1, <1>3, OrderAssumption DEF RowStep, RowCreated, RowWritten, Exists, Price
    <2> QED BY <2>2, <2>3, <2>4 DEF Debits
  <1> QED BY <1>2, <1>3

\* Every step that preserves the sums preserves the balance of the account.
LEMMA ConservedStep ==
  ASSUME IInv, SettlementInv, MoneyConserved, [Next]_vars
  PROVE  MoneyConserved'
  <1> SUFFICES ASSUME NEW u \in Users
               PROVE  balance'[u] + Spent(u)' = funds'[u]
    BY DEF MoneyConserved
  <1>1. IInv'
    BY StepIInv
  <1> DEFINE f == Debits(u)
             g == Debits(u)'
  <1>2. /\ f \in [Payments -> Int] /\ g \in [Payments -> Int]
        /\ Spent(u) = SumOf(f, Payments) /\ Spent(u)' = SumOf(g, Payments)
    <2>1. IInv' => SpentSums'
      BY SpentAlways, PTL
    <2>2. SpentSums /\ SpentSums'
      BY <1>1, <2>1, SpentAlways
    <2> QED BY <2>2 DEF SpentSums
  <1>3. /\ SumOf(f, Payments) \in Int
        /\ balance \in [Users -> Int] /\ funds \in [Users -> Int]
        /\ balance' \in [Users -> Int] /\ funds' \in [Users -> Int]
        /\ balance[u] + SumOf(f, Payments) = funds[u]
    <2>1. \A n \in 0 .. MaxBalance : n \in Int
      BY LimitAssumption
    <2>2. balance \in [Users -> Int] /\ funds \in [Users -> Int]
      BY <2>1 DEF IInv, TypeOK
    <2>3. balance' \in [Users -> Int] /\ funds' \in [Users -> Int]
      BY <1>1, <2>1 DEF IInv, TypeOK
    <2>4. balance[u] + SumOf(f, Payments) = funds[u]
      BY <1>2 DEF MoneyConserved
    <2> HIDE DEF f
    <2>5. SumOf(f, Payments) \in Int
      BY <1>2, SumOfEquation, FiniteAssumption
    <2> QED BY <2>2, <2>3, <2>4, <2>5
  <1>4. ASSUME NEW p \in Payments, event'[p]["SUCCESS"] = event[p]["SUCCESS"]
        PROVE  g[p] = f[p]
    BY <1>4, DebitStays
  <1> HIDE DEF f, g
  <1>5. ASSUME SuccessesKept(Payments)
        PROVE  SumOf(g, Payments) = SumOf(f, Payments)
    BY <1>2, <1>4, <1>5, SumAgrees, FiniteAssumption DEF SuccessesKept
  <1>6. CASE MoneyKept
    BY <1>2, <1>3, <1>5, <1>6 DEF MoneyKept
  <1>7. CASE \E v \in Users : Moved(v)
    <2>1. PICK v \in Users : Moved(v)
      BY <1>7
    <2>2. balance'[u] - balance[u] = funds'[u] - funds[u]
      <3>1. CASE u = v
        BY <2>1, <3>1 DEF Moved
      <3>2. CASE u # v
        BY <1>3, <2>1, <3>2 DEF Moved
      <3> QED BY <3>1, <3>2
    <2> QED BY <1>2, <1>3, <1>5, <2>1, <2>2 DEF Moved
  <1>8. CASE \E p \in Payments : Debited(p)
    <2>1. PICK p \in Payments : Debited(p)
      BY <1>8
    <2>2. \A q \in Payments \ {p} : f[q] = g[q]
      BY <1>4, <2>1 DEF Debited, SuccessesKept
    <2>3. SumOf(g, Payments) = SumOf(f, Payments) + (g[p] - f[p])
      BY <1>2, <2>2, SumOnePoint, FiniteAssumption
    <2>4. /\ event[p]["SUCCESS"] \in Nat /\ Price(p) \in Nat /\ Payer(p) \in Users
          /\ event'[p]["SUCCESS"] = event[p]["SUCCESS"] + 1
          /\ Exists(p)
      BY <2>1, DebitTypes DEF Debited
    <2>5. Exists(p)' /\ payment'[p].order = payment[p].order
      BY <2>4, RowSteps
         DEF RowStep, RowCreated, RowWritten, Exists, PaymentStatus
    <2>6. CASE u = Payer(p)
      <3>1. /\ f[p] = event[p]["SUCCESS"] * Price(p)
            /\ g[p] = (event[p]["SUCCESS"] + 1) * Price(p)
        BY <2>4, <2>5, <2>6 DEF f, g, Debits, Payer, Price
      <3>2. g[p] - f[p] = Price(p)
        BY <2>4, <3>1
      <3>3. balance'[u] = balance[u] - Price(p) /\ funds'[u] = funds[u]
        BY <1>3, <2>1, <2>6 DEF Debited
      <3> QED BY <1>2, <1>3, <2>3, <2>4, <3>2, <3>3
    <2>7. CASE u # Payer(p)
      <3>1. f[p] = 0 /\ g[p] = 0
        BY <2>5, <2>7 DEF f, g, Debits, Payer
      <3>2. balance'[u] = balance[u] /\ funds'[u] = funds[u]
        BY <1>3, <2>1, <2>7 DEF Debited
      <3> QED BY <1>2, <1>3, <2>3, <3>1, <3>2
    <2> QED BY <2>6, <2>7
  <1> QED BY <1>6, <1>7, <1>8, MoneySteps

\* Nothing is spent before anything is paid in.
LEMMA InitConserved == Init => MoneyConserved
  <1> SUFFICES ASSUME Init, NEW u \in Users
               PROVE  balance[u] + Spent(u) = funds[u]
    BY DEF MoneyConserved
  <1>1. IInv
    BY InitIInv
  <1>2. Debits(u) \in [Payments -> Nat] /\ \A p \in Payments : Debits(u)[p] = 0
    BY DEF Init, Debits, Exists, NoRow
  <1>3. Spent(u) = 0
    BY <1>1, <1>2, SpentIsSum, SumOfNaturals, FiniteAssumption
  <1> QED BY <1>3 DEF Init

\* What a user has and what SUCCESS events of the user's orders account for is
\* what the user paid in: no unit is lost or made by any retry, redelivered
\* message, overwritten row or crash.
THEOREM MoneyIsConserved == Spec => []MoneyConserved
  <1>1. IInv /\ SettlementInv /\ MoneyConserved /\ [Next]_vars => MoneyConserved'
    BY ConservedStep
  <1> QED BY <1>1, InitConserved, Coherence, Settlement, PTL DEF Spec

============================================================================
