------------------------------- MODULE Store -------------------------------
(***************************************************************************)
(* The shop and the payments together: orders placed from carts that keep  *)
(* changing, and paid.  PaymentSystem has the requests, messages and       *)
(* retries of payments for orders that are given.  Here a payment is the   *)
(* steps that PaymentContract leaves of them, and the orders are placed    *)
(* one by one while products change their prices; a payment that succeeds  *)
(* empties the cart its user has by then.                                  *)
(***************************************************************************)
EXTENDS Shop, Sequences

CONSTANTS
    Payments,
    MaxMoney,       \* bound: what a user may have
    MaxDebits       \* bound: debits of one order

ASSUME StoreAssumption == MaxMoney \in Nat /\ MaxDebits \in Nat

VARIABLES
    phase,          \* phase[p]: "none", "queued", "succeeded" or "failed"
    paysFor,        \* paysFor[p]: the order of a submitted payment
    amount,         \* amount[p]: what a submitted payment is to debit
    money,          \* what each user has
    spoiled,        \* orders that a race has hit
    \* History variables: no action reads them, but for the bound.
    quote,          \* quote[o]: who ordered, and what their cart showed
    debits          \* debits[o]: what was taken for the order, and from whom

payVars == << phase, paysFor, amount, money, spoiled >>
storeVars == << vars, payVars, quote, debits >>

LiveFor(o) ==
    {p \in Payments : phase[p] \in {"queued", "succeeded"} /\ paysFor[p] = o}

Shipped == {o \in Orders : order[o].status = "SHIPPING"}

StoreInit ==
    /\ Init
    /\ phase = [p \in Payments |-> "none"]
    /\ paysFor = [p \in Payments |-> NoUser]
    /\ amount = [p \in Payments |-> 0]
    /\ money = [u \in Users |-> 0]
    /\ spoiled = {}
    /\ quote = [o \in Orders |-> [user |-> NoUser, amount |-> 0]]
    /\ debits = [o \in Orders |-> << >>]

PlaceOrder(u, o) ==
    /\ CreateOrder(u, o)
    /\ quote' = [quote EXCEPT ![o] = [user |-> u, amount |-> cart[u].price]]
    /\ UNCHANGED << payVars, debits >>

\* Products and carts change under the orders and their payments.
Browse ==
    /\ \/ \E p \in Products :
             CreateProduct(p) \/ UpdateProduct(p) \/ DeleteProduct(p)
       \/ \E u \in Users : GetOrCreateCart(u)
       \/ \E a \in Adds, u \in Users, p \in Products, n \in Quantities :
             CheckProduct(a, u, p, n)
       \/ \E a \in Adds : AddItem(a) \/ AddRefused(a) \/ AddFails(a)
       \/ \E u \in Users, p \in Products : RemoveItem(u, p)
    /\ UNCHANGED << payVars, quote, debits >>

\* Mutant: an order is charged at the prices its products have by then.
AmountNow(o) ==
    MapThenSumSet(LAMBDA p : product[p].price * order[o].items[p].quantity,
                  Products)

\* A payment's amount is summed from the order's own items, once.
AmountOf(o) == Total(order[o].items)

\* A pay request's insert; the check that no payment is live was an earlier read.
Submit(p, o) ==
    /\ phase[p] = "none" /\ OrderExists(o)
    /\ phase' = [phase EXCEPT ![p] = "queued"]
    /\ paysFor' = [paysFor EXCEPT ![p] = o]
    /\ amount' = [amount EXCEPT ![p] = AmountOf(o)]
    /\ spoiled' = IF LiveFor(o) = {} THEN spoiled ELSE spoiled \cup {o}
    /\ UNCHANGED << vars, money, quote, debits >>

\* The one transaction that debits what the payment's row says, empties the cart
\* and ships.
Settlement(p) ==
    LET o == paysFor[p]
        u == order[o].user
    IN
    /\ phase[p] = "queued"
    /\ money[u] >= amount[p]
    /\ Len(debits[o]) < MaxDebits
    /\ Settle(o)
    /\ phase' = [phase EXCEPT ![p] = "succeeded"]
    /\ money' = [money EXCEPT ![u] = money[u] - amount[p]]
    /\ debits' = [debits EXCEPT ![o] =
                     Append(debits[o], [user |-> u, amount |-> amount[p]])]
    /\ UNCHANGED << paysFor, amount, spoiled, quote >>

Fail(p) ==
    /\ phase[p] = "queued"
    /\ phase' = [phase EXCEPT ![p] = "failed"]
    /\ UNCHANGED << vars, paysFor, amount, money, spoiled, quote, debits >>

\* recordTechnicalFailure over a row that has changed since it was read.
Overwrite(p) ==
    /\ phase[p] # "none"
    /\ \E ph \in {"queued", "failed"} : phase' = [phase EXCEPT ![p] = ph]
    /\ spoiled' = spoiled \cup {paysFor[p]}
    /\ UNCHANGED << vars, paysFor, amount, money, quote, debits >>

\* Charges and credits.
Move(u) ==
    /\ \E n \in 0 .. MaxMoney : money' = [money EXCEPT ![u] = n]
    /\ UNCHANGED << vars, phase, paysFor, amount, spoiled, quote, debits >>

StoreNext ==
    \/ Browse
    \/ \E u \in Users, o \in Orders : PlaceOrder(u, o)
    \/ \E p \in Payments, o \in Orders : Submit(p, o)
    \/ \E p \in Payments : Settlement(p) \/ Fail(p) \/ Overwrite(p)
    \/ \E u \in Users : Move(u)

StoreSpec == StoreInit /\ [][StoreNext]_storeVars

----------------------------------------------------------------------------
\* Whatever is taken for an order, at any time and however often, is what the
\* cart showed its owner when the order was placed, and taken from that owner;
\* an order that no race has hit is charged so exactly when it ships, and once.
ChargedAsQuoted ==
    \A o \in Orders :
       /\ \A i \in DOMAIN debits[o] : debits[o][i] = quote[o]
       /\ o \notin spoiled =>
             Len(debits[o]) = IF o \in Shipped THEN 1 ELSE 0

============================================================================
