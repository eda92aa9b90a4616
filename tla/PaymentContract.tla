-------------------------- MODULE PaymentContract --------------------------
(***************************************************************************)
(* What paying for an order is supposed to be, without requests, messages, *)
(* attempts or failures: a payment is submitted for an order that has no   *)
(* live payment, then either succeeds, taking the order's amount from its  *)
(* owner once and shipping the order in the same step, or fails.  Both are *)
(* final.                                                                  *)
(*                                                                         *)
(* An order is spoiled once one of the two races of the code has hit it.   *)
(* Only a spoiled order may have two live payments, or a settled payment   *)
(* that is queued again.                                                   *)
(***************************************************************************)
EXTENDS Naturals

CONSTANTS
    Users, Orders, Payments, None,
    bill        \* bill[o]: who owes what for order o

VARIABLES
    phase,      \* phase[p]: "none", "queued", "succeeded" or "failed"
    paysFor,    \* paysFor[p]: the order of a submitted payment
    shipped,    \* orders handed to shipping
    money,      \* what each user has
    spoiled     \* orders that a race has hit

contractVars == << phase, paysFor, shipped, money, spoiled >>

Init ==
    /\ phase = [p \in Payments |-> "none"]
    /\ paysFor = [p \in Payments |-> None]
    /\ shipped = {}
    /\ money = [u \in Users |-> 0]
    /\ spoiled = {}

LiveFor(o) ==
    {p \in Payments : phase[p] \in {"queued", "succeeded"} /\ paysFor[p] = o}

Submit(p, o) ==
    /\ phase[p] = "none"
    /\ phase' = [phase EXCEPT ![p] = "queued"]
    /\ paysFor' = [paysFor EXCEPT ![p] = o]
    /\ spoiled' = IF LiveFor(o) = {} THEN spoiled ELSE spoiled \cup {o}
    /\ UNCHANGED << shipped, money >>

Succeed(p) ==
    LET o == paysFor[p]
        u == bill[o].user
    IN
    /\ phase[p] = "queued"
    /\ money[u] >= bill[o].amount
    /\ phase' = [phase EXCEPT ![p] = "succeeded"]
    /\ money' = [money EXCEPT ![u] = money[u] - bill[o].amount]
    /\ shipped' = shipped \cup {o}
    /\ UNCHANGED << paysFor, spoiled >>

Fail(p) ==
    /\ phase[p] = "queued"
    /\ phase' = [phase EXCEPT ![p] = "failed"]
    /\ UNCHANGED << paysFor, shipped, money, spoiled >>

\* A failure that was noticed long ago is recorded over what happened since.
Overwrite(p) ==
    /\ phase[p] # "none"
    /\ \E ph \in {"queued", "failed"} : phase' = [phase EXCEPT ![p] = ph]
    /\ spoiled' = spoiled \cup {paysFor[p]}
    /\ UNCHANGED << paysFor, shipped, money >>

\* A user pays in or is credited out.
Move(u) ==
    /\ money'[u] \in Nat
    /\ money' = [money EXCEPT ![u] = money'[u]]
    /\ UNCHANGED << phase, paysFor, shipped, spoiled >>

Next ==
    \/ \E p \in Payments, o \in Orders : Submit(p, o)
    \/ \E p \in Payments : Succeed(p) \/ Fail(p) \/ Overwrite(p)
    \/ \E u \in Users : Move(u)

Spec == Init /\ [][Next]_contractVars

============================================================================
