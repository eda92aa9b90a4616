------------------------------- MODULE Wallet -------------------------------
(***************************************************************************)
(* POST /payment/charge and /payment/credit.  Each is one conditional      *)
(* UPDATE, which PostgreSQL evaluates and applies under the row's lock, so *)
(* each is one step; a condition that fails changes nothing.               *)
(***************************************************************************)
EXTENDS PaymentStore

walletFrame == << orderStatus, payment, event, cartStale, idem, queue, handler,
                  request, faults, published, clobbered, raced >>

\* Mutant: the limit is checked before the amount is added.
BelowLimit(u, a) == balance[u] <= MaxBalance

Chargeable(u, a) == balance[u] <= MaxBalance - a

BalanceCharge(u, a) ==
    /\ Chargeable(u, a)
    /\ balance' = [balance EXCEPT ![u] = balance[u] + a]
    /\ funds' = [funds EXCEPT ![u] = funds[u] + a]
    /\ UNCHANGED walletFrame

Creditable(u, a) == balance[u] >= a

Credit(u, a) ==
    /\ Creditable(u, a)
    /\ balance' = [balance EXCEPT ![u] = balance[u] - a]
    /\ funds' = [funds EXCEPT ![u] = funds[u] - a]
    /\ UNCHANGED walletFrame

============================================================================
