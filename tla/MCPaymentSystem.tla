-------------------------- MODULE MCPaymentSystem --------------------------
(* Values of the structured constants of PaymentSystem for TLC. *)
EXTENDS PaymentSystem, TLC

CONSTANTS
    u1, hr,
    Aborts, Outages, Crashes       \* bounds on the faults of a behaviour

MCOwner == [o \in Orders |-> u1]     \* every other user owns no order
MCAmount == [o \in Orders |-> 1]
MCQueueOf == [h \in Handlers |-> IF h = hr THEN "retry" ELSE "process"]
MCMaxFaults == [f \in FaultKinds |-> CASE f = "abort" -> Aborts
                                       [] f = "outage" -> Outages
                                       [] f = "crash" -> Crashes]

Symmetry == Permutations(Payments) \cup Permutations(Requests)
               \cup Permutations(Keys)

============================================================================
