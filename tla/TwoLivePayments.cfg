CONSTANTS
    u1 = u1
    hr = hr
    None = None
    Users = {u1}
    Orders = {o1}
    Payments = {p1, p2}
    Keys = {k1, k2}
    Requests = {r1, r2}
    Handlers = {hp, hr}
    Owner <- MCOwner
    Amount <- MCAmount
    QueueOf <- MCQueueOf
    MaxAttempts = 2
    MaxBalance = 2
    MoveAmounts = {1}
    MaxFaults <- MCMaxFaults
    Aborts = 0
    Outages = 0
    Crashes = 0

SPECIFICATION Spec

INVARIANTS
    OneLivePaymentPerOrder
