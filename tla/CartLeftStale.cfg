CONSTANTS
    u1 = u1
    hr = hr
    None = None
    Users = {u1}
    Orders = {o1}
    Payments = {p1}
    Keys = {k1}
    Requests = {r1}
    Handlers = {hp, hr}
    Owner <- MCOwner
    Amount <- MCAmount
    QueueOf <- MCQueueOf
    MaxAttempts = 2
    MaxBalance = 2
    MoveAmounts = {1}
    MaxFaults <- MCMaxFaults
    Aborts = 0
    Outages = 0
    Crashes = 1

SPECIFICATION FairSpec

PROPERTIES
    SettledCartInvalidated
