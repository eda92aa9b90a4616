CONSTANTS
    u1 = u1
    hr = hr
    None = None
    Users = {u1, u2}
    Orders = {o1}
    Payments = {p1, p2}
    Keys = {k1}
    Requests = {r1, r2}
    Handlers = {hp, hr}
    Owner <- MCOwner
    Amount <- MCAmount
    QueueOf <- MCQueueOf
    MaxAttempts = 2
    MaxBalance = 1
    MoveAmounts = {1}
    MaxFaults <- MCMaxFaults
    Aborts = 2
    Outages = 1
    Crashes = 1

SPECIFICATION Spec
SYMMETRY Symmetry
INVARIANTS
    TypeOK
    ShippedIffPaid
    PublishedIsCarried
    LogMatchesRow
    QueuedHasAttemptLeft
    CleanOrderDebitedOnce
    MoneyConserved
    KeyMeansPublished
PROPERTIES
    ContractKept
