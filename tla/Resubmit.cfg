SPECIFICATION RetrySpec
CONSTANTS
    t1 = t1
    t2 = t2
    t3 = t3
    t4 = t4
    t5 = t5
    ann = ann
    bob = bob
    mia = mia
    p1 = p1
    p2 = p2
    Tx = {t1, t2, t3, t4}
    User = {ann, bob, mia}
    Product = {p1, p2}
    Row = {ann, bob, mia, p1, p2, t1, t2, t3, t4}
    InitialDb <- MCInitialDb
    Owner <- MCOwner
    LockedWallets = {}
    MaxDeposit = 1
    MinWithdrawal = 1
    MaxBalance = 4
    MaxFailures = 1
    Arrivals <- OneArrivals
    FirstTry <- MCFirstTry
INVARIANTS
    OrderedOnce
