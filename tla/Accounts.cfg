SPECIFICATION AccountFairSpec
CONSTANTS
    t1 = t1
    t2 = t2
    t3 = t3
    t4 = t4
    a = a
    b = b
    Tx = {t1, t2, t3, t4}
    Email = {a, b}
    Row = {a, b, t1, t2, t3, t4}
    InitialDb <- MCInitialDb
    MaxFailures = 1
    Arrivals <- MCArrivals
INVARIANTS
    AccountInv
    RegisteredOwnsAccount
    RefusedMeansTaken
    ClosedAccountsAreNotServed
PROPERTIES
    OpensAtomically
    AddressIsGiven
