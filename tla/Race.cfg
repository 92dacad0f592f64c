SPECIFICATION Spec
CONSTANTS
    t1 = t1
    t2 = t2
    t3 = t3
    t4 = t4
    ann = ann
    bob = bob
    mia = mia
    p1 = p1
    p2 = p2
    Tx = {t1, t2, t3, t4}
    User = {ann, bob, mia}
    Product = {p1}
    Row <- MCRow
    InitialDb <- OneUnit
    Owner <- MCOwner
    LockedWallets = {}
    MaxDeposit = 4
    MinWithdrawal = 1
    MaxBalance = 3
    MaxFailures = 1
    Arrivals <- RaceArrivals
INVARIANTS
    TypeOK
    IInv
    NoOversell
    StockMatchesSales
    WalletOrderSettled
    OrderEntriesChained
    BalancesNonNegative
