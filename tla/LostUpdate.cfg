SPECIFICATION WalletSpec
CONSTANTS
    t1 = t1
    t2 = t2
    ann = ann
    bob = bob
    Tx = {t1, t2}
    User = {ann, bob}
    Row = {ann, bob}
    InitialDb <- MCInitialDb
    LockedWallets = {bob}
    MaxDeposit = 3
    MinWithdrawal = 2
    MaxBalance = 6
    MaxFailures = 0
    Arrivals <- MCArrivals
INVARIANTS
    LedgerChained
