SPECIFICATION CatalogueSpec
CONSTANTS
    t1 = t1
    t2 = t2
    t3 = t3
    t4 = t4
    ann = ann
    mia = mia
    p1 = p1
    p2 = p2
    Tx = {t1, t2, t3, t4}
    Product = {p1, p2}
    Row = {p1, p2}
    InitialDb <- MCInitialDb
    Owner <- MCOwner
    OnBoard = {p1}
    ListKey = ListKey
    Missing = Missing
    MaxFailures = 1
    Arrivals <- MCArrivals
INVARIANTS
    StaleIsExplained
