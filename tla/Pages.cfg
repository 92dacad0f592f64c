SPECIFICATION ListingSpec
CONSTANTS
    e1 = e1
    e2 = e2
    e3 = e3
    e4 = e4
    e5 = e5
    e6 = e6
    Entry = {e1, e2, e3, e4, e5, e6}
    Opening <- MCOpening
    InFlight <- MCInFlight
    Limits = {2, 3}
    MaxTime = 1
INVARIANTS
    NothingSkipped
    MissesAtMostArrivals
    RepeatedOnlyIfMoved
