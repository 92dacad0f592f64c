SPECIFICATION MoneySpec
CONSTANTS
    ann = ann
    mia = mia
    p1 = p1
    User = {ann, mia}
    Product = {p1}
    Owner <- MCOwner
    Cent = 10
    Slack = 1
    Limit = 5
    Asked <- MCAsked
    Double <- ThirdUnits
    Sent <- EvenUnits
    Scaled <- OneLess
INVARIANTS
    MoneyTypeOK
    EntryOffByACent
    MoneyIsExact
    StripeAsksThePrice
    RefusedOnlyIfPoor
