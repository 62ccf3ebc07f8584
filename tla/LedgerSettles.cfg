SPECIFICATION FairSpec
CONSTANTS
    offer = offer
    token = token
    h1 = h1
    h2 = h2
    n1 = n1
    w1 = w1
    NoCall = NoCall
    Payments = {offer, token}
    Offers = {offer}
    ItemOffers = {offer}
    Handlers = {h1}
    Notifiers = {n1}
    Workers = {w1}
    MaxIssued = 1
    MaxFaults = 1
    MaxServed = 3
    MaxRows = 1
INVARIANTS AgreesWithProvider RevenueOnceAlone TokenServesOnceAlone
PROPERTIES PurchaseStateMachine SettlementBooked BuyerServed RevenueRecordedUnlessFault
CHECK_DEADLOCK FALSE
