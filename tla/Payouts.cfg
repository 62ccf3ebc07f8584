SPECIFICATION FairPayoutSpec
CONSTANTS
    g1 = g1
    g2 = g2
    d1 = d1
    d2 = d2
    a1 = a1
    a2 = a2
    a3 = a3
    p1 = p1
    p2 = p2
    Agents = {g1, g2}
    Reachable = {g1, g2}
    Domains = {d1, d2}
    Allocations = {a1, a2, a3}
    Share <- Shares
    Threshold = 2
    MaxTransfers = 6
    Processes = {p1, p2}
    MaxFaults = 1
INVARIANTS NeverOverpaid BooksMatchPayments
PROPERTIES EarningsReceived
CHECK_DEADLOCK FALSE
