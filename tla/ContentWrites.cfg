SPECIFICATION FairSpec
CONSTANTS
    a = a
    b = b
    n1 = n1
    n2 = n2
    n3 = n3
    n4 = n4
    home = home
    page = page
    r1 = r1
    r2 = r2
    Items = {a, b, n1, n2, n3, n4}
    Existing = {a, b}
    Types = {home, page}
    Singletons = {home}
    Governed = {home}
    Requests = {r1, r2}
    Calls <- SmallCalls
    Pool = 2
    MaxDecisions = 1
    MaxFaults = 1
    None = None
INVARIANTS SingletonUnlessRaced ReportsTruthful
PROPERTIES StatusGuarded UnnamedStatusKept 
CHECK_DEADLOCK FALSE
