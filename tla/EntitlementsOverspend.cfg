SPECIFICATION Spec
CONSTANTS
    e1 = e1
    e2 = e2
    e3 = e3
    s1 = s1
    s2 = s2
    Ents = {e1, e2}
    Sessions = {s1, s2}
    Quotas <- SmallQuotas
    Amounts = {1, 2}
    Unlimited = Unlimited
    NoEnt = NoEnt
SYMMETRY BothSymmetry
INVARIANTS NeverOverspent
CHECK_DEADLOCK FALSE
