SPECIFICATION Spec
CONSTANTS
    e1 = e1
    e2 = e2
    e3 = e3
    s1 = s1
    s2 = s2
    Ents = {e1, e2, e3}
    Sessions = {s1, s2}
    Quotas <- SmallQuotas
    Amounts <- AnyAmounts
    Unlimited = Unlimited
    NoEnt = NoEnt
SYMMETRY BothSymmetry
INVARIANTS NoReadLost ExhaustedMeansServed
PROPERTIES ServesAtomically
CHECK_DEADLOCK FALSE
