--------------------------- MODULE MCEntitlements ---------------------------
(* Small instances of Entitlements for TLC.                                *)
EXTENDS Entitlements, TLC

CONSTANTS e1, e2, e3, s1, s2

\* A fraction of the quota, all of it, and the negative amount that passes.
AnyAmounts == {-1, 1, 2}

SmallQuotas == {2, Unlimited}

\* Rows and requests are interchangeable.
BothSymmetry == Permutations(Ents) \cup Permutations(Sessions)
=============================================================================
