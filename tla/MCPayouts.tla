------------------------------ MODULE MCPayouts -------------------------------
(* A small instance of Payouts for TLC: one agent earns in two domains, the  *)
(* other in one of them.                                                     *)
EXTENDS Payouts

CONSTANTS g1, g2, d1, d2, a1, a2, a3, p1, p2

Row(g, d, sats) == [agent |-> g, domain |-> d, amount |-> sats]

Shares == [a \in Allocations |->
    CASE a = a1 -> Row(g1, d1, 2)
      [] a = a2 -> Row(g1, d2, 2)
      [] a = a3 -> Row(g2, d1, 3)]
=============================================================================
