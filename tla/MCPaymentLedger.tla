--------------------------- MODULE MCPaymentLedger ---------------------------
(* Small instances of PaymentLedger for TLC: one purchase of an item offer  *)
(* and one payment of a gated request.                                      *)
EXTENDS PaymentLedger, TLC

CONSTANTS offer, token, h1, h2, n1, w1

HandlerSymmetry == Permutations(Handlers)
=============================================================================
