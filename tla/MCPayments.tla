----------------------------- MODULE MCPayments -----------------------------
(* Instances of Payments for TLC.                                          *)
EXTENDS Payments, TLC

CONSTANTS h1, h2, i1, i2

SameInvoices == Permutations({i1, i2}) \cup Permutations({h1, h2})
=============================================================================
