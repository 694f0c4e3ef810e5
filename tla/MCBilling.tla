----------------------------- MODULE MCBilling ------------------------------
(* Instances of Billing for TLC.                                           *)
EXTENDS Billing, TLC

CONSTANTS h1, h2, i1, i2, w1, w2, p1, p2, partner, f1, f2

PartnersFriends == [u \in Users |-> IF u \in {f1, f2} THEN partner ELSE None]

BillingSymmetry ==
  Permutations({f1, f2}) \cup Permutations({h1, h2}) \cup Permutations({i1, i2})
    \cup Permutations({w1, w2}) \cup Permutations({p1, p2})
=============================================================================
