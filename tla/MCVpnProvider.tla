--------------------------- MODULE MCVpnProvider ----------------------------
(* Instances of VpnProvider for TLC.                                       *)
EXTENDS VpnProvider, TLC

CONSTANTS s1, s2, t1, t2, l1, l2

Interchangeable ==
  Permutations({s1, s2}) \cup Permutations({t1, t2}) \cup Permutations({l1, l2})
=============================================================================
