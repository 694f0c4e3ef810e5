----------------------------- MODULE MCSupport -----------------------------
(* Small instances of Support. *)
EXTENDS Support, TLC

CONSTANTS r1, r2, weather, setup

\* A question off topic that shares a word with the FAQ, and one the FAQ answers.
MCFeatures ==
  (weather :> [greets |-> FALSE, words |-> 3, off |-> TRUE,  vpn |-> FALSE, overlap |-> 1]) @@
  (setup   :> [greets |-> FALSE, words |-> 2, off |-> FALSE, vpn |-> TRUE,  overlap |-> 1])

RequestsAlike == Permutations(Requests)
=============================================================================
