--------------------------- MODULE MCConfigQueue ----------------------------
EXTENDS ConfigQueue, TLC

CONSTANTS c1, c2, c3, c4, t1, t2, p1, null

\* Configurations are interchangeable; no liveness property is checked.
Symmetric == Permutations(Configs)
=============================================================================
