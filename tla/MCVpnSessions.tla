---------------------------- MODULE MCVpnSessions ----------------------------
(* Small instances of VpnSessions for TLC.                                 *)
EXTENDS VpnSessions

CONSTANTS u1, u2, s1, s2, r1, r2

\* One request slot per user: what a client that waits for its answers does.
OneSlotEach == [r \in Requests |-> IF r = r1 THEN u1 ELSE u2]

\* Both slots belong to the same user.
SharedUser == [r \in Requests |-> u1]
=============================================================================
