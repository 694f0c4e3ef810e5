------------------------------ MODULE MCGossip ------------------------------
EXTENDS Gossip, TLC

CONSTANTS a, b, c, d, e

\* Four nodes in a line that share a key, as the nodes of the tests do, and one
\* with a key of its own that sends to the first.  With two hops an update does
\* not get from one end of the line to the other.
MCPeers == (a :> {b}) @@ (b :> {a, c}) @@ (c :> {b, d}) @@ (d :> {c}) @@ (e :> {a})
MCKey   == [n \in Nodes |-> IF n = e THEN e ELSE a]
=============================================================================
