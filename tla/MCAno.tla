------------------------------- MODULE MCAno -------------------------------
(* A small instance of Ano. *)
EXTENDS Ano

CONSTANTS s1, dc, campus

\* A slow server, and a fast one whose packets a censor drops.
MCMetrics == {[loss |-> 0,  rtt |-> 400, jitter |-> 60],
              [loss |-> 30, rtt |-> 50,  jitter |-> 5]}

\* A request's own context, and the one put in for a request without any, which
\* has none of the fields.
MCContexts == {[geo |-> "ru", protocol |-> "reality", provider |-> "mts"],
               [geo |-> "none", protocol |-> "none", provider |-> "none"]}

\* A data centre inside another.
MCHosting == {[from |-> s1, to |-> dc,     relation |-> "located_in"],
              [from |-> dc, to |-> campus, relation |-> "located_in"]}
=============================================================================
