------------------------------ MODULE Vouchers ------------------------------
(***************************************************************************)
(* What the promo codes promise, whatever the redeeming handlers do: a     *)
(* code is issued once, it goes to one user at most, and after the admin   *)
(* revokes it nobody gets it any more.                                     *)
(***************************************************************************)
CONSTANTS Codes, Users

VARIABLES
  open,     \* codes that were issued and not revoked
  closed,   \* codes that were revoked
  holders   \* the users each code was redeemed by

vars == <<open, closed, holders>>

Init ==
  /\ open = {}
  /\ closed = {}
  /\ holders = [c \in Codes |-> {}]

Issue(c) ==
  /\ c \notin open \cup closed
  /\ open' = open \cup {c}
  /\ UNCHANGED <<closed, holders>>

Revoke(c) ==
  /\ c \in open
  /\ open' = open \ {c}
  /\ closed' = closed \cup {c}
  /\ UNCHANGED holders

Redeem(c, u) ==
  /\ c \in open
  /\ holders[c] = {}
  /\ holders' = [holders EXCEPT ![c] = {u}]
  /\ UNCHANGED <<open, closed>>

Next ==
  \E c \in Codes : Issue(c) \/ Revoke(c) \/ \E u \in Users : Redeem(c, u)

Spec == Init /\ [][Next]_vars
=============================================================================
