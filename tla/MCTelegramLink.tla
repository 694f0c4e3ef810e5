--------------------------- MODULE MCTelegramLink ---------------------------
(* A small instance of TelegramLink. *)
EXTENDS TelegramLink

CONSTANTS u1, u2, t1, t2, r1, r2
=============================================================================
