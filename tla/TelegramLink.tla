---------------------------- MODULE TelegramLink ----------------------------
(***************************************************************************)
(* Linking a user to a Telegram account: the app asks for a code, opens    *)
(* the bot with it, and the bot reports the code and the account.  The     *)
(* bot's requests read a user's row and write to it in a later step, where *)
(* only the columns that were set are written.                             *)
(***************************************************************************)
EXTENDS Integers, FiniteSets

CONSTANTS
  Users,
  Accounts,     \* Telegram accounts
  Requests,     \* requests of the bot under way at a time
  MaxCodes      \* bound on codes generated; a code is never drawn twice

VARIABLES
  rows,         \* telegram_id, link_token and whether link_token_expires lies ahead
  requests,
  accepted      \* ghost: how often each code generated so far was answered with ok

vars == <<rows, requests, accepted>>

None  == 0
Codes == 1..MaxCodes
Row   == [telegram : Accounts \cup {None}, code : Codes \cup {None}, live : BOOLEAN]
Request == [at : {"idle", "link", "clear", "unlink"}, user : Users, code : Codes \cup {None},
            account : Accounts \cup {None},
            read : Accounts \cup {None}]   \* telegram_id as it was read

TypeOK ==
  /\ rows \in [Users -> Row]
  /\ requests \in [Requests -> Request]
  /\ DOMAIN accepted \subseteq Codes /\ \A c \in DOMAIN accepted : accepted[c] \in Nat

Idle == [at |-> "idle", user |-> CHOOSE u \in Users : TRUE, code |-> None,
         account |-> None, read |-> None]

Init ==
  /\ rows = [u \in Users |-> [telegram |-> None, code |-> None, live |-> FALSE]]
  /\ requests = [r \in Requests |-> Idle]
  /\ accepted = <<>>

\* generate_telegram_link_token; an earlier code of the user is overwritten.
Generate(u) ==
  LET c == Cardinality(DOMAIN accepted) + 1
  IN /\ c <= MaxCodes
     /\ rows' = [rows EXCEPT ![u].code = c, ![u].live = TRUE]
     /\ accepted' = [d \in DOMAIN accepted \cup {c} |-> IF d = c THEN 0 ELSE accepted[d]]
     /\ UNCHANGED requests

\* Ten minutes pass.
Expire(u) ==
  /\ rows[u].live
  /\ rows' = [rows EXCEPT ![u].live = FALSE]
  /\ UNCHANGED <<requests, accepted>>

\* link_telegram looks the code up and sees whether it has expired.
LinkRead(r, a) ==
  \E u \in Users :
    /\ rows[u].code # None
    /\ requests[r].at = "idle"
    /\ requests' = [requests EXCEPT ![r] =
         [at |-> IF rows[u].live THEN "link" ELSE "clear", user |-> u,
          code |-> rows[u].code, account |-> a, read |-> rows[u].telegram]]
    /\ UNCHANGED <<rows, accepted>>

Done(r) == requests' = [requests EXCEPT ![r] = Idle]

\* Two users cannot have one account: the index refuses and nothing is written.
LinkCommit(r) ==
  LET req == requests[r]
  IN /\ req.at = "link"
     /\ Done(r)
     /\ IF req.account # req.read /\ \E v \in Users \ {req.user} : rows[v].telegram = req.account
        THEN UNCHANGED <<rows, accepted>>
        ELSE /\ rows' = [rows EXCEPT ![req.user] =
                  [telegram |-> IF req.account # req.read THEN req.account ELSE @.telegram,
                   code |-> None, live |-> FALSE]]
             /\ accepted' = [accepted EXCEPT ![req.code] = @ + 1]

\* The code had expired: it is removed.
LinkClear(r) ==
  LET req == requests[r]
  IN /\ req.at = "clear"
     /\ rows' = [rows EXCEPT ![req.user].code = None, ![req.user].live = FALSE]
     /\ Done(r)
     /\ UNCHANGED accepted

\* unlink_telegram
UnlinkRead(r, a) ==
  \E u \in Users :
    /\ rows[u].telegram = a
    /\ requests[r].at = "idle"
    /\ requests' = [requests EXCEPT ![r] = [Idle EXCEPT !.at = "unlink", !.user = u]]
    /\ UNCHANGED <<rows, accepted>>

UnlinkCommit(r) ==
  /\ requests[r].at = "unlink"
  /\ rows' = [rows EXCEPT ![requests[r].user].telegram = None]
  /\ Done(r)
  /\ UNCHANGED accepted

Next ==
  \/ \E u \in Users : Generate(u) \/ Expire(u)
  \/ \E r \in Requests :
       \/ \E a \in Accounts : LinkRead(r, a) \/ UnlinkRead(r, a)
       \/ LinkCommit(r) \/ LinkClear(r) \/ UnlinkCommit(r)

Spec == Init /\ [][Next]_vars

-----------------------------------------------------------------------------

\* The docstring of generate_telegram_link_token calls the code a one-time code,
\* and a second use is to be answered with "Token not found or already used".
OneTimeCode == \A c \in DOMAIN accepted : accepted[c] <= 1

=============================================================================
