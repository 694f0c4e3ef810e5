------------------------------ MODULE Payments ------------------------------
(***************************************************************************)
(* How money and promo codes become premium: the three endpoints that open *)
(* a CryptoBot invoice, the webhook that learns of a payment, the promo    *)
(* codes, and grant_premium, which all of them end in.                     *)
(*                                                                         *)
(* A handler is split where it awaits the database.  It keeps the copy of  *)
(* the users row it loaded first: sessions are made with                   *)
(* expire_on_commit=False, so no later commit refreshes it.                *)
(***************************************************************************)
EXTENDS Integers, FiniteSets, Functions

CONSTANTS
  Users,          \* rows of the users table
  Invoices,       \* ids the payment provider can give to invoices
  Codes,          \* promo codes
  Handlers,       \* requests that can be in flight at the same time
  None,           \* no user, invoice or code
  Hasty,          \* users who send a request before the last one is answered
  ProviderWaits,  \* no update is delivered again while a delivery is handled
  Buyers,         \* bound: users who buy
  SoldPlans,      \* bound: plans bought
  SoldMonths,     \* bound: months bought by the month
  CodeMonths,     \* bound: months a code is worth
  ClockDays,      \* bound: days the clock stops at
  MaxRestarts     \* bound: restarts of the backend process

PlanDays   == [weekly |-> 7, monthly |-> 30, quarterly |-> 90, yearly |-> 365]
PlanMonths == [weekly |-> 0, monthly |-> 1,  quarterly |-> 3,  yearly |-> 12]
Plans      == {"weekly", "monthly", "quarterly", "yearly"}

ASSUME NoneAssumption     == None \notin Users \cup Invoices \cup Codes
ASSUME HastyAssumption    == Hasty \subseteq Users /\ ProviderWaits \in BOOLEAN
ASSUME SoldAssumption     == /\ Buyers \subseteq Users
                             /\ SoldPlans \subseteq Plans
                             /\ SoldMonths \subseteq 1..24
                             /\ CodeMonths \subseteq {1, 3, 12}
ASSUME ClockAssumption    == ClockDays \subseteq Nat
ASSUME RestartsAssumption == MaxRestarts \in Nat

VARIABLES
  day,          \* today
  premiumUntil, \* users.premium_until; 0 is NULL.  is_premium is set along with it
  invoices,     \* rows of the invoices table
  charged,      \* invoices paid at the provider
  codes,        \* rows of promo_codes
  redemptions,  \* rows of promo_code_redemptions
  hand,         \* local state of each handler
  restarts      \* restarts so far

vars == <<day, premiumUntil, invoices, charged, codes, redemptions, hand, restarts>>

-----------------------------------------------------------------------------
(* Data.                                                                   *)

\* days and months are the invoice's payload; promised is the number of days the
\* answer that carried the payment link spoke of.
Invoice ==
  [status : {"none", "active", "paid"}, user : Users \cup {None},
   days : Nat, months : Nat, promised : Nat]

NoInvoice ==
  [status |-> "none", user |-> None, days |-> 0, months |-> 0, promised |-> 0]

Code ==
  [issued : BOOLEAN, revoked : BOOLEAN, expired : BOOLEAN, used : Nat, months : Nat]

NoCode ==
  [issued |-> FALSE, revoked |-> FALSE, expired |-> FALSE, used |-> 0, months |-> 0]

\* "unpaid": the webhook has read an invoice that is not paid yet.  "redeem": the
\* code passed the checks.  "grant": the sale is committed, the premium is not.
\* "reward": the webhook has the referral reward left to do.
\* until is the handler's copy of premium_until.
Handler ==
  [pc : {"idle", "unpaid", "redeem", "grant", "reward"}, user : Users \cup {None},
   invoice : Invoices \cup {None}, code : Codes \cup {None}, until : Nat,
   days : Nat, months : Nat]

Idle ==
  [pc |-> "idle", user |-> None, invoice |-> None, code |-> None, until |-> 0,
   days |-> 0, months |-> 0]

MaxUses == 1

Payload(p) ==
  IF p = "weekly" THEN [days |-> PlanDays[p], months |-> 0]
                  ELSE [days |-> 0, months |-> PlanMonths[p]]

\* days take priority over months
DaysOf(days, months) == IF days <= 0 THEN 30 * months ELSE days

Init ==
  /\ day = 0
  /\ premiumUntil = [u \in Users |-> 0]
  /\ invoices = [i \in Invoices |-> NoInvoice]
  /\ charged = {}
  /\ codes = [c \in Codes |-> NoCode]
  /\ redemptions = {}
  /\ hand = [h \in Handlers |-> Idle]
  /\ restarts = 0

\* A user who is not hasty waits for the answer to one request before the next.
MayStart(h, u) ==
  /\ hand[h].pc = "idle"
  /\ u \in Hasty \/ \A g \in Handlers : hand[g].user # u

-----------------------------------------------------------------------------
(* Invoices.  The provider's id is new, so the row is always inserted; a   *)
(* handler that dies between the provider's answer and the insert leaves   *)
(* an invoice whose payment link nobody was given.                         *)

\* Slip: the row gets a status the webhook does not know.
NewInvoice_Pending(i, u, payload, promised) ==
  /\ invoices[i].status = "none"
  /\ invoices' = [invoices EXCEPT ![i] =
       [status |-> "pending", user |-> u, days |-> payload.days,
        months |-> payload.months, promised |-> promised]]
  /\ UNCHANGED <<day, premiumUntil, charged, codes, redemptions, hand, restarts>>

NewInvoice(i, u, payload, promised) ==
  /\ invoices[i].status = "none"
  /\ invoices' = [invoices EXCEPT ![i] =
       [status |-> "active", user |-> u, days |-> payload.days,
        months |-> payload.months, promised |-> promised]]
  /\ UNCHANGED <<day, premiumUntil, charged, codes, redemptions, hand, restarts>>

\* POST /payments/cryptobot/invoice
CreateInvoice(i, u) ==
  \E m \in SoldMonths : NewInvoice(i, u, [days |-> 0, months |-> m], 30 * m)

\* POST /subscriptions/purchase/{plan}
Purchase(i, u) ==
  \E p \in SoldPlans : NewInvoice(i, u, Payload(p), PlanDays[p])

\* POST /payments/admin/create-invoice, which the Telegram bot calls
AdminCreateInvoice(i, u) ==
  \E p \in SoldPlans : NewInvoice(i, u, Payload(p), PlanDays[p])

\* The user pays; the provider knows, the backend does not.
Pay(i) ==
  /\ invoices[i].status # "none"
  /\ i \notin charged
  /\ charged' = charged \cup {i}
  /\ UNCHANGED <<day, premiumUntil, invoices, codes, redemptions, hand, restarts>>

-----------------------------------------------------------------------------
(* The webhook.                                                            *)

\* Slip: no idempotency check.
WebhookRead_Again(h, i) ==
  /\ i \in charged
  /\ MayStart(h, invoices[i].user)
  /\ ProviderWaits => \A g \in Handlers : hand[g].invoice # i
  /\ hand' = [hand EXCEPT ![h] =
       [Idle EXCEPT !.pc = "unpaid", !.user = invoices[i].user, !.invoice = i]]
  /\ UNCHANGED <<day, premiumUntil, invoices, charged, codes, redemptions, restarts>>

\* A delivery of the invoice_paid update, the first one or a later one.  An
\* invoice that is already paid is answered at once and changes nothing.
WebhookRead(h, i) ==
  /\ i \in charged
  /\ MayStart(h, invoices[i].user)
  /\ ProviderWaits => \A g \in Handlers : hand[g].invoice # i
  /\ invoices[i].status # "paid"
  /\ hand' = [hand EXCEPT ![h] =
       [Idle EXCEPT !.pc = "unpaid", !.user = invoices[i].user, !.invoice = i]]
  /\ UNCHANGED <<day, premiumUntil, invoices, charged, codes, redemptions, restarts>>

\* Slip: the update cannot be stored and the transaction is rolled back.
WebhookMark_RolledBack(h) ==
  /\ hand[h].pc = "unpaid"
  /\ hand' = [hand EXCEPT ![h] = Idle]
  /\ UNCHANGED <<day, premiumUntil, invoices, charged, codes, redemptions, restarts>>

\* Loading the user flushes the UPDATE of the invoice, whose row lock lasts until
\* the commit that follows: from there on no other delivery can get in between.
WebhookMark(h) ==
  LET i == hand[h].invoice IN
  /\ hand[h].pc = "unpaid"
  /\ invoices' = [invoices EXCEPT ![i] = [invoices[i] EXCEPT !.status = "paid"]]
  /\ hand' = [hand EXCEPT ![h] =
       [hand[h] EXCEPT !.pc = "grant", !.until = premiumUntil[hand[h].user],
                       !.days = invoices[i].days, !.months = invoices[i].months]]
  /\ UNCHANGED <<day, premiumUntil, charged, codes, redemptions, restarts>>

\* Slip: the new term starts today even if the old one still runs.
Grant_FromToday(h) ==
  /\ hand[h].pc = "grant"
  /\ premiumUntil' = [premiumUntil EXCEPT ![hand[h].user] =
       day + DaysOf(hand[h].days, hand[h].months)]
  /\ hand' = [hand EXCEPT ![h] =
       IF hand[h].invoice = None THEN Idle ELSE [hand[h] EXCEPT !.pc = "reward"]]
  /\ UNCHANGED <<day, invoices, charged, codes, redemptions, restarts>>

\* grant_premium: a flush of the columns computed from the handler's copy.
Grant(h) ==
  LET base == IF hand[h].until > day THEN hand[h].until ELSE day IN
  /\ hand[h].pc = "grant"
  /\ premiumUntil' = [premiumUntil EXCEPT ![hand[h].user] =
       base + DaysOf(hand[h].days, hand[h].months)]
  /\ hand' = [hand EXCEPT ![h] =
       IF hand[h].invoice = None THEN Idle ELSE [hand[h] EXCEPT !.pc = "reward"]]
  /\ UNCHANGED <<day, invoices, charged, codes, redemptions, restarts>>

\* The webhook answers.
Finish(h) ==
  /\ hand[h].pc = "reward"
  /\ hand' = [hand EXCEPT ![h] = Idle]
  /\ UNCHANGED <<day, premiumUntil, invoices, charged, codes, redemptions, restarts>>

-----------------------------------------------------------------------------
(* Promo codes.                                                            *)

NewCode(m) ==
  [issued |-> TRUE, revoked |-> FALSE, expired |-> FALSE, used |-> 0, months |-> m]

CreateCode(c) ==
  /\ ~codes[c].issued
  /\ \E m \in CodeMonths : codes' = [codes EXCEPT ![c] = NewCode(m)]
  /\ UNCHANGED <<day, premiumUntil, invoices, charged, redemptions, hand, restarts>>

RevokeCode(c) ==
  /\ codes[c].issued
  /\ codes' = [codes EXCEPT ![c] = [codes[c] EXCEPT !.revoked = TRUE]]
  /\ UNCHANGED <<day, premiumUntil, invoices, charged, redemptions, hand, restarts>>

\* expires_at passes
CodeExpires(c) ==
  /\ codes[c].issued /\ ~codes[c].expired
  /\ codes' = [codes EXCEPT ![c] = [codes[c] EXCEPT !.expired = TRUE]]
  /\ UNCHANGED <<day, premiumUntil, invoices, charged, redemptions, hand, restarts>>

\* The user is loaded when the request is authenticated, then the code and the
\* redemption are read.  The copy may be out of date by the time it is used
\* however close these reads are, so they are one step.
RedeemRead(h, u, c) ==
  /\ MayStart(h, u)
  /\ codes[c].issued /\ ~codes[c].revoked /\ ~codes[c].expired
  /\ <<c, u>> \notin redemptions
  /\ hand' = [hand EXCEPT ![h] =
       [Idle EXCEPT !.pc = "redeem", !.user = u, !.code = c, !.until = premiumUntil[u],
                    !.months = codes[c].months]]
  /\ UNCHANGED <<day, premiumUntil, invoices, charged, codes, redemptions, restarts>>

\* Slip: the UPDATE does not compare used_count with max_uses.
Redeemable_Uncounted(c, u) == ~codes[c].revoked /\ <<c, u>> \notin redemptions

\* The WHERE clause of the UPDATE and the unique constraint of the INSERT.
Redeemable(c, u) ==
  /\ ~codes[c].revoked
  /\ codes[c].used < MaxUses
  /\ <<c, u>> \notin redemptions

\* The UPDATE locks the code's row until the INSERT is committed with it.
RedeemCommit(h) ==
  LET c == hand[h].code
      u == hand[h].user IN
  /\ hand[h].pc = "redeem"
  /\ Redeemable(c, u)
  /\ codes' = [codes EXCEPT ![c] = [codes[c] EXCEPT !.used = codes[c].used + 1]]
  /\ redemptions' = redemptions \cup {<<c, u>>}
  /\ hand' = [hand EXCEPT ![h] = [hand[h] EXCEPT !.pc = "grant"]]
  /\ UNCHANGED <<day, premiumUntil, invoices, charged, restarts>>

RedeemRefused(h) ==
  /\ hand[h].pc = "redeem"
  /\ ~Redeemable(hand[h].code, hand[h].user)
  /\ hand' = [hand EXCEPT ![h] = Idle]
  /\ UNCHANGED <<day, premiumUntil, invoices, charged, codes, redemptions, restarts>>

-----------------------------------------------------------------------------

TimePasses ==
  /\ day' \in {d \in ClockDays : d > day}
  /\ UNCHANGED <<premiumUntil, invoices, charged, codes, redemptions, hand, restarts>>

\* The process ends between two steps of its handlers; what was not committed
\* is rolled back.
Restart ==
  /\ restarts < MaxRestarts
  /\ restarts' = restarts + 1
  /\ hand' = [h \in Handlers |-> Idle]
  /\ UNCHANGED <<day, premiumUntil, invoices, charged, codes, redemptions>>

Selling ==
  \E i \in Invoices :
    \/ \E u \in Buyers : CreateInvoice(i, u) \/ Purchase(i, u) \/ AdminCreateInvoice(i, u)
    \/ Pay(i)

Vouching ==
  \E c \in Codes : CreateCode(c) \/ RevokeCode(c) \/ CodeExpires(c)

Handling(h) ==
  \/ \E i \in Invoices : WebhookRead(h, i)
  \/ WebhookMark(h)
  \/ Grant(h)
  \/ \E u \in Buyers, c \in Codes : RedeemRead(h, u, c)
  \/ RedeemCommit(h)
  \/ RedeemRefused(h)

Next ==
  \/ Selling
  \/ Vouching
  \/ \E h \in Handlers : Handling(h) \/ Finish(h)
  \/ TimePasses
  \/ Restart

\* A handler that started goes on; the provider delivers an update again until a
\* delivery of it is answered.
Fairness ==
  /\ \A h \in Handlers :
       WF_vars(WebhookMark(h) \/ Grant(h) \/ Finish(h) \/ RedeemCommit(h) \/ RedeemRefused(h))
  /\ \A i \in Invoices : SF_vars(\E h \in Handlers : WebhookRead(h, i))

Spec == Init /\ [][Next]_vars

FairSpec == Spec /\ Fairness

-----------------------------------------------------------------------------
(* Properties.                                                             *)

\* Every variable keeps to its domain.
TypeOK ==
  /\ day \in Nat
  /\ premiumUntil \in [Users -> Nat]
  /\ invoices \in [Invoices -> Invoice]
  /\ charged \in SUBSET Invoices
  /\ codes \in [Codes -> Code]
  /\ redemptions \in SUBSET (Codes \X Users)
  /\ hand \in [Handlers -> Handler]
  /\ restarts \in Nat

PaidInvoices(u) == {i \in Invoices : invoices[i].user = u /\ invoices[i].status = "paid"}

RedeemedCodes(u) == {c \in Codes : <<c, u>> \in redemptions}

\* The days the paid invoices of a user come to, and those of the codes he redeemed.
DaysBought(u) ==
  SumFunctionOnSet([i \in Invoices |-> DaysOf(invoices[i].days, invoices[i].months)],
                   PaidInvoices(u))

DaysRedeemed(u) ==
  SumFunctionOnSet([c \in Codes |-> 30 * codes[c].months], RedeemedCodes(u))

\* The days the committed sales of a user come to.
Sold(u) == DaysBought(u) + DaysRedeemed(u)

AtRest(u) == \A h \in Handlers : hand[h].user # u

Delivered(u) == AtRest(u) => Sold(u) <= premiumUntil[u]

\* Nothing paid for is lost: as long as the process was not restarted, a user whose
\* requests and deliveries come one at a time has, once they are answered, at least
\* the sum of all paid invoices and redeemed codes, whether each came while the
\* last term was running or after it (webhook, redeem_promocode, grant_premium).
PremiumAddsUp == restarts = 0 => \A u \in Users \ Hasty : Delivered(u)

\* Nothing is given away: repeated deliveries of the same update, restarts and
\* overlapping requests never extend premium beyond what the user's sales come
\* to, counted from today (the idempotency check of the webhook).  It takes a
\* provider that delivers an update again only after the last delivery was answered:
\* two deliveries that both read the invoice before either marks it both grant it.
PremiumIsPaidFor == \A u \in Users : premiumUntil[u] <= day + Sold(u)

\* Every payment the provider took is marked paid in the end, restarts or not,
\* because the provider delivers the update again until it is answered.
PaymentsSeen ==
  \A i \in Invoices : (i \in charged) ~> (invoices[i].status = "paid")

Promise == INSTANCE Vouchers WITH
  open    <- {c \in Codes : codes[c].issued /\ ~codes[c].revoked},
  closed  <- {c \in Codes : codes[c].revoked},
  holders <- [c \in Codes |-> {u \in Users : <<c, u>> \in redemptions}]

\* However the redeeming handlers and the admin's requests overlap, a code goes to
\* one user at most and to nobody after it was revoked (redeem_promocode's UPDATE).
ImplementsVouchers == Promise!Spec

\* DOCUMENTATION.md: the webhook processes the payment and grants premium.  A sale
\* of a user that has no request in flight is a sale that was granted.
PaidIsDelivered == \A u \in Users \ Hasty : Delivered(u)
=============================================================================
