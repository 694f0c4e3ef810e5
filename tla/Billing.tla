------------------------------ MODULE Billing -------------------------------
(***************************************************************************)
(* Payments and the referral programme together.  The webhook of a payment *)
(* ends in the reward of the payer's referrer, which reads the invoices;   *)
(* withdrawals run beside it on the same balances; a restart of the        *)
(* process cuts all of them.                                               *)
(***************************************************************************)
EXTENDS Affiliate

CONSTANT
  ReferredBy     \* users.referred_by; no code of the repository writes the column

ASSUME ReferredByAssumption == ReferredBy \in [Users -> Users \cup {None}]

allVars == <<vars, affiliateVars>>

BillingInit == Init /\ AffiliateInit

-----------------------------------------------------------------------------
(* The last part of the webhook.                                           *)

Referrer(h) == ReferredBy[hand[h].user]

PaidCount(u) == Cardinality(PaidInvoices(u))

\* No referrer, or a transaction of the invoice exists: the webhook answers.
NoRewardDue(h) ==
  /\ hand[h].pc = "reward" /\ reward[h].pc = "idle"
  /\ Referrer(h) = None \/ Booked(hand[h].invoice)
  /\ Finish(h)
  /\ UNCHANGED affiliateVars

RewardStarts(h) ==
  /\ hand[h].pc = "reward" /\ Referrer(h) # None
  /\ RewardRead(h, hand[h].invoice, Referrer(h), hand[h].user)
  /\ UNCHANGED vars

RewardCounts(h) ==
  /\ RewardCount(h, PaidCount(reward[h].referred))
  /\ UNCHANGED vars

RewardEnds(h) ==
  /\ RewardBook(h) \/ RewardDrop(h)
  /\ Finish(h)

BillingRestart == Restart /\ AffiliateRestart

BillingNext ==
  \/ (Selling \/ Vouching \/ TimePasses) /\ UNCHANGED affiliateVars
  \/ \E h \in Handlers :
       \/ Handling(h) /\ UNCHANGED affiliateVars
       \/ NoRewardDue(h) \/ RewardStarts(h) \/ RewardCounts(h) \/ RewardEnds(h)
  \/ PayingOut /\ UNCHANGED vars
  \/ BillingRestart

BillingSpec == BillingInit /\ [][BillingNext]_allVars

-----------------------------------------------------------------------------
(* Properties.                                                             *)

\* Every variable keeps to its domain.
BillingTypeOK ==
  /\ TypeOK
  /\ accounts \in [Users -> Account]
  /\ txs \in SUBSET Transaction
  /\ withdrawals \in [Withdrawals -> Withdrawal]
  /\ sent \in [Users -> Nat]
  /\ reward \in [Handlers -> Reward]
  /\ payout \in [Payouts -> Payout]

CpasOf(r) == {t \in txs : t.referrer = r /\ t.type = "cpa"}

\* The counter that decides a partner's rate never counts one referral twice: it is
\* the number of users with a CPA booking of his, and each has one, whatever is
\* delivered, paid and restarted (is_first_payment and the unique invoice_id).  It
\* may count too few: a user who paid has no CPA when two of his payments were
\* marked before either was counted, when the process ended before the reward, or
\* when his referrer was no partner yet.
NobodyCountedTwice ==
  \A r \in Users :
    /\ accounts[r].refs = Cardinality({t.referred : t \in CpasOf(r)})
    /\ \A s, t \in CpasOf(r) : s.referred = t.referred => s = t

EarnedBy(u) == SumFunctionOnSet([t \in txs |-> t.amount], {t \in txs : t.referrer = u})

Settling(u) ==
  SumFunctionOnSet([p \in Payouts |-> payout[p].amount],
                   {p \in Payouts : payout[p].pc = "settle" /\ payout[p].user = u})

\* A balance is only ever reduced by money that reached the wallet: what a partner
\* earned and no longer has was sent, and so was what a withdrawal is about to
\* take, whatever timeouts, restarts and admin requests came in between.
NeverDebitedUnpaid ==
  \A u \in Users : EarnedBy(u) - accounts[u].balance + Settling(u) <= sent[u]

\* A payment rewards the referrer once and only after it was marked paid and
\* granted to the payer, however many deliveries of it are handled together.
RewardsFollowPayments ==
  \A t \in txs :
    /\ invoices[t.invoice].status = "paid"
    /\ premiumUntil[t.referred] > 0
    /\ \A s \in txs : s.invoice = t.invoice => s = t
=============================================================================
