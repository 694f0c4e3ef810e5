----------------------------- MODULE Affiliate ------------------------------
(***************************************************************************)
(* The referral programme: the reward a referrer gets for a payment        *)
(* (process_referral_reward), the endpoints of the partners, and the       *)
(* withdrawal of a partner's balance through the payment provider, started *)
(* by the partner or by an admin (process_withdrawal).                     *)
(*                                                                         *)
(* Users, Invoices and Handlers are those of Payments.  The operators of    *)
(* the reward take what the webhook passes on; module Billing joins them.  *)
(***************************************************************************)
EXTENDS Payments

CONSTANTS
  Withdrawals,       \* ids of rows of withdrawal_requests
  Payouts,           \* withdraw and approve requests in flight at the same time
  Cpa,               \* TON for a first payment, 1.5 USD in the code
  Share,             \* TON for a later payment, a share of it in the code
  ShareFrom,         \* paid referrals from which the share is not 0, 101 in the code
  Amounts,           \* bound: amounts withdrawn, at least the minimum
  Funds,             \* TON the application has at the provider
  TransferMayTimeout \* whether the provider's transfer may go unanswered

ASSUME RowsAssumption    == None \notin Withdrawals
ASSUME AmountsAssumption == /\ Cpa \in Nat \ {0} /\ Share \in Nat \ {0}
                            /\ ShareFrom \in Nat /\ Funds \in Nat
                            /\ Amounts \subseteq Nat \ {0}
ASSUME TimeoutAssumption == TransferMayTimeout \in BOOLEAN

VARIABLES
  accounts,     \* affiliate columns of each users row
  txs,          \* rows of referral_transactions
  withdrawals,  \* rows of withdrawal_requests
  sent,         \* TON the provider has sent to each user's wallet
  reward,       \* local state of each process_referral_reward
  payout        \* local state of each withdraw or approve request

affiliateVars == <<accounts, txs, withdrawals, sent, reward, payout>>

-----------------------------------------------------------------------------
(* Data.                                                                   *)

\* A partner has a wallet: apply_partner requires one and nothing removes it.
Account == [partner : BOOLEAN, discount : BOOLEAN, balance : Int, refs : Nat]

NewAccount == [partner |-> FALSE, discount |-> FALSE, balance |-> 0, refs |-> 0]

Transaction ==
  [invoice : Invoices, referrer : Users, referred : Users,
   type : {"discount", "cpa", "revshare"}, amount : Nat]

Withdrawal ==
  [status : {"none", "pending", "processing", "completed", "rejected"},
   user : Users \cup {None}, amount : Nat]

NoWithdrawal == [status |-> "none", user |-> None, amount |-> 0]

\* shares: the handler's copy of the referrer has an affiliate_rate above 0.
Reward ==
  [pc : {"idle", "discount", "count", "cpa", "revshare", "nothing"},
   invoice : Invoices \cup {None}, referrer : Users \cup {None},
   referred : Users \cup {None}, shares : BOOLEAN]

NoReward ==
  [pc |-> "idle", invoice |-> None, referrer |-> None, referred |-> None, shares |-> FALSE]

Payout ==
  [pc : {"idle", "check", "insert", "process", "transfer", "settle", "unsettle"},
   user : Users \cup {None}, amount : Nat, row : Withdrawals \cup {None}]

NoPayout == [pc |-> "idle", user |-> None, amount |-> 0, row |-> None]

\* Withdrawals that stand in the way of another one.
ActiveOf(u) ==
  {w \in Withdrawals : withdrawals[w].user = u
                       /\ withdrawals[w].status \in {"pending", "processing"}}

Booked(i) == \E t \in txs : t.invoice = i

AffiliateInit ==
  /\ accounts = [u \in Users |-> NewAccount]
  /\ txs = {}
  /\ withdrawals = [w \in Withdrawals |-> NoWithdrawal]
  /\ sent = [u \in Users |-> 0]
  /\ reward = [h \in Handlers |-> NoReward]
  /\ payout = [p \in Payouts |-> NoPayout]

-----------------------------------------------------------------------------
(* The reward for the payment of invoice i by a user with a referrer.      *)

\* The referrer is loaded and no transaction of the invoice found.
RewardRead(h, i, referrer, referred) ==
  /\ reward[h].pc = "idle"
  /\ ~Booked(i)
  /\ reward' = [reward EXCEPT ![h] =
       [pc |-> IF accounts[referrer].partner THEN "count" ELSE "discount",
        invoice |-> i, referrer |-> referrer, referred |-> referred,
        shares |-> accounts[referrer].refs >= ShareFrom]]
  /\ UNCHANGED <<accounts, txs, withdrawals, sent, payout>>

\* Slip: every payment counts as a first one.
RewardCount_EveryTime(h, paidCount) ==
  /\ reward[h].pc = "count"
  /\ reward' = [reward EXCEPT ![h] = [reward[h] EXCEPT !.pc =
       IF paidCount >= 1 THEN "cpa" ELSE IF reward[h].shares THEN "revshare" ELSE "nothing"]]
  /\ UNCHANGED <<accounts, txs, withdrawals, sent, payout>>

\* Slip: tx_type keeps its initial value when there is nothing to book.
RewardCount_Unknown(h, paidCount) ==
  /\ reward[h].pc = "count"
  /\ reward' = [reward EXCEPT ![h] = [reward[h] EXCEPT !.pc =
       IF paidCount = 1 THEN "cpa" ELSE IF reward[h].shares THEN "revshare" ELSE "unknown"]]
  /\ UNCHANGED <<accounts, txs, withdrawals, sent, payout>>

\* paidCount is the number of paid invoices of the referred user.
RewardCount(h, paidCount) ==
  /\ reward[h].pc = "count"
  /\ reward' = [reward EXCEPT ![h] = [reward[h] EXCEPT !.pc =
       IF paidCount = 1 THEN "cpa" ELSE IF reward[h].shares THEN "revshare" ELSE "nothing"]]
  /\ UNCHANGED <<accounts, txs, withdrawals, sent, payout>>

\* The row that is inserted and the account it leads to.
Booking(h) ==
  LET r == reward[h] IN
  [invoice |-> r.invoice, referrer |-> r.referrer, referred |-> r.referred, type |-> r.pc,
   amount |-> CASE r.pc = "discount" -> 0 [] r.pc = "cpa" -> Cpa [] OTHER -> Share]

Credited(a, t) ==
  [a EXCEPT !.discount = a.discount \/ t.type = "discount",
            !.balance = a.balance + t.amount,
            !.refs = IF t.type = "cpa" THEN a.refs + 1 ELSE a.refs]

\* Slip: invoice_id is not unique.
RewardBook_Twice(h) ==
  /\ reward[h].pc \in {"discount", "cpa", "revshare"}
  /\ txs' = txs \cup {Booking(h)}
  /\ accounts' = [accounts EXCEPT ![reward[h].referrer] =
       Credited(accounts[reward[h].referrer], Booking(h))]
  /\ reward' = [reward EXCEPT ![h] = NoReward]
  /\ UNCHANGED <<withdrawals, sent, payout>>

\* The row and the UPDATE of the referrer are committed together.
RewardBook(h) ==
  /\ reward[h].pc \in {"discount", "cpa", "revshare"}
  /\ ~Booked(reward[h].invoice)
  /\ txs' = txs \cup {Booking(h)}
  /\ accounts' = [accounts EXCEPT ![reward[h].referrer] =
       Credited(accounts[reward[h].referrer], Booking(h))]
  /\ reward' = [reward EXCEPT ![h] = NoReward]
  /\ UNCHANGED <<withdrawals, sent, payout>>

\* The unique constraint on invoice_id fails the flush and everything is rolled
\* back, or there is nothing to book.
RewardDrop(h) ==
  /\ \/ reward[h].pc = "nothing"
     \/ reward[h].pc \in {"discount", "cpa", "revshare"} /\ Booked(reward[h].invoice)
  /\ reward' = [reward EXCEPT ![h] = NoReward]
  /\ UNCHANGED <<accounts, txs, withdrawals, sent, payout>>

-----------------------------------------------------------------------------
(* Partners.                                                               *)

ApplyPartner(u) ==
  /\ ~accounts[u].partner
  /\ accounts' = [accounts EXCEPT ![u] = [accounts[u] EXCEPT !.partner = TRUE]]
  /\ UNCHANGED <<txs, withdrawals, sent, reward, payout>>

\* POST /affiliate/withdraw: balance and amount are compared on the copy loaded
\* with the request.
WithdrawRead(p, u, amount) ==
  /\ payout[p].pc = "idle"
  /\ accounts[u].partner
  /\ amount <= accounts[u].balance
  /\ payout' = [payout EXCEPT ![p] =
       [pc |-> "check", user |-> u, amount |-> amount, row |-> None]]
  /\ UNCHANGED <<accounts, txs, withdrawals, sent, reward>>

\* One active withdrawal is an error of the user's, two make the query itself fail.
WithdrawCheck(p) ==
  /\ payout[p].pc = "check"
  /\ payout' = [payout EXCEPT ![p] =
       IF ActiveOf(payout[p].user) = {} THEN [payout[p] EXCEPT !.pc = "insert"]
                                        ELSE NoPayout]
  /\ UNCHANGED <<accounts, txs, withdrawals, sent, reward>>

WithdrawInsert(p) ==
  /\ payout[p].pc = "insert"
  /\ \E w \in Withdrawals :
       /\ withdrawals[w].status = "none"
       /\ withdrawals' = [withdrawals EXCEPT ![w] =
            [status |-> "pending", user |-> payout[p].user, amount |-> payout[p].amount]]
       /\ payout' = [payout EXCEPT ![p] = [payout[p] EXCEPT !.pc = "process", !.row = w]]
  /\ UNCHANGED <<accounts, txs, sent, reward>>

\* POST /affiliate/admin/withdrawals/{id}/approve
ApproveRead(p, w) ==
  /\ payout[p].pc = "idle"
  /\ withdrawals[w].status = "pending"
  /\ payout' = [payout EXCEPT ![p] =
       [pc |-> "process", user |-> withdrawals[w].user, amount |-> withdrawals[w].amount,
        row |-> w]]
  /\ UNCHANGED <<accounts, txs, withdrawals, sent, reward>>

\* POST /affiliate/admin/withdrawals/{id}/reject looks at no status.
Reject(w) ==
  /\ withdrawals[w].status # "none"
  /\ withdrawals' = [withdrawals EXCEPT ![w] = [withdrawals[w] EXCEPT !.status = "rejected"]]
  /\ UNCHANGED <<accounts, txs, sent, reward, payout>>

-----------------------------------------------------------------------------
(* process_withdrawal.                                                     *)

SetStatus(w, status) ==
  withdrawals' = [withdrawals EXCEPT ![w] = [withdrawals[w] EXCEPT !.status = status]]

Step(p, from, to) ==
  /\ payout[p].pc = from
  /\ payout' = [payout EXCEPT ![p] =
       IF to = "idle" THEN NoPayout ELSE [payout[p] EXCEPT !.pc = to]]

Process(p) ==
  /\ Step(p, "process", "transfer")
  /\ SetStatus(payout[p].row, "processing")
  /\ UNCHANGED <<accounts, txs, sent, reward>>

SentInAll == SumFunction(sent)

TransferSent(p, next) ==
  /\ Step(p, "transfer", next)
  /\ SentInAll + payout[p].amount <= Funds
  /\ sent' = [sent EXCEPT ![payout[p].user] = sent[payout[p].user] + payout[p].amount]
  /\ UNCHANGED <<accounts, txs, withdrawals, reward>>

TransferNotSent(p, next) ==
  /\ Step(p, "transfer", next)
  /\ UNCHANGED <<accounts, txs, withdrawals, sent, reward>>

\* Slip: the answer of the transfer is not looked at.
Transfer_Assumed(p) == TransferSent(p, "settle") \/ TransferNotSent(p, "settle")

Transfer(p) == TransferSent(p, "settle") \/ TransferNotSent(p, "unsettle")

\* The call raises, whether the provider carried it out or not: the rollback finds
\* nothing to undo and the row stays "processing".
TransferTimesOut(p) ==
  TransferMayTimeout /\ (TransferSent(p, "idle") \/ TransferNotSent(p, "idle"))

\* The row and the balance are committed together.
Settle(p) ==
  LET u == payout[p].user IN
  /\ Step(p, "settle", "idle")
  /\ SetStatus(payout[p].row, "completed")
  /\ accounts' = [accounts EXCEPT ![u] =
       [accounts[u] EXCEPT !.balance = accounts[u].balance - payout[p].amount]]
  /\ UNCHANGED <<txs, sent, reward>>

Unsettle(p) ==
  /\ Step(p, "unsettle", "idle")
  /\ SetStatus(payout[p].row, "pending")
  /\ UNCHANGED <<accounts, txs, sent, reward>>

AffiliateRestart ==
  /\ reward' = [h \in Handlers |-> NoReward]
  /\ payout' = [p \in Payouts |-> NoPayout]
  /\ UNCHANGED <<accounts, txs, withdrawals, sent>>

PayingOut ==
  \/ \E u \in Users : ApplyPartner(u)
  \/ \E p \in Payouts :
       \/ \E u \in Users, amount \in Amounts : WithdrawRead(p, u, amount)
       \/ WithdrawCheck(p)
       \/ WithdrawInsert(p)
       \/ \E w \in Withdrawals : ApproveRead(p, w)
       \/ Process(p)
       \/ Transfer(p)
       \/ TransferTimesOut(p)
       \/ Settle(p)
       \/ Unsettle(p)
  \/ \E w \in Withdrawals : Reject(w)
=============================================================================
