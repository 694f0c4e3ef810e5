--------------------------- MODULE BillingProofs ----------------------------
(***************************************************************************)
(* What holds of payments, and of payments and the referral programme      *)
(* together, for every set of users, invoices, codes, handlers and         *)
(* withdrawals, however requests, deliveries and restarts interleave.      *)
(* First of Payments alone: the types, that the promo codes keep the       *)
(* promise of Vouchers, that the premium a user has adds up to what was    *)
(* sold to him, and that he has no more than that.  Then of Billing: that  *)
(* adding the rewards and the withdrawals disturbs nothing Payments        *)
(* promises, that a reward follows a payment, that no referral is counted  *)
(* twice, and that no balance is reduced by money that was not sent.       *)
(***************************************************************************)
EXTENDS Billing, FiniteSetTheorems, TLAPS

-----------------------------------------------------------------------------
(* Sums over finite sets.  The sums of the model are the library's fold; what *)
(* is needed of it follows by induction on finite sets, which is used with a  *)
(* set of sets in the place of a predicate.                                   *)

\* A family of sets that has a finite set's subset once it has what is left of it
\* without any one element has the set itself.
LEMMA FiniteInduction ==
  ASSUME NEW S, IsFiniteSet(S), NEW F,
         \A T \in SUBSET S : (\A x \in T : T \ {x} \in F) => T \in F
  PROVE  S \in F
  <1> DEFINE Bad == {T \in SUBSET S : T \notin F}
  <1>1. SUFFICES ASSUME S \notin F PROVE FALSE
    OBVIOUS
  <1>2. Bad # {} /\ Bad \subseteq SUBSET S
    BY <1>1
  <1>3. IsWellFoundedOn(StrictSubsetOrdering(S), SUBSET S)
    BY FS_StrictSubsetOrderingWellFounded, FS_FiniteSubsetsOfFinite
  <1>4. PICK T \in Bad : \A U \in Bad : <<U, T>> \notin StrictSubsetOrdering(S)
    <2> HIDE DEF Bad
    <2> QED BY <1>2, <1>3, WFMin
  <1>5. ASSUME NEW x \in T PROVE T \ {x} \in F
    <2>1. T \ {x} \in SUBSET S /\ T \in SUBSET S /\ T \ {x} \subseteq T /\ T \ {x} # T
      BY <1>4, <1>5
    <2>2. <<T \ {x}, T>> \in StrictSubsetOrdering(S)
      BY <2>1 DEF StrictSubsetOrdering
    <2> QED BY <1>4, <2>1, <2>2
  <1> QED BY <1>4, <1>5

\* The element the fold takes next, the sum it computes for a set from a table of
\* sums, and a table that agrees with it.
Chosen(s)         == CHOOSE x \in s : TRUE
Entry(t, w, s)    == IF s = {} THEN 0 ELSE w[Chosen(s)] + t[s \ {Chosen(s)}]
IsTable(t, w, D)  == t = [s \in D |-> Entry(t, w, s)]

\* A sum is an entry of such a table.
LEMMA SumIsEntry ==
  \A w, S : SumFunctionOnSet(w, S) = (CHOOSE t : IsTable(t, w, SUBSET S))[S]
  BY DEF SumFunctionOnSet, FoldFunctionOnSet, MapThenFoldSet, IsTable, Entry, Chosen

\* There is a table: it is made for the subsets of one more element at a time.
LEMMA TableExists ==
  ASSUME NEW S, IsFiniteSet(S), NEW w
  PROVE  \E t : IsTable(t, w, SUBSET S)
  <1> DEFINE D(T) == {s \in SUBSET S : Cardinality(s) <= Cardinality(T)}
             F == {T \in SUBSET S : \E t : IsTable(t, w, D(T))}
  <1>1. \A T \in SUBSET S : IsFiniteSet(T) /\ Cardinality(T) \in Nat
    BY FS_Subset, FS_CardinalityType
  <1>2. {} \in F
    <2>1. D({}) = {{}}
      BY <1>1, FS_EmptySet
    <2>2. IsTable([s \in {{}} |-> 0], w, {{}})
      BY DEF IsTable, Entry
    <2> QED BY <2>1, <2>2
  <1>3. ASSUME NEW R \in SUBSET S, NEW x \in R, R \ {x} \in F
        PROVE  R \in F
    <2> DEFINE T == R \ {x}
    <2>1. PICK t : IsTable(t, w, D(T))
      BY <1>3
    <2>2. Cardinality(R) = Cardinality(T) + 1 /\ T \in SUBSET S
      <3>1. Cardinality(T) = Cardinality(R) - 1
        BY <1>1, <1>3, FS_RemoveElement
      <3> QED BY <1>1, <3>1
    <2> DEFINE next == [s \in D(R) |-> Entry(t, w, s)]
    <2> HIDE DEF T
    <2>3. \A s \in D(T) : s \in D(R) /\ next[s] = t[s]
      <3>1. \A s \in D(T) : t[s] = Entry(t, w, s)
        <4> HIDE DEF D
        <4> QED BY <2>1 DEF IsTable
      <3>2. D(T) \subseteq D(R)
        BY <1>1, <2>2
      <3> HIDE DEF D
      <3> QED BY <3>1, <3>2
    <2>4. \A s \in D(R) : s # {} => s \ {Chosen(s)} \in D(T)
      <3>1. SUFFICES ASSUME NEW s \in SUBSET S, s # {},
                            Cardinality(s) <= Cardinality(T) + 1
                     PROVE  Cardinality(s \ {Chosen(s)}) <= Cardinality(T)
        BY <2>2
      <3>2. Chosen(s) \in s
        BY <3>1 DEF Chosen
      <3> QED BY <1>1, <2>2, <3>1, <3>2, FS_RemoveElement
    <2>5. \A s \in D(R) : Entry(next, w, s) = Entry(t, w, s)
      <3> HIDE DEF next, D
      <3> QED BY <2>3, <2>4 DEF Entry
    <2>6. IsTable(next, w, D(R))
      <3> HIDE DEF D
      <3> QED BY <2>5 DEF IsTable
    <2> QED BY <2>6
  <1>4. S \in F
    <2>1. \A T \in SUBSET S : (\A x \in T : T \ {x} \in F) => T \in F
      <3> HIDE DEF F
      <3> TAKE T \in SUBSET S
      <3>1. CASE T = {}
        BY <1>2, <3>1
      <3>2. CASE T # {}
        BY <1>3, <3>2
      <3> QED BY <3>1, <3>2
    <2> HIDE DEF F
    <2> QED BY <2>1, FiniteInduction
  <1>5. D(S) = SUBSET S
    BY <1>1, FS_Subset
  <1> QED BY <1>4, <1>5

\* Tables for weights that agree on a set have the same entry for it.
LEMMA TablesAgree ==
  ASSUME NEW S, IsFiniteSet(S), NEW v, NEW w, \A x \in S : v[x] = w[x],
         NEW D, NEW E, SUBSET S \subseteq D, SUBSET S \subseteq E,
         NEW f, IsTable(f, v, D), NEW g, IsTable(g, w, E)
  PROVE  f[S] = g[S]
  <1> DEFINE F == {T \in SUBSET S : f[T] = g[T]}
  <1>1. ASSUME NEW T \in SUBSET S, \A x \in T : T \ {x} \in F
        PROVE  T \in F
    <2>1. f[T] = Entry(f, v, T) /\ g[T] = Entry(g, w, T)
      BY DEF IsTable
    <2>2. CASE T = {}
      BY <2>1, <2>2 DEF Entry
    <2>3. CASE T # {}
      <3>1. Chosen(T) \in T /\ Chosen(T) \in S
        BY <2>3 DEF Chosen
      <3>2. f[T \ {Chosen(T)}] = g[T \ {Chosen(T)}]
        BY <1>1, <3>1
      <3> QED BY <2>1, <2>3, <3>1, <3>2 DEF Entry
    <2> QED BY <2>2, <2>3
  <1>2. S \in F
    <2> HIDE DEF F
    <2> QED BY <1>1, FiniteInduction
  <1> QED BY <1>2

\* A sum depends on the weights of the elements only.
LEMMA SumSame ==
  ASSUME NEW S, IsFiniteSet(S), NEW v, NEW w, \A x \in S : v[x] = w[x]
  PROVE  SumFunctionOnSet(v, S) = SumFunctionOnSet(w, S)
  <1> DEFINE f == CHOOSE t : IsTable(t, v, SUBSET S)
             g == CHOOSE t : IsTable(t, w, SUBSET S)
  <1>1. IsTable(f, v, SUBSET S) /\ IsTable(g, w, SUBSET S)
    BY TableExists
  <1>2. SumFunctionOnSet(v, S) = f[S] /\ SumFunctionOnSet(w, S) = g[S]
    BY SumIsEntry
  <1> HIDE DEF f, g
  <1> QED BY <1>1, <1>2, TablesAgree

\* The sum over no element.
LEMMA SumEmpty == \A w : SumFunctionOnSet(w, {}) = 0
  <1> TAKE w
  <1> DEFINE f == CHOOSE t : IsTable(t, w, SUBSET {})
  <1>1. IsTable(f, w, SUBSET {})
    BY TableExists, FS_EmptySet
  <1>2. SumFunctionOnSet(w, {}) = f[{}]
    BY SumIsEntry
  <1> HIDE DEF f
  <1> QED BY <1>1, <1>2 DEF IsTable, Entry

\* The element the fold takes first can be taken out.
LEMMA SumChosen ==
  ASSUME NEW S, IsFiniteSet(S), S # {}, NEW w
  PROVE  SumFunctionOnSet(w, S) = w[Chosen(S)] + SumFunctionOnSet(w, S \ {Chosen(S)})
  <1> DEFINE R == S \ {Chosen(S)}
             f == CHOOSE t : IsTable(t, w, SUBSET S)
             g == CHOOSE t : IsTable(t, w, SUBSET R)
  <1>1. IsFiniteSet(R) /\ SUBSET R \subseteq SUBSET S
    BY FS_RemoveElement
  <1>2. IsTable(f, w, SUBSET S) /\ IsTable(g, w, SUBSET R)
    BY <1>1, TableExists
  <1>3. SumFunctionOnSet(w, S) = f[S] /\ SumFunctionOnSet(w, R) = g[R]
    BY SumIsEntry
  <1> HIDE DEF f, g
  <1>4. f[R] = g[R]
    <2> HIDE DEF R
    <2> QED BY <1>1, <1>2, TablesAgree
  <1>5. f[S] = w[Chosen(S)] + f[R]
    BY <1>2 DEF IsTable, Entry
  <1> QED BY <1>3, <1>4, <1>5

\* A sum of natural numbers is one.
LEMMA SumIsNat ==
  ASSUME NEW S, IsFiniteSet(S), NEW w, \A x \in S : w[x] \in Nat
  PROVE  SumFunctionOnSet(w, S) \in Nat
  <1> DEFINE F == {T \in SUBSET S : SumFunctionOnSet(w, T) \in Nat}
  <1>1. ASSUME NEW T \in SUBSET S, \A x \in T : T \ {x} \in F
        PROVE  T \in F
    <2>1. CASE T = {}
      BY <2>1, SumEmpty
    <2>2. CASE T # {}
      <3>1. Chosen(T) \in T /\ IsFiniteSet(T)
        BY <2>2, FS_Subset DEF Chosen
      <3>2. SumFunctionOnSet(w, T) = w[Chosen(T)] + SumFunctionOnSet(w, T \ {Chosen(T)})
        BY <2>2, <3>1, SumChosen
      <3>3. w[Chosen(T)] \in Nat /\ SumFunctionOnSet(w, T \ {Chosen(T)}) \in Nat
        BY <1>1, <3>1
      <3> QED BY <3>2, <3>3
    <2> QED BY <2>1, <2>2
  <1>2. S \in F
    <2> HIDE DEF F
    <2> QED BY <1>1, FiniteInduction
  <1> QED BY <1>2

\* Any element can be taken out: the order does not matter.
LEMMA SumRemove ==
  ASSUME NEW S, IsFiniteSet(S), NEW w, \A x \in S : w[x] \in Nat, NEW x \in S
  PROVE  SumFunctionOnSet(w, S) = w[x] + SumFunctionOnSet(w, S \ {x})
  <1> DEFINE Sm(T) == SumFunctionOnSet(w, T)
             F == {T \in SUBSET S : \A y \in T : Sm(T) = w[y] + Sm(T \ {y})}
  <1>1. ASSUME NEW T \in SUBSET S
        PROVE  /\ IsFiniteSet(T) /\ Sm(T) \in Nat
               /\ T # {} => Sm(T) = w[Chosen(T)] + Sm(T \ {Chosen(T)})
    BY FS_Subset, SumIsNat, SumChosen
  <1>2. ASSUME NEW T \in SUBSET S, \A y \in T : T \ {y} \in F, NEW y \in T
        PROVE  Sm(T) = w[y] + Sm(T \ {y})
    <2> DEFINE z == Chosen(T)
    <2>1. z \in T
      BY DEF Chosen
    <2>2. Sm(T) = w[z] + Sm(T \ {z})
      BY <1>1
    <2> HIDE DEF z, Sm
    <2>3. CASE y = z
      BY <2>2, <2>3
    <2>4. CASE y # z
      <3>1. Sm(T \ {z}) = w[y] + Sm((T \ {z}) \ {y})
        BY <1>2, <2>1, <2>4
      <3>2. Sm(T \ {y}) = w[z] + Sm((T \ {y}) \ {z})
        BY <1>2, <2>1, <2>4
      <3>3. (T \ {z}) \ {y} = (T \ {y}) \ {z} /\ (T \ {y}) \ {z} \in SUBSET S
        OBVIOUS
      <3>4. w[y] \in Nat /\ w[z] \in Nat /\ Sm((T \ {y}) \ {z}) \in Nat
        BY <1>1, <2>1, <3>3
      <3> QED BY <2>2, <3>1, <3>2, <3>3, <3>4
    <2> QED BY <2>3, <2>4
  <1>3. S \in F
    <2> HIDE DEF Sm
    <2>1. \A T \in SUBSET S : (\A y \in T : T \ {y} \in F) => T \in F
      BY <1>2
    <2> HIDE DEF F
    <2> QED BY <2>1, FiniteInduction
  <1> QED BY <1>3

\* One more element adds its weight.
LEMMA SumAdd ==
  ASSUME NEW S, IsFiniteSet(S), NEW w, NEW x, x \notin S, w[x] \in Nat,
         \A y \in S : w[y] \in Nat
  PROVE  /\ IsFiniteSet(S \cup {x})
         /\ SumFunctionOnSet(w, S \cup {x}) = SumFunctionOnSet(w, S) + w[x]
  <1>1. IsFiniteSet(S \cup {x}) /\ (S \cup {x}) \ {x} = S
    BY FS_AddElement
  <1>2. SumFunctionOnSet(w, S) \in Nat
    BY SumIsNat
  <1>3. SumFunctionOnSet(w, S \cup {x}) = w[x] + SumFunctionOnSet(w, S)
    BY <1>1, SumRemove
  <1> QED BY <1>1, <1>2, <1>3

-----------------------------------------------------------------------------
(* Types.                                                                  *)

\* What a handler at each of its waiting points works for.
HandOK ==
  \A h \in Handlers :
    /\ hand[h].pc # "idle" => hand[h].user \in Users
    /\ hand[h].pc = "unpaid" => hand[h].invoice \in charged
    /\ hand[h].pc = "redeem" => hand[h].code \in Codes

\* An invoice that exists is somebody's.
InvoicesOwned ==
  \A i \in Invoices : invoices[i].status # "none" => invoices[i].user \in Users

ChargedExist == \A i \in charged : invoices[i].status # "none"

TypeInv == TypeOK /\ HandOK /\ InvoicesOwned /\ ChargedExist

\* Every plan lasts a number of days or months.
LEMMA PlansAreNat ==
  ASSUME NEW p \in Plans
  PROVE  PlanDays[p] \in Nat /\ Payload(p).days \in Nat /\ Payload(p).months \in Nat
  <1>1. CASE p = "weekly" BY <1>1 DEF PlanDays, Payload
  <1>2. CASE p = "monthly" BY <1>2 DEF PlanDays, PlanMonths, Payload
  <1>3. CASE p = "quarterly" BY <1>3 DEF PlanDays, PlanMonths, Payload
  <1>4. CASE p = "yearly" BY <1>4 DEF PlanDays, PlanMonths, Payload
  <1> QED BY <1>1, <1>2, <1>3, <1>4 DEF Plans

\* The initial state is well typed.
LEMMA InitTypeInv == Init => TypeInv
  BY RestartsAssumption
     DEF Init, TypeInv, TypeOK, HandOK, InvoicesOwned, ChargedExist, Invoice, NoInvoice, Code,
         NoCode, Handler, Idle

\* A new invoice with a payload of natural numbers keeps the types.
LEMMA NewInvoiceTypeInv ==
  ASSUME TypeInv, NEW i \in Invoices, NEW u \in Users, NEW payload, NEW promised \in Nat,
         payload.days \in Nat, payload.months \in Nat, NewInvoice(i, u, payload, promised)
  PROVE  TypeInv'
  <1> DEFINE row == [status |-> "active", user |-> u, days |-> payload.days,
                     months |-> payload.months, promised |-> promised]
  <1>1. row \in Invoice /\ row.status = "active" /\ row.user = u
    BY DEF Invoice
  <1>2. invoices' = [invoices EXCEPT ![i] = row]
    BY DEF NewInvoice
  <1> HIDE DEF row
  <1> QED BY <1>1, <1>2
    DEF NewInvoice, TypeInv, TypeOK, HandOK, InvoicesOwned, ChargedExist

\* Selling an invoice or paying it keeps the types.
LEMMA SellingTypeInv ==
  ASSUME TypeInv, Selling PROVE TypeInv'
  <1>1. ASSUME NEW i \in Invoices, NEW u \in Buyers, CreateInvoice(i, u) PROVE TypeInv'
    <2>1. PICK m \in SoldMonths : NewInvoice(i, u, [days |-> 0, months |-> m], 30 * m)
      BY <1>1 DEF CreateInvoice
    <2>2. m \in Nat /\ 30 * m \in Nat /\ u \in Users
      BY SoldAssumption
    <2> QED BY <2>1, <2>2, NewInvoiceTypeInv
  <1>2. ASSUME NEW i \in Invoices, NEW u \in Buyers, Purchase(i, u) \/ AdminCreateInvoice(i, u)
        PROVE  TypeInv'
    <2>1. PICK p \in SoldPlans : NewInvoice(i, u, Payload(p), PlanDays[p])
      BY <1>2 DEF Purchase, AdminCreateInvoice
    <2>2. p \in Plans /\ u \in Users
      BY SoldAssumption
    <2> QED BY <2>1, <2>2, PlansAreNat, NewInvoiceTypeInv
  <1>3. ASSUME NEW i \in Invoices, Pay(i) PROVE TypeInv'
    BY <1>3 DEF Pay, TypeInv, TypeOK, HandOK, InvoicesOwned, ChargedExist
  <1> QED BY <1>1, <1>2, <1>3 DEF Selling

\* The admin's requests and the expiry of a code keep the types.
LEMMA VouchingTypeInv ==
  ASSUME TypeInv, Vouching PROVE TypeInv'
  <1> SUFFICES ASSUME NEW c \in Codes, CreateCode(c) \/ RevokeCode(c) \/ CodeExpires(c)
               PROVE  TypeInv'
    BY DEF Vouching
  <1>1. codes[c] \in Code
    BY DEF TypeInv, TypeOK
  <1>2. PICK row \in Code : codes' = [codes EXCEPT ![c] = row]
    <2>1. [codes[c] EXCEPT !.revoked = TRUE] \in Code
          /\ [codes[c] EXCEPT !.expired = TRUE] \in Code
      BY <1>1 DEF Code
    <2>2. ASSUME NEW m \in CodeMonths
          PROVE  NewCode(m) \in Code
      <3>1. m \in Nat /\ 0 \in Nat
        BY SoldAssumption
      <3> QED BY <3>1, Zenon DEF Code, NewCode
    <2> QED BY <2>1, <2>2 DEF CreateCode, RevokeCode, CodeExpires
  <1>3. UNCHANGED <<day, premiumUntil, invoices, charged, redemptions, hand, restarts>>
    BY DEF CreateCode, RevokeCode, CodeExpires
  <1> QED BY <1>2, <1>3 DEF TypeInv, TypeOK, HandOK, InvoicesOwned, ChargedExist

\* The part of HandOK that is about one handler.
HandlerOK(q) ==
  /\ q.pc # "idle" => q.user \in Users
  /\ q.pc = "unpaid" => q.invoice \in charged
  /\ q.pc = "redeem" => q.code \in Codes

\* A handler that moves to a well-formed local state keeps the handlers well formed.
LEMMA HandlerStep ==
  ASSUME TypeInv, NEW h \in Handlers, NEW q \in Handler, HandlerOK(q),
         hand' = [hand EXCEPT ![h] = q], UNCHANGED charged
  PROVE  hand' \in [Handlers -> Handler] /\ HandOK'
  BY DEF TypeInv, TypeOK, HandOK, HandlerOK

\* The idle state is well formed.
LEMMA IdleOK == Idle \in Handler /\ HandlerOK(Idle)
  BY DEF Idle, Handler, HandlerOK

\* Taking up a delivery and marking its invoice keep the types.
LEMMA WebhookTypeInv ==
  ASSUME TypeInv, NEW h \in Handlers,
         (\E i \in Invoices : WebhookRead(h, i)) \/ WebhookMark(h) \/ Finish(h)
  PROVE  TypeInv'
  <1>1. ASSUME NEW i \in Invoices, WebhookRead(h, i) PROVE TypeInv'
    <2> DEFINE q == [Idle EXCEPT !.pc = "unpaid", !.user = invoices[i].user, !.invoice = i]
    <2>1. invoices[i].user \in Users
      BY <1>1 DEF WebhookRead, TypeInv, InvoicesOwned, ChargedExist
    <2>9. i \in charged
      BY <1>1 DEF WebhookRead
    <2>2. q \in Handler /\ HandlerOK(q)
      BY <2>1, <2>9 DEF Idle, Handler, HandlerOK
    <2>3. hand' = [hand EXCEPT ![h] = q]
      BY <1>1 DEF WebhookRead
    <2> HIDE DEF q
    <2>4. hand' \in [Handlers -> Handler] /\ HandOK'
      BY <1>1, <2>2, <2>3, HandlerStep DEF WebhookRead
    <2> QED BY <1>1, <2>4 DEF WebhookRead, TypeInv, TypeOK, InvoicesOwned, ChargedExist
  <1>2. ASSUME WebhookMark(h) PROVE TypeInv'
    <2> DEFINE i == hand[h].invoice
               q == [hand[h] EXCEPT !.pc = "grant", !.until = premiumUntil[hand[h].user],
                                    !.days = invoices[i].days, !.months = invoices[i].months]
               row == [invoices[i] EXCEPT !.status = "paid"]
    <2>1. i \in Invoices /\ i \in charged /\ hand[h].user \in Users /\ hand[h] \in Handler
      BY <1>2 DEF WebhookMark, TypeInv, TypeOK, HandOK
    <2>2. invoices[i] \in Invoice /\ premiumUntil[hand[h].user] \in Nat
      BY <2>1 DEF TypeInv, TypeOK
    <2>3. q \in Handler /\ HandlerOK(q)
      BY <2>1, <2>2 DEF Handler, HandlerOK, Invoice
    <2>4. row \in Invoice /\ row.user = invoices[i].user /\ row.status = "paid"
      BY <2>2 DEF Invoice
    <2>5. hand' = [hand EXCEPT ![h] = q] /\ invoices' = [invoices EXCEPT ![i] = row]
      BY <1>2 DEF WebhookMark
    <2>6. InvoicesOwned' /\ invoices' \in [Invoices -> Invoice] /\ ChargedExist'
      <3>1. invoices[i].user \in Users
        BY <2>1 DEF TypeInv, InvoicesOwned, ChargedExist
      <3> HIDE DEF row
      <3> QED BY <1>2, <2>1, <2>4, <2>5, <3>1
        DEF TypeInv, TypeOK, InvoicesOwned, ChargedExist, WebhookMark
    <2> HIDE DEF q
    <2>7. hand' \in [Handlers -> Handler] /\ HandOK'
      BY <1>2, <2>3, <2>5, HandlerStep DEF WebhookMark
    <2> QED BY <1>2, <2>6, <2>7 DEF WebhookMark, TypeInv, TypeOK
  <1>3. ASSUME Finish(h) PROVE TypeInv'
    <2>1. hand' \in [Handlers -> Handler] /\ HandOK'
      BY <1>3, IdleOK, HandlerStep DEF Finish
    <2> QED BY <1>3, <2>1 DEF Finish, TypeInv, TypeOK, InvoicesOwned, ChargedExist
  <1> QED BY <1>1, <1>2, <1>3

\* Granting keeps the types: a term ends at a day number.
LEMMA GrantTypeInv ==
  ASSUME TypeInv, NEW h \in Handlers, Grant(h) PROVE TypeInv'
  <1> DEFINE q == IF hand[h].invoice = None THEN Idle ELSE [hand[h] EXCEPT !.pc = "reward"]
             base == IF hand[h].until > day THEN hand[h].until ELSE day
             term == DaysOf(hand[h].days, hand[h].months)
  <1>1. hand[h] \in Handler /\ hand[h].user \in Users /\ day \in Nat
    BY DEF Grant, TypeInv, TypeOK, HandOK
  <1>2. base \in Nat /\ term \in Nat
    BY <1>1 DEF Handler, DaysOf
  <1>3. [hand[h] EXCEPT !.pc = "reward"] \in Handler
        /\ HandlerOK([hand[h] EXCEPT !.pc = "reward"])
    BY <1>1 DEF Handler, HandlerOK
  <1>4. q \in Handler /\ HandlerOK(q)
    BY <1>3, IdleOK
  <1>5. /\ hand' = [hand EXCEPT ![h] = q]
        /\ premiumUntil' = [premiumUntil EXCEPT ![hand[h].user] = base + term]
        /\ UNCHANGED <<day, invoices, charged, codes, redemptions, restarts>>
    BY DEF Grant
  <1> HIDE DEF q, base, term
  <1>6. hand' \in [Handlers -> Handler] /\ HandOK'
    BY <1>4, <1>5, HandlerStep
  <1>7. premiumUntil' \in [Users -> Nat]
    BY <1>1, <1>2, <1>5 DEF TypeInv, TypeOK
  <1> QED BY <1>5, <1>6, <1>7 DEF TypeInv, TypeOK, InvoicesOwned, ChargedExist

\* Redeeming keeps the types.
LEMMA RedeemTypeInv ==
  ASSUME TypeInv, NEW h \in Handlers,
         (\E u \in Buyers, c \in Codes : RedeemRead(h, u, c))
           \/ RedeemCommit(h) \/ RedeemRefused(h)
  PROVE  TypeInv'
  <1>1. ASSUME NEW u \in Buyers, NEW c \in Codes, RedeemRead(h, u, c) PROVE TypeInv'
    <2> DEFINE q == [Idle EXCEPT !.pc = "redeem", !.user = u, !.code = c,
                                 !.until = premiumUntil[u], !.months = codes[c].months]
    <2>1. u \in Users /\ premiumUntil[u] \in Nat /\ codes[c].months \in Nat
      BY SoldAssumption DEF TypeInv, TypeOK, Code
    <2>2. q \in Handler /\ HandlerOK(q)
      BY <2>1 DEF Idle, Handler, HandlerOK
    <2>3. hand' = [hand EXCEPT ![h] = q]
      BY <1>1 DEF RedeemRead
    <2> HIDE DEF q
    <2>4. hand' \in [Handlers -> Handler] /\ HandOK'
      BY <1>1, <2>2, <2>3, HandlerStep DEF RedeemRead
    <2> QED BY <1>1, <2>4 DEF RedeemRead, TypeInv, TypeOK, InvoicesOwned, ChargedExist
  <1>2. ASSUME RedeemCommit(h) PROVE TypeInv'
    <2> DEFINE c == hand[h].code
               q == [hand[h] EXCEPT !.pc = "grant"]
               row == [codes[c] EXCEPT !.used = codes[c].used + 1]
    <2>1. hand[h] \in Handler /\ hand[h].user \in Users /\ c \in Codes
      BY <1>2 DEF RedeemCommit, TypeInv, TypeOK, HandOK
    <2>2. q \in Handler /\ HandlerOK(q)
      BY <2>1 DEF Handler, HandlerOK
    <2>3. codes[c] \in Code /\ codes[c].used + 1 \in Nat
      BY <2>1 DEF TypeInv, TypeOK, Code
    <2>4. row \in Code
      BY <2>3, Zenon DEF Code
    <2>5. /\ hand' = [hand EXCEPT ![h] = q] /\ codes' = [codes EXCEPT ![c] = row]
          /\ redemptions' = redemptions \cup {<<c, hand[h].user>>}
          /\ UNCHANGED <<day, premiumUntil, invoices, charged, restarts>>
      BY <1>2 DEF RedeemCommit
    <2> HIDE DEF q, row, c
    <2>6. hand' \in [Handlers -> Handler] /\ HandOK'
      BY <2>2, <2>5, HandlerStep
    <2>7. codes' \in [Codes -> Code] /\ redemptions' \in SUBSET (Codes \X Users)
      BY <2>1, <2>4, <2>5 DEF TypeInv, TypeOK
    <2> QED BY <2>5, <2>6, <2>7 DEF TypeInv, TypeOK, InvoicesOwned, ChargedExist
  <1>3. ASSUME RedeemRefused(h) PROVE TypeInv'
    <2>1. hand' \in [Handlers -> Handler] /\ HandOK'
      BY <1>3, IdleOK, HandlerStep DEF RedeemRefused
    <2> QED BY <1>3, <2>1 DEF RedeemRefused, TypeInv, TypeOK, InvoicesOwned, ChargedExist
  <1> QED BY <1>1, <1>2, <1>3

\* The clock and a restart keep the types.
LEMMA OutsideTypeInv ==
  ASSUME TypeInv, TimePasses \/ Restart PROVE TypeInv'
  <1>1. CASE TimePasses
    BY <1>1, ClockAssumption
       DEF TimePasses, TypeInv, TypeOK, HandOK, InvoicesOwned, ChargedExist
  <1>2. CASE Restart
    <2>1. hand' \in [Handlers -> Handler] /\ HandOK'
      BY <1>2, IdleOK DEF Restart, HandOK, HandlerOK
    <2> QED BY <1>2, <2>1 DEF Restart, TypeInv, TypeOK, InvoicesOwned, ChargedExist
  <1> QED BY <1>1, <1>2

\* Every step keeps the types.
LEMMA StepTypeInv ==
  ASSUME TypeInv, [Next]_vars PROVE TypeInv'
  <1>1. CASE UNCHANGED vars
    BY <1>1 DEF vars, TypeInv, TypeOK, HandOK, InvoicesOwned, ChargedExist
  <1>2. ASSUME NEW h \in Handlers, Handling(h) \/ Finish(h) PROVE TypeInv'
    BY <1>2, WebhookTypeInv, GrantTypeInv, RedeemTypeInv DEF Handling
  <1> QED BY <1>1, <1>2, SellingTypeInv, VouchingTypeInv, OutsideTypeInv DEF Next

\* Handlers work on invoices, users and codes that exist, and every term ends at a
\* day number, whatever overlaps: cryptobot_webhook, redeem_promocode and the rest
\* never write a row of another shape.
THEOREM TypeCorrect == Spec => []TypeOK
  <1>1. Init => TypeInv
    BY InitTypeInv
  <1>2. TypeInv /\ [Next]_vars => TypeInv'
    BY StepTypeInv
  <1>3. TypeInv => TypeOK
    BY DEF TypeInv
  <1> QED BY <1>1, <1>2, <1>3, PTL DEF Spec

-----------------------------------------------------------------------------
(* The promo codes.                                                        *)

\* A redeemed code was issued and its use is counted, only issued codes are revoked,
\* and a handler past the checks holds an issued code.
CodesCounted ==
  /\ \A c \in Codes, u \in Users :
       <<c, u>> \in redemptions => codes[c].issued /\ codes[c].used # 0
  /\ \A c \in Codes : codes[c].revoked => codes[c].issued
  /\ \A h \in Handlers : hand[h].pc = "redeem" => codes[hand[h].code].issued

VoucherInv == TypeInv /\ CodesCounted

\* Nothing is issued or redeemed at first.
LEMMA InitVoucherInv == Init => VoucherInv
  <1> SUFFICES ASSUME Init PROVE CodesCounted
    BY InitTypeInv DEF VoucherInv
  <1>1. \A c \in Codes : ~codes[c].revoked
    BY DEF Init, NoCode
  <1>2. \A h \in Handlers : hand[h].pc = "idle"
    BY DEF Init, Idle
  <1> QED BY <1>1, <1>2 DEF CodesCounted, Init

\* A step that touches no code and lets no handler take one up.
LEMMA OtherStep ==
  ASSUME VoucherInv, UNCHANGED <<codes, redemptions>>,
         \A h \in Handlers : hand'[h].pc = "redeem" => hand'[h] = hand[h]
  PROVE  CodesCounted'
  BY DEF VoucherInv, CodesCounted

\* The admin's requests and the expiry of a code keep the counts.
LEMMA VouchingCounted ==
  ASSUME VoucherInv, Vouching PROVE CodesCounted'
  <1> SUFFICES ASSUME NEW c \in Codes, CreateCode(c) \/ RevokeCode(c) \/ CodeExpires(c)
               PROVE  CodesCounted'
    BY DEF Vouching
  <1>1. UNCHANGED <<redemptions, hand>>
    BY DEF CreateCode, RevokeCode, CodeExpires
  <1>2. codes[c] \in Code /\ codes \in [Codes -> Code]
    BY DEF VoucherInv, TypeInv, TypeOK
  <1>3. \A h \in Handlers : hand[h].pc = "redeem" => hand[h].code \in Codes
    BY DEF VoucherInv, TypeInv, HandOK
  <1>4. PICK row :
          /\ codes' = [codes EXCEPT ![c] = row]
          /\ row.issued
          /\ codes[c].issued => row.used = codes[c].used
    <2>1. CASE CreateCode(c)
      <3>1. PICK m \in CodeMonths : codes' = [codes EXCEPT ![c] = NewCode(m)]
        BY <2>1 DEF CreateCode
      <3>2. NewCode(m).issued /\ ~codes[c].issued
        BY <2>1, Zenon DEF NewCode, CreateCode
      <3> QED BY <3>1, <3>2
    <2>2. CASE RevokeCode(c)
      <3> DEFINE row == [codes[c] EXCEPT !.revoked = TRUE]
      <3>1. row.issued = codes[c].issued /\ row.used = codes[c].used
        BY <1>2 DEF Code
      <3>2. codes' = [codes EXCEPT ![c] = row] /\ codes[c].issued
        BY <2>2 DEF RevokeCode
      <3> HIDE DEF row
      <3> QED BY <3>1, <3>2
    <2>3. CASE CodeExpires(c)
      <3> DEFINE row == [codes[c] EXCEPT !.expired = TRUE]
      <3>1. row.issued = codes[c].issued /\ row.used = codes[c].used
        BY <1>2 DEF Code
      <3>2. codes' = [codes EXCEPT ![c] = row] /\ codes[c].issued
        BY <2>3 DEF CodeExpires
      <3> HIDE DEF row
      <3> QED BY <3>1, <3>2
    <2> QED BY <2>1, <2>2, <2>3
  <1> QED BY <1>1, <1>2, <1>3, <1>4 DEF VoucherInv, CodesCounted

\* Redeeming keeps the counts.
LEMMA RedeemCounted ==
  ASSUME VoucherInv, NEW h \in Handlers,
         (\E u \in Buyers, c \in Codes : RedeemRead(h, u, c)) \/ RedeemCommit(h)
  PROVE  CodesCounted'
  <1>1. ASSUME NEW u \in Buyers, NEW c \in Codes, RedeemRead(h, u, c) PROVE CodesCounted'
    <2> DEFINE q == [Idle EXCEPT !.pc = "redeem", !.user = u, !.code = c,
                                 !.until = premiumUntil[u], !.months = codes[c].months]
    <2>1. q.code = c /\ codes[c].issued
      BY <1>1 DEF Idle, RedeemRead
    <2>2. hand' = [hand EXCEPT ![h] = q] /\ UNCHANGED <<codes, redemptions>>
      BY <1>1 DEF RedeemRead
    <2> HIDE DEF q
    <2> QED BY <2>1, <2>2 DEF VoucherInv, TypeInv, TypeOK, CodesCounted
  <1>2. ASSUME RedeemCommit(h) PROVE CodesCounted'
    <2> DEFINE c == hand[h].code
               row == [codes[c] EXCEPT !.used = codes[c].used + 1]
               q == [hand[h] EXCEPT !.pc = "grant"]
    <2>1. hand[h] \in Handler /\ c \in Codes
      BY <1>2 DEF RedeemCommit, VoucherInv, TypeInv, TypeOK, HandOK
    <2>2. codes[c] \in Code /\ codes[c].used \in Nat /\ codes[c].issued
      BY <1>2, <2>1 DEF RedeemCommit, VoucherInv, TypeInv, TypeOK, Code, CodesCounted
    <2>3. row.issued = codes[c].issued /\ row.revoked = codes[c].revoked
          /\ row.used = codes[c].used + 1
      BY <2>2 DEF Code
    <2>4. row.used # 0
      BY <2>2, <2>3
    <2>5. q.pc = "grant"
      BY <2>1 DEF Handler
    <2>6. /\ codes' = [codes EXCEPT ![c] = row] /\ hand' = [hand EXCEPT ![h] = q]
          /\ redemptions' = redemptions \cup {<<c, hand[h].user>>}
      BY <1>2 DEF RedeemCommit
    <2>7. codes \in [Codes -> Code] /\ hand \in [Handlers -> Handler]
          /\ \A g \in Handlers : hand[g].pc = "redeem" => hand[g].code \in Codes
      BY DEF VoucherInv, TypeInv, TypeOK, HandOK
    <2> HIDE DEF row, q, c
    <2>8. \A d \in Codes : /\ codes[d].issued => codes'[d].issued
                           /\ codes'[d].revoked => codes[d].revoked
                           /\ codes[d].used # 0 => codes'[d].used # 0
      BY <2>1, <2>3, <2>4, <2>6, <2>7
    <2>9. codes'[c].issued /\ codes'[c].used # 0
      BY <2>1, <2>2, <2>3, <2>4, <2>6, <2>7
    <2>10. \A g \in Handlers : hand'[g].pc = "redeem" => hand'[g] = hand[g]
      BY <2>5, <2>6, <2>7
    <2> QED BY <2>6, <2>7, <2>8, <2>9, <2>10 DEF VoucherInv, CodesCounted
  <1> QED BY <1>1, <1>2

\* Every step keeps the counts.
LEMMA StepVoucherInv ==
  ASSUME VoucherInv, [Next]_vars PROVE VoucherInv'
  <1> SUFFICES CodesCounted'
    BY StepTypeInv DEF VoucherInv
  <1>1. CASE UNCHANGED vars \/ Selling \/ TimePasses
    BY <1>1, OtherStep
       DEF vars, Selling, CreateInvoice, Purchase, AdminCreateInvoice, NewInvoice, Pay, TimePasses
  <1>2. CASE Restart
    BY <1>2, OtherStep DEF Restart, Idle
  <1>3. ASSUME NEW h \in Handlers,
               (\E i \in Invoices : WebhookRead(h, i)) \/ WebhookMark(h) \/ Grant(h)
                 \/ RedeemRefused(h) \/ Finish(h)
        PROVE  CodesCounted'
    <2>1. hand \in [Handlers -> Handler]
      BY DEF VoucherInv, TypeInv, TypeOK
    <2>2. hand[h] \in Handler /\ Idle \in Handler
      BY <2>1, IdleOK
    <2>3. hand'[h].pc # "redeem"
      <3>1. ASSUME NEW i \in Invoices, WebhookRead(h, i) PROVE hand'[h].pc # "redeem"
        BY <2>1, <3>1 DEF WebhookRead, Idle
      <3>2. CASE WebhookMark(h)
        BY <2>1, <2>2, <3>2 DEF WebhookMark, Handler
      <3>3. CASE Grant(h)
        BY <2>1, <2>2, <3>3 DEF Grant, Handler, Idle
      <3>4. CASE RedeemRefused(h) \/ Finish(h)
        BY <2>1, <3>4 DEF RedeemRefused, Finish, Idle
      <3> QED BY <1>3, <3>1, <3>2, <3>3, <3>4
    <2>4. \A g \in Handlers : g # h => hand'[g] = hand[g]
      BY <1>3, <2>1 DEF WebhookRead, WebhookMark, Grant, RedeemRefused, Finish
    <2>5. UNCHANGED <<codes, redemptions>>
      BY <1>3 DEF WebhookRead, WebhookMark, Grant, RedeemRefused, Finish
    <2> QED BY <2>3, <2>4, <2>5, OtherStep
  <1> QED BY <1>1, <1>2, <1>3, VouchingCounted, RedeemCounted DEF Next, Handling

-----------------------------------------------------------------------------
(* The promise of the promo codes.                                         *)

\* Issuing, revoking and expiry of a code are an issue, a revocation or nothing at
\* all in Vouchers.
LEMMA VouchingRefines ==
  ASSUME VoucherInv, Vouching PROVE [Promise!Next]_(Promise!vars)
  <1> SUFFICES ASSUME NEW c \in Codes, CreateCode(c) \/ RevokeCode(c) \/ CodeExpires(c)
               PROVE  [Promise!Next]_(Promise!vars)
    BY DEF Vouching
  <1>1. codes[c] \in Code /\ codes \in [Codes -> Code]
    BY DEF VoucherInv, TypeInv, TypeOK
  <1>2. UNCHANGED redemptions
    BY DEF CreateCode, RevokeCode, CodeExpires
  <1>3. CASE CreateCode(c)
    <2>1. PICK m \in CodeMonths : codes' = [codes EXCEPT ![c] = NewCode(m)]
      BY <1>3 DEF CreateCode
    <2>2. NewCode(m).issued /\ ~NewCode(m).revoked
      BY Zenon DEF NewCode
    <2>3. ~codes[c].issued /\ ~codes[c].revoked
      BY <1>3 DEF CreateCode, VoucherInv, CodesCounted
    <2>4. Promise!Issue(c)
      BY <1>1, <1>2, <2>1, <2>2, <2>3 DEF Promise!Issue
    <2> QED BY <2>4 DEF Promise!Next
  <1>4. CASE RevokeCode(c)
    <2> DEFINE row == [codes[c] EXCEPT !.revoked = TRUE]
    <2>1. row.revoked /\ row.issued = codes[c].issued
      BY <1>1 DEF Code
    <2>2. codes' = [codes EXCEPT ![c] = row] /\ codes[c].issued
      BY <1>4 DEF RevokeCode
    <2> HIDE DEF row
    <2>3. CASE codes[c].revoked
      BY <1>1, <1>2, <2>1, <2>2, <2>3 DEF Promise!vars
    <2>4. CASE ~codes[c].revoked
      <3>1. Promise!Revoke(c)
        BY <1>1, <1>2, <2>1, <2>2, <2>4 DEF Promise!Revoke
      <3> QED BY <3>1 DEF Promise!Next
    <2> QED BY <2>3, <2>4
  <1>5. CASE CodeExpires(c)
    <2> DEFINE row == [codes[c] EXCEPT !.expired = TRUE]
    <2>1. row.revoked = codes[c].revoked /\ row.issued = codes[c].issued
      BY <1>1 DEF Code
    <2>2. codes' = [codes EXCEPT ![c] = row]
      BY <1>5 DEF CodeExpires
    <2> HIDE DEF row
    <2> QED BY <1>1, <1>2, <2>1, <2>2 DEF Promise!vars
  <1> QED BY <1>3, <1>4, <1>5

\* A redemption is committed only for a code that is issued, not revoked and not
\* taken: the WHERE clause of the UPDATE.
LEMMA RedeemRefines ==
  ASSUME VoucherInv, NEW h \in Handlers, RedeemCommit(h)
  PROVE  [Promise!Next]_(Promise!vars)
  <1> SUFFICES ASSUME NEW c \in Codes, NEW u \in Users, c = hand[h].code, u = hand[h].user
               PROVE  [Promise!Next]_(Promise!vars)
    BY DEF RedeemCommit, VoucherInv, TypeInv, HandOK
  <1> DEFINE row == [codes[c] EXCEPT !.used = codes[c].used + 1]
  <1>1. codes \in [Codes -> Code] /\ redemptions \in SUBSET (Codes \X Users)
    BY DEF VoucherInv, TypeInv, TypeOK
  <1>2. codes[c].issued /\ ~codes[c].revoked /\ codes[c].used = 0
    BY <1>1 DEF RedeemCommit, Redeemable, MaxUses, VoucherInv, CodesCounted, Code
  <1>3. row.revoked = codes[c].revoked /\ row.issued = codes[c].issued
    BY <1>1 DEF Code
  <1>4. codes' = [codes EXCEPT ![c] = row] /\ redemptions' = redemptions \cup {<<c, u>>}
    BY DEF RedeemCommit
  <1>5. \A v \in Users : <<c, v>> \notin redemptions
    BY <1>1, <1>2 DEF VoucherInv, CodesCounted
  <1> HIDE DEF row
  <1>6. {d \in Codes : codes'[d].issued /\ ~codes'[d].revoked} =
          {d \in Codes : codes[d].issued /\ ~codes[d].revoked}
        /\ {d \in Codes : codes'[d].revoked} = {d \in Codes : codes[d].revoked}
    BY <1>1, <1>3, <1>4
  <1>7. [d \in Codes |-> {v \in Users : <<d, v>> \in redemptions'}] =
          [[d \in Codes |-> {v \in Users : <<d, v>> \in redemptions}] EXCEPT ![c] = {u}]
    BY <1>1, <1>4, <1>5
  <1>8. Promise!Redeem(c, u)
    BY <1>1, <1>2, <1>5, <1>6, <1>7 DEF Promise!Redeem
  <1> QED BY <1>1, <1>8 DEF Promise!Next

\* No other step is visible in Vouchers.
LEMMA OtherRefines ==
  ASSUME UNCHANGED <<codes, redemptions>> PROVE [Promise!Next]_(Promise!vars)
  BY DEF Promise!vars

\* Every step is a step of Vouchers or none.
LEMMA StepRefines ==
  ASSUME VoucherInv, [Next]_vars PROVE [Promise!Next]_(Promise!vars)
  <1>1. CASE UNCHANGED vars \/ Selling \/ TimePasses \/ Restart
    BY <1>1, OtherRefines
       DEF vars, Selling, CreateInvoice, Purchase, AdminCreateInvoice, NewInvoice, Pay,
           TimePasses, Restart
  <1>2. ASSUME NEW h \in Handlers, Handling(h) \/ Finish(h), ~RedeemCommit(h)
        PROVE  [Promise!Next]_(Promise!vars)
    BY <1>2, OtherRefines
       DEF Handling, WebhookRead, WebhookMark, Grant, RedeemRead, RedeemRefused, Finish
  <1> QED BY <1>1, <1>2, VouchingRefines, RedeemRefines DEF Next

\* However the redeeming handlers, the admin's requests and restarts interleave, a
\* promo code goes to one user at most and to nobody after it was revoked.
THEOREM VouchersImplemented == Spec => ImplementsVouchers
  <1>1. Init => VoucherInv
    BY InitVoucherInv
  <1>2. VoucherInv /\ [Next]_vars => VoucherInv'
    BY StepVoucherInv
  <1>3. Init => Promise!Init
    BY DEF Init, NoCode, Promise!Init
  <1>4. VoucherInv /\ [Next]_vars => [Promise!Next]_(Promise!vars)
    BY StepRefines
  <1> QED BY <1>1, <1>2, <1>3, <1>4, PTL DEF Spec, ImplementsVouchers, Promise!Spec

-----------------------------------------------------------------------------
(* What the webhook hands over to the referral programme.                  *)

\* Every invoice and every code is worth at least a day.
Worth ==
  /\ \A i \in Invoices :
       invoices[i].status # "none" => DaysOf(invoices[i].days, invoices[i].months) > 0
  /\ \A c \in Codes : codes[c].issued => codes[c].months > 0

\* The handler's invoice is paid and its user's.
Marked(q) ==
  /\ q.invoice \in Invoices
  /\ invoices[q.invoice].status = "paid"
  /\ invoices[q.invoice].user = q.user

\* What a handler knows of its sale at each of its waiting points.
SaleOK(q) ==
  /\ q.pc = "unpaid" => invoices[q.invoice].user = q.user
  /\ q.pc = "redeem" => q.invoice = None /\ q.days = 0 /\ q.months > 0
  /\ q.pc = "grant"  => DaysOf(q.days, q.months) > 0 /\ (q.invoice = None \/ Marked(q))
  /\ q.pc = "reward" => Marked(q) /\ premiumUntil[q.user] > 0

SaleInv == VoucherInv /\ Worth /\ \A h \in Handlers : SaleOK(hand[h])

\* A paid invoice stays paid and its user's, and a term once granted is never
\* taken back to nothing.
Kept ==
  /\ \A i \in Invoices : invoices[i].status = "paid" =>
       invoices'[i].status = "paid" /\ invoices'[i].user = invoices[i].user
  /\ \A u \in Users : premiumUntil[u] > 0 => premiumUntil'[u] > 0

\* Nothing is sold at first.
LEMMA InitSaleInv == Init => SaleInv
  <1> SUFFICES ASSUME Init PROVE Worth /\ \A h \in Handlers : SaleOK(hand[h])
    BY InitVoucherInv DEF SaleInv
  <1>1. \A i \in Invoices : invoices[i].status = "none"
    BY DEF Init, NoInvoice
  <1>2. \A c \in Codes : ~codes[c].issued
    BY DEF Init, NoCode
  <1>3. \A h \in Handlers : hand[h].pc = "idle"
    BY DEF Init, Idle
  <1> QED BY <1>1, <1>2, <1>3 DEF Worth, SaleOK

\* A plan is worth at least a day.
LEMMA PlansAreWorth ==
  ASSUME NEW p \in Plans PROVE DaysOf(Payload(p).days, Payload(p).months) > 0
  <1>1. CASE p = "weekly" BY <1>1 DEF PlanDays, Payload, DaysOf
  <1>2. CASE p = "monthly" BY <1>2 DEF PlanMonths, Payload, DaysOf
  <1>3. CASE p = "quarterly" BY <1>3 DEF PlanMonths, Payload, DaysOf
  <1>4. CASE p = "yearly" BY <1>4 DEF PlanMonths, Payload, DaysOf
  <1> QED BY <1>1, <1>2, <1>3, <1>4 DEF Plans

\* A new invoice that is worth something leaves the handlers' sales alone: theirs
\* exist already.
LEMMA NewInvoiceSale ==
  ASSUME SaleInv, NEW i \in Invoices, NEW u \in Users, NEW payload, NEW promised,
         DaysOf(payload.days, payload.months) > 0, NewInvoice(i, u, payload, promised)
  PROVE  Worth' /\ (\A h \in Handlers : SaleOK(hand[h])') /\ Kept
  <1> DEFINE row == [status |-> "active", user |-> u, days |-> payload.days,
                     months |-> payload.months, promised |-> promised]
  <1>1. row.status = "active" /\ row.days = payload.days /\ row.months = payload.months
    OBVIOUS
  <1>2. /\ invoices' = [invoices EXCEPT ![i] = row] /\ invoices[i].status = "none"
        /\ UNCHANGED <<day, premiumUntil, charged, codes, redemptions, hand, restarts>>
    BY DEF NewInvoice
  <1>3. invoices \in [Invoices -> Invoice]
    BY DEF SaleInv, VoucherInv, TypeInv, TypeOK
  <1> HIDE DEF row
  <1>4. Worth' /\ Kept
    BY <1>1, <1>2, <1>3 DEF SaleInv, Worth, Kept
  <1>5. ASSUME NEW h \in Handlers PROVE SaleOK(hand[h])'
    <2>1. hand[h].pc = "unpaid" => hand[h].invoice # i
      BY <1>2 DEF SaleInv, VoucherInv, TypeInv, HandOK, ChargedExist
    <2>2. Marked(hand[h]) => hand[h].invoice # i
      BY <1>2 DEF Marked
    <2> QED BY <1>2, <1>3, <2>1, <2>2 DEF SaleInv, SaleOK, Marked
  <1> QED BY <1>4, <1>5

\* Selling keeps the sales.
LEMMA SellingSale ==
  ASSUME SaleInv, Selling PROVE Worth' /\ (\A h \in Handlers : SaleOK(hand[h])') /\ Kept
  <1>1. ASSUME NEW i \in Invoices, NEW u \in Buyers, CreateInvoice(i, u)
        PROVE  Worth' /\ (\A h \in Handlers : SaleOK(hand[h])') /\ Kept
    <2>1. PICK m \in SoldMonths : NewInvoice(i, u, [days |-> 0, months |-> m], 30 * m)
      BY <1>1 DEF CreateInvoice
    <2>2. m \in 1..24 /\ u \in Users
      BY SoldAssumption
    <2>3. DaysOf([days |-> 0, months |-> m].days, [days |-> 0, months |-> m].months) > 0
      BY <2>2 DEF DaysOf
    <2> QED BY <2>1, <2>2, <2>3, NewInvoiceSale
  <1>2. ASSUME NEW i \in Invoices, NEW u \in Buyers, Purchase(i, u) \/ AdminCreateInvoice(i, u)
        PROVE  Worth' /\ (\A h \in Handlers : SaleOK(hand[h])') /\ Kept
    <2>1. PICK p \in SoldPlans : NewInvoice(i, u, Payload(p), PlanDays[p])
      BY <1>2 DEF Purchase, AdminCreateInvoice
    <2>2. p \in Plans /\ u \in Users
      BY SoldAssumption
    <2> QED BY <2>1, <2>2, PlansAreWorth, NewInvoiceSale
  <1>3. ASSUME NEW i \in Invoices, Pay(i)
        PROVE  Worth' /\ (\A h \in Handlers : SaleOK(hand[h])') /\ Kept
    BY <1>3 DEF Pay, SaleInv, Worth, SaleOK, Marked, Kept
  <1> QED BY <1>1, <1>2, <1>3 DEF Selling

\* The admin's requests and the expiry of a code keep the sales.
LEMMA VouchingSale ==
  ASSUME SaleInv, Vouching PROVE Worth' /\ (\A h \in Handlers : SaleOK(hand[h])') /\ Kept
  <1> SUFFICES ASSUME NEW c \in Codes, CreateCode(c) \/ RevokeCode(c) \/ CodeExpires(c)
               PROVE  Worth' /\ (\A h \in Handlers : SaleOK(hand[h])') /\ Kept
    BY DEF Vouching
  <1>1. UNCHANGED <<day, premiumUntil, invoices, charged, redemptions, hand, restarts>>
    BY DEF CreateCode, RevokeCode, CodeExpires
  <1>2. codes[c] \in Code /\ codes \in [Codes -> Code]
    BY DEF SaleInv, VoucherInv, TypeInv, TypeOK
  <1>3. PICK row : codes' = [codes EXCEPT ![c] = row] /\ row.months > 0
    <2>1. CASE CreateCode(c)
      <3>1. PICK m \in CodeMonths : codes' = [codes EXCEPT ![c] = NewCode(m)]
        BY <2>1 DEF CreateCode
      <3>2. NewCode(m).months > 0
        BY SoldAssumption DEF NewCode
      <3> QED BY <3>1, <3>2
    <2>2. ASSUME codes[c].issued,
                 NEW row, row.months = codes[c].months, codes' = [codes EXCEPT ![c] = row]
          PROVE  row.months > 0
      BY <2>2 DEF SaleInv, Worth
    <2>3. CASE RevokeCode(c)
      <3> DEFINE row == [codes[c] EXCEPT !.revoked = TRUE]
      <3>1. row.months = codes[c].months
        BY <1>2 DEF Code
      <3>2. codes' = [codes EXCEPT ![c] = row] /\ codes[c].issued
        BY <2>3 DEF RevokeCode
      <3> HIDE DEF row
      <3> QED BY <3>1, <3>2, <2>2
    <2>4. CASE CodeExpires(c)
      <3> DEFINE row == [codes[c] EXCEPT !.expired = TRUE]
      <3>1. row.months = codes[c].months
        BY <1>2 DEF Code
      <3>2. codes' = [codes EXCEPT ![c] = row] /\ codes[c].issued
        BY <2>4 DEF CodeExpires
      <3> HIDE DEF row
      <3> QED BY <3>1, <3>2, <2>2
    <2> QED BY <2>1, <2>3, <2>4
  <1> QED BY <1>1, <1>2, <1>3 DEF SaleInv, Worth, SaleOK, Marked, Kept

\* A step that moves one handler to a state whose sale is right, keeps the rows'
\* worth and takes nothing back keeps the sales.
LEMMA HandlerSale ==
  ASSUME SaleInv, NEW h \in Handlers, NEW q, hand' = [hand EXCEPT ![h] = q],
         SaleOK(q)', Worth', Kept,
         \A i \in Invoices : invoices'[i].user = invoices[i].user
  PROVE  Worth' /\ (\A g \in Handlers : SaleOK(hand[g])') /\ Kept
  <1> SUFFICES ASSUME NEW g \in Handlers PROVE SaleOK(hand[g])'
    OBVIOUS
  <1>1. hand \in [Handlers -> Handler] /\ charged \in SUBSET Invoices
        /\ (hand[g].pc = "unpaid" => hand[g].invoice \in charged)
        /\ (hand[g].pc # "idle" => hand[g].user \in Users)
    BY DEF SaleInv, VoucherInv, TypeInv, TypeOK, HandOK
  <1>2. CASE g = h
    BY <1>1, <1>2
  <1>3. CASE g # h
    <2>1. hand'[g] = hand[g]
      BY <1>1, <1>3
    <2>2. SaleOK(hand[g])
      BY DEF SaleInv
    <2> QED BY <1>1, <2>1, <2>2 DEF SaleOK, Marked, Kept
  <1> QED BY <1>2, <1>3

\* The steps of the handlers keep the sales.
LEMMA HandlingSale ==
  ASSUME SaleInv, NEW h \in Handlers, Handling(h) \/ Finish(h)
  PROVE  Worth' /\ (\A g \in Handlers : SaleOK(hand[g])') /\ Kept
  <1>1. /\ hand \in [Handlers -> Handler] /\ invoices \in [Invoices -> Invoice]
        /\ codes \in [Codes -> Code] /\ premiumUntil \in [Users -> Nat] /\ day \in Nat
        /\ hand[h].pc # "idle" => hand[h].user \in Users
        /\ hand[h].pc = "unpaid" => hand[h].invoice \in charged
        /\ hand[h].pc = "redeem" => hand[h].code \in Codes
        /\ charged \in SUBSET Invoices /\ charged' = charged
        /\ \A i \in charged : invoices[i].status # "none"
    BY DEF SaleInv, VoucherInv, TypeInv, TypeOK, HandOK, ChargedExist, Handling, Finish,
           WebhookRead, WebhookMark, Grant, RedeemRead, RedeemCommit, RedeemRefused
  <1>2. hand[h] \in Handler /\ SaleOK(hand[h])
    BY <1>1 DEF SaleInv
  <1>3. ASSUME UNCHANGED <<premiumUntil, invoices, codes>> PROVE Worth' /\ Kept
    BY <1>3 DEF SaleInv, Worth, Kept
  <1>4. Idle.pc = "idle" /\ SaleOK(Idle)'
    BY DEF Idle, SaleOK
  <1>5. ASSUME NEW i \in Invoices, WebhookRead(h, i)
        PROVE  Worth' /\ (\A g \in Handlers : SaleOK(hand[g])') /\ Kept
    <2> DEFINE new == [Idle EXCEPT !.pc = "unpaid", !.user = invoices[i].user, !.invoice = i]
    <2>0. PICK q : q = new
      OBVIOUS
    <2>1. q.pc = "unpaid" /\ q.user = invoices[i].user /\ q.invoice = i
      BY <2>0 DEF Idle
    <2>2. hand' = [hand EXCEPT ![h] = q] /\ UNCHANGED <<premiumUntil, invoices, codes>>
      BY <1>5, <2>0 DEF WebhookRead
    <2>3. SaleOK(q)'
      BY <2>1, <2>2 DEF SaleOK
    <2> QED BY <1>3, <2>2, <2>3, HandlerSale
  <1>6. CASE WebhookMark(h)
    <2> DEFINE i == hand[h].invoice
               new == [hand[h] EXCEPT !.pc = "grant", !.until = premiumUntil[hand[h].user],
                                    !.days = invoices[i].days, !.months = invoices[i].months]
               row == [invoices[i] EXCEPT !.status = "paid"]
    <2>0. PICK q : q = new
      OBVIOUS
    <2>1. i \in Invoices /\ hand[h].pc = "unpaid" /\ invoices[i].status # "none"
      BY <1>1, <1>6 DEF WebhookMark
    <2>2. /\ row.status = "paid" /\ row.user = invoices[i].user
          /\ row.days = invoices[i].days /\ row.months = invoices[i].months
      BY <1>1, <2>1 DEF Invoice
    <2>3. /\ q.pc = "grant" /\ q.invoice = i /\ q.user = hand[h].user
          /\ q.days = invoices[i].days /\ q.months = invoices[i].months
      BY <1>2, <2>0 DEF Handler
    <2>4. hand' = [hand EXCEPT ![h] = q] /\ invoices' = [invoices EXCEPT ![i] = row]
          /\ UNCHANGED <<premiumUntil, codes>>
      BY <1>6, <2>0 DEF WebhookMark
    <2>5. DaysOf(invoices[i].days, invoices[i].months) > 0 /\ invoices[i].user = hand[h].user
      BY <1>2, <2>1 DEF SaleInv, Worth, SaleOK
    <2> HIDE DEF new, row, i
    <2>6. Worth' /\ Kept /\ \A j \in Invoices : invoices'[j].user = invoices[j].user
      BY <1>1, <2>1, <2>2, <2>4 DEF SaleInv, Worth, Kept
    <2>7. Marked(q)'
      BY <1>1, <2>1, <2>2, <2>3, <2>4, <2>5 DEF Marked
    <2>8. SaleOK(q)'
      BY <2>3, <2>5, <2>7 DEF SaleOK
    <2> QED BY <2>4, <2>6, <2>8, HandlerSale
  <1>7. CASE Grant(h)
    <2> DEFINE new == IF hand[h].invoice = None THEN Idle ELSE [hand[h] EXCEPT !.pc = "reward"]
               base == IF hand[h].until > day THEN hand[h].until ELSE day
               term == DaysOf(hand[h].days, hand[h].months)
               u == hand[h].user
    <2>0. PICK q : q = new
      OBVIOUS
    <2>1. u \in Users /\ hand[h].pc = "grant"
      BY <1>1, <1>7 DEF Grant
    <2>2. base \in Nat /\ term \in Nat /\ term > 0
      BY <1>1, <1>2, <2>1 DEF Handler, DaysOf, SaleOK
    <2>3. /\ hand' = [hand EXCEPT ![h] = q]
          /\ premiumUntil' = [premiumUntil EXCEPT ![u] = base + term]
          /\ UNCHANGED <<invoices, codes>>
      BY <1>7, <2>0 DEF Grant
    <2>4. \/ q = Idle
          \/ /\ q.pc = "reward" /\ q.user = u /\ q.invoice = hand[h].invoice
             /\ Marked(hand[h])
      BY <1>2, <2>0, <2>1 DEF Handler, SaleOK
    <2> HIDE DEF new, base, term, u
    <2>5. Worth' /\ Kept
      BY <1>1, <2>1, <2>2, <2>3 DEF SaleInv, Worth, Kept
    <2>6. premiumUntil'[u] > 0
      BY <1>1, <2>1, <2>2, <2>3
    <2>7. SaleOK(q)'
      <3>1. CASE q = Idle
        BY <1>4, <3>1
      <3>2. CASE q # Idle
        BY <2>3, <2>4, <2>6, <3>2 DEF SaleOK, Marked, u
      <3> QED BY <3>1, <3>2
    <2> QED BY <2>3, <2>5, <2>7, HandlerSale
  <1>8. ASSUME NEW u \in Buyers, NEW c \in Codes, RedeemRead(h, u, c)
        PROVE  Worth' /\ (\A g \in Handlers : SaleOK(hand[g])') /\ Kept
    <2> DEFINE new == [Idle EXCEPT !.pc = "redeem", !.user = u, !.code = c,
                                 !.until = premiumUntil[u], !.months = codes[c].months]
    <2>0. PICK q : q = new
      OBVIOUS
    <2>1. q.pc = "redeem" /\ q.invoice = None /\ q.days = 0 /\ q.months = codes[c].months
      BY <2>0 DEF Idle
    <2>2. codes[c].months > 0
      BY <1>8 DEF RedeemRead, SaleInv, Worth
    <2>3. hand' = [hand EXCEPT ![h] = q] /\ UNCHANGED <<premiumUntil, invoices, codes>>
      BY <1>8, <2>0 DEF RedeemRead
    <2>4. SaleOK(q)'
      BY <2>1, <2>2 DEF SaleOK
    <2> QED BY <1>3, <2>3, <2>4, HandlerSale
  <1>9. CASE RedeemCommit(h)
    <2> DEFINE c == hand[h].code
               new == [hand[h] EXCEPT !.pc = "grant"]
               row == [codes[c] EXCEPT !.used = codes[c].used + 1]
    <2>0. PICK q : q = new
      OBVIOUS
    <2>1. c \in Codes /\ hand[h].pc = "redeem"
      BY <1>1, <1>9 DEF RedeemCommit
    <2>2. q.pc = "grant" /\ q.invoice = None /\ q.days = 0 /\ q.months > 0 /\ q.months \in Nat
      BY <1>2, <2>0, <2>1 DEF Handler, SaleOK
    <2>3. row.issued = codes[c].issued /\ row.months = codes[c].months
      BY <1>1, <2>1 DEF Code
    <2>4. hand' = [hand EXCEPT ![h] = q] /\ codes' = [codes EXCEPT ![c] = row]
          /\ UNCHANGED <<premiumUntil, invoices>>
      BY <1>9, <2>0 DEF RedeemCommit
    <2> HIDE DEF new, row, c
    <2>5. Worth' /\ Kept
      BY <1>1, <2>1, <2>3, <2>4 DEF SaleInv, Worth, Kept
    <2>6. SaleOK(q)'
      BY <2>2 DEF SaleOK, DaysOf
    <2> QED BY <2>4, <2>5, <2>6, HandlerSale
  <1>10. CASE RedeemRefused(h) \/ Finish(h)
    <2>1. hand' = [hand EXCEPT ![h] = Idle] /\ UNCHANGED <<premiumUntil, invoices, codes>>
      BY <1>10 DEF RedeemRefused, Finish
    <2> QED BY <1>3, <1>4, <2>1, HandlerSale
  <1> QED BY <1>5, <1>6, <1>7, <1>8, <1>9, <1>10 DEF Handling

\* Every step keeps the sales and takes nothing back.
LEMMA StepSaleInv ==
  ASSUME SaleInv, [Next]_vars PROVE SaleInv' /\ Kept
  <1>1. VoucherInv'
    BY StepVoucherInv DEF SaleInv
  <1>2. CASE UNCHANGED vars \/ TimePasses
    BY <1>1, <1>2 DEF vars, TimePasses, SaleInv, Worth, SaleOK, Marked, Kept
  <1>3. CASE Restart
    <2>1. \A h \in Handlers : hand'[h].pc = "idle"
      BY <1>3 DEF Restart, Idle
    <2> QED BY <1>1, <1>3, <2>1 DEF Restart, SaleInv, Worth, SaleOK, Kept
  <1> QED BY <1>1, <1>2, <1>3, SellingSale, VouchingSale, HandlingSale DEF Next, SaleInv

-----------------------------------------------------------------------------
(* What a user paid for and what he has.                                   *)

\* The days of the sale a handler is about to grant.
Term(q) == DaysOf(q.days, q.months)

\* Whoever waits for his answers has one request in flight.
OneAtATime ==
  \A u \in Users \ Hasty : \A g, h \in Handlers :
    hand[g].user = u /\ hand[h].user = u => g = h

\* One delivery of an invoice is handled at a time, of one that was not yet marked.
OneDelivery ==
  ProviderWaits => \A h \in Handlers :
    /\ hand[h].pc = "unpaid" => invoices[hand[h].invoice].status # "paid"
    /\ \A g \in Handlers : hand[g].invoice = hand[h].invoice /\ hand[h].invoice # None => g = h

\* What the handlers and the rows have to agree on.
SalesHeld ==
  /\ \A u \in Users : IsFiniteSet(PaidInvoices(u)) /\ IsFiniteSet(RedeemedCodes(u))
  /\ \A h \in Handlers :
       /\ hand[h].pc = "idle" => hand[h].user = None
       /\ hand[h].pc = "unpaid" => hand[h].invoice \in Invoices
       /\ hand[h].pc = "redeem" =>
            hand[h].code \in Codes /\ hand[h].months = codes[hand[h].code].months
  /\ OneAtATime
  /\ OneDelivery

\* The user's grant is under way.
Granting(u) == \E h \in Handlers : hand[h].user = u /\ hand[h].pc = "grant"

\* A user who waits for his answers has what was sold to him, but for the sale that
\* is being granted, whose handler has an up-to-date copy of his term.
AddsUp ==
  restarts = 0 => \A u \in Users \ Hasty :
    /\ ~Granting(u) => Sold(u) <= premiumUntil[u]
    /\ \A h \in Handlers : hand[h].user = u =>
         /\ hand[h].pc = "redeem" => hand[h].until = premiumUntil[u]
         /\ hand[h].pc = "grant" => Sold(u) <= hand[h].until + Term(hand[h])

\* No handler has more to grant than what its user's sales come to.
PaidFor ==
  \A u \in Users :
    /\ premiumUntil[u] <= day + Sold(u)
    /\ \A h \in Handlers : hand[h].user = u =>
         /\ hand[h].pc = "redeem" => hand[h].until <= day + Sold(u)
         /\ hand[h].pc = "grant" => /\ hand[h].until + Term(hand[h]) <= day + Sold(u)
                                    /\ Term(hand[h]) <= Sold(u)

SoldInv == SaleInv /\ SalesHeld /\ AddsUp /\ (ProviderWaits => PaidFor)

\* A sale is worth a number of days.
LEMMA DaysAreNat ==
  ASSUME NEW days \in Nat, NEW months \in Nat
  PROVE  DaysOf(days, months) \in Nat /\ 30 * months \in Nat
  BY DEF DaysOf

\* What a user's sales come to is a number of days.
LEMMA SoldIsNat ==
  ASSUME TypeOK, SalesHeld, NEW u \in Users
  PROVE  DaysBought(u) \in Nat /\ DaysRedeemed(u) \in Nat /\ Sold(u) \in Nat
  <1> DEFINE v == [i \in Invoices |-> DaysOf(invoices[i].days, invoices[i].months)]
             w == [c \in Codes |-> 30 * codes[c].months]
  <1>1. \A i \in Invoices : v[i] \in Nat
    BY DaysAreNat DEF TypeOK, Invoice
  <1>2. \A c \in Codes : w[c] \in Nat
    BY DEF TypeOK, Code
  <1>3. PaidInvoices(u) \subseteq Invoices /\ RedeemedCodes(u) \subseteq Codes
        /\ IsFiniteSet(PaidInvoices(u)) /\ IsFiniteSet(RedeemedCodes(u))
    BY DEF PaidInvoices, RedeemedCodes, SalesHeld
  <1>4. SumFunctionOnSet(v, PaidInvoices(u)) \in Nat
    <2> HIDE DEF v
    <2> QED BY <1>1, <1>3, SumIsNat
  <1>5. SumFunctionOnSet(w, RedeemedCodes(u)) \in Nat
    <2> HIDE DEF w
    <2> QED BY <1>2, <1>3, SumIsNat
  <1> QED BY <1>4, <1>5 DEF Sold, DaysBought, DaysRedeemed

\* A step that marks no invoice of the user's leaves what he bought alone.
LEMMA BoughtSame ==
  ASSUME TypeOK, SalesHeld, NEW u \in Users, PaidInvoices(u)' = PaidInvoices(u),
         \A i \in PaidInvoices(u) :
           invoices'[i].days = invoices[i].days /\ invoices'[i].months = invoices[i].months
  PROVE  DaysBought(u)' = DaysBought(u)
  <1> DEFINE v == [i \in Invoices |-> DaysOf(invoices[i].days, invoices[i].months)]
             n == [i \in Invoices |-> DaysOf(invoices'[i].days, invoices'[i].months)]
  <1>1. \A i \in PaidInvoices(u) : n[i] = v[i]
    BY DEF PaidInvoices
  <1>2. IsFiniteSet(PaidInvoices(u))
    BY DEF SalesHeld
  <1>3. SumFunctionOnSet(n, PaidInvoices(u)) = SumFunctionOnSet(v, PaidInvoices(u))
    <2> HIDE DEF n, v
    <2> QED BY <1>1, <1>2, SumSame
  <1> QED BY <1>3 DEF DaysBought

\* A step that redeems no code of the user's leaves what he redeemed alone.
LEMMA RedeemedSame ==
  ASSUME TypeOK, SalesHeld, NEW u \in Users, RedeemedCodes(u)' = RedeemedCodes(u),
         \A c \in RedeemedCodes(u) : codes'[c].months = codes[c].months
  PROVE  DaysRedeemed(u)' = DaysRedeemed(u)
  <1> DEFINE v == [c \in Codes |-> 30 * codes[c].months]
             n == [c \in Codes |-> 30 * codes'[c].months]
  <1>1. \A c \in RedeemedCodes(u) : n[c] = v[c]
    BY DEF RedeemedCodes
  <1>2. IsFiniteSet(RedeemedCodes(u))
    BY DEF SalesHeld
  <1>3. SumFunctionOnSet(n, RedeemedCodes(u)) = SumFunctionOnSet(v, RedeemedCodes(u))
    <2> HIDE DEF n, v
    <2> QED BY <1>1, <1>2, SumSame
  <1> QED BY <1>3 DEF DaysRedeemed

\* What the steps do to the sales of a user: nothing, or one sale more.
SoldSame ==
  \A u \in Users : /\ Sold(u)' = Sold(u)
                   /\ IsFiniteSet(PaidInvoices(u)') /\ IsFiniteSet(RedeemedCodes(u)')

SoldMore(u, days) ==
  /\ Sold(u)' = Sold(u) + days
  /\ \A v \in Users : /\ v # u => Sold(v)' = Sold(v)
                      /\ IsFiniteSet(PaidInvoices(v)') /\ IsFiniteSet(RedeemedCodes(v)')

\* The same rows are the same sales.
LEMMA NothingSold ==
  ASSUME TypeOK, SalesHeld,
         \A i \in Invoices :
           /\ invoices[i].status = "paid" <=> invoices'[i].status = "paid"
           /\ invoices[i].status = "paid" =>
                /\ invoices'[i].user = invoices[i].user
                /\ invoices'[i].days = invoices[i].days
                /\ invoices'[i].months = invoices[i].months,
         UNCHANGED redemptions,
         \A c \in Codes, u \in Users :
           <<c, u>> \in redemptions => codes'[c].months = codes[c].months
  PROVE  SoldSame
  <1> SUFFICES ASSUME NEW u \in Users
               PROVE  /\ Sold(u)' = Sold(u)
                      /\ IsFiniteSet(PaidInvoices(u)') /\ IsFiniteSet(RedeemedCodes(u)')
    BY DEF SoldSame
  <1>1. PaidInvoices(u)' = PaidInvoices(u) /\ RedeemedCodes(u)' = RedeemedCodes(u)
    BY DEF PaidInvoices, RedeemedCodes
  <1>2. DaysBought(u)' = DaysBought(u)
    BY <1>1, BoughtSame DEF PaidInvoices
  <1>3. DaysRedeemed(u)' = DaysRedeemed(u)
    BY <1>1, RedeemedSame DEF RedeemedCodes
  <1> QED BY <1>1, <1>2, <1>3 DEF Sold, SalesHeld

\* Steps that neither mark an invoice nor redeem a code sell nothing.
LEMMA OtherSold ==
  ASSUME SoldInv, [Next]_vars, \A h \in Handlers : ~WebhookMark(h) /\ ~RedeemCommit(h)
  PROVE  SoldSame
  <1>1. TypeOK /\ SalesHeld /\ CodesCounted
    BY DEF SoldInv, SaleInv, VoucherInv, TypeInv
  <1>2. invoices \in [Invoices -> Invoice] /\ codes \in [Codes -> Code]
    BY <1>1 DEF TypeOK
  <1>3. ASSUME NEW i \in Invoices, NEW u, NEW payload, NEW promised,
               NewInvoice(i, u, payload, promised)
        PROVE  SoldSame
    <2> DEFINE row == [status |-> "active", user |-> u, days |-> payload.days,
                       months |-> payload.months, promised |-> promised]
    <2>1. row.status = "active"
      OBVIOUS
    <2>2. /\ invoices' = [invoices EXCEPT ![i] = row] /\ invoices[i].status = "none"
          /\ UNCHANGED <<codes, redemptions>>
      BY <1>3 DEF NewInvoice
    <2> HIDE DEF row
    <2> QED BY <1>1, <1>2, <2>1, <2>2, NothingSold
  <1>4. CASE Selling
    BY <1>1, <1>3, <1>4, NothingSold
       DEF Selling, CreateInvoice, Purchase, AdminCreateInvoice, Pay
  <1>5. CASE Vouching
    <2> SUFFICES ASSUME NEW c \in Codes, CreateCode(c) \/ RevokeCode(c) \/ CodeExpires(c)
                 PROVE  SoldSame
      BY <1>5 DEF Vouching
    <2>1. UNCHANGED <<invoices, redemptions>>
      BY DEF CreateCode, RevokeCode, CodeExpires
    <2>2. codes[c].issued => codes'[c].months = codes[c].months
      BY <1>2 DEF CreateCode, RevokeCode, CodeExpires, Code
    <2>3. \A d \in Codes : d # c => codes'[d] = codes[d]
      BY <1>2 DEF CreateCode, RevokeCode, CodeExpires
    <2> QED BY <1>1, <2>1, <2>2, <2>3, NothingSold DEF CodesCounted
  <1>6. ASSUME NEW h \in Handlers, Handling(h) \/ Finish(h) PROVE SoldSame
    <2>1. UNCHANGED <<invoices, codes, redemptions>>
      BY <1>6 DEF Handling, Finish, WebhookRead, Grant, RedeemRead, RedeemRefused
    <2> QED BY <1>1, <2>1, NothingSold
  <1>7. CASE TimePasses \/ Restart \/ UNCHANGED vars
    BY <1>1, <1>7, NothingSold DEF TimePasses, Restart, vars
  <1> QED BY <1>4, <1>5, <1>6, <1>7 DEF Next

\* Marking an invoice that was not paid sells it; marking it again sells nothing.
LEMMA MarkSold ==
  ASSUME SoldInv, NEW h \in Handlers, WebhookMark(h),
         NEW i, i = hand[h].invoice, NEW u, u = hand[h].user,
         NEW days, days = DaysOf(invoices[i].days, invoices[i].months)
  PROVE  IF invoices[i].status = "paid" THEN SoldSame ELSE SoldMore(u, days)
  <1> DEFINE row == [invoices[i] EXCEPT !.status = "paid"]
  <1>1. /\ TypeOK /\ SalesHeld
        /\ invoices \in [Invoices -> Invoice]
    BY DEF SoldInv, SaleInv, VoucherInv, TypeInv, TypeOK
  <1>2. i \in Invoices /\ u \in Users /\ invoices[i].user = u
    BY DEF WebhookMark, SoldInv, SalesHeld, SaleInv, SaleOK, VoucherInv, TypeInv, HandOK
  <1>3. /\ row.status = "paid" /\ row.user = u
        /\ row.days = invoices[i].days /\ row.months = invoices[i].months
    BY <1>1, <1>2 DEF Invoice
  <1>4. invoices' = [invoices EXCEPT ![i] = row] /\ UNCHANGED <<codes, redemptions>>
    BY DEF WebhookMark
  <1> HIDE DEF row
  <1>5. CASE invoices[i].status = "paid"
    BY <1>1, <1>2, <1>3, <1>4, <1>5, NothingSold
  <1>6. CASE invoices[i].status # "paid"
    <2> DEFINE w == [j \in Invoices |-> DaysOf(invoices[j].days, invoices[j].months)]
    <2>1. i \notin PaidInvoices(u) /\ PaidInvoices(u)' = PaidInvoices(u) \cup {i}
      BY <1>1, <1>2, <1>3, <1>4, <1>6 DEF PaidInvoices
    <2>2. [j \in Invoices |-> DaysOf(invoices'[j].days, invoices'[j].months)] = w
      BY <1>1, <1>2, <1>3, <1>4
    <2>3. \A j \in Invoices : w[j] \in Nat
      BY <1>1, DaysAreNat DEF Invoice
    <2>4. w[i] = days /\ days \in Nat
      BY <1>2, <2>3
    <2>5. IsFiniteSet(PaidInvoices(u)) /\ PaidInvoices(u) \subseteq Invoices
      BY <1>1, <1>2 DEF SalesHeld, PaidInvoices
    <2>6. DaysBought(u) = SumFunctionOnSet(w, PaidInvoices(u))
          /\ DaysBought(u)' = SumFunctionOnSet(w, PaidInvoices(u) \cup {i})
      BY <2>1, <2>2 DEF DaysBought
    <2> HIDE DEF w
    <2>7. DaysBought(u)' = DaysBought(u) + days /\ IsFiniteSet(PaidInvoices(u)')
      BY <1>2, <2>1, <2>3, <2>4, <2>5, <2>6, SumAdd
    <2>8. \A v \in Users :
            v # u => PaidInvoices(v)' = PaidInvoices(v)
                     /\ \A j \in PaidInvoices(v) : invoices'[j] = invoices[j]
      BY <1>1, <1>2, <1>3, <1>4 DEF PaidInvoices
    <2>9. \A v \in Users :
            RedeemedCodes(v)' = RedeemedCodes(v) /\ DaysRedeemed(v)' = DaysRedeemed(v)
      BY <1>1, <1>4, RedeemedSame DEF RedeemedCodes
    <2>10. \A v \in Users : v # u => DaysBought(v)' = DaysBought(v)
      BY <1>1, <2>8, BoughtSame
    <2>11. Sold(u)' = Sold(u) + days
      <3>1. DaysBought(u) \in Nat /\ DaysRedeemed(u) \in Nat
        BY <1>1, <1>2, SoldIsNat
      <3> QED BY <1>2, <2>4, <2>7, <2>9, <3>1 DEF Sold
    <2>12. \A v \in Users : v # u => Sold(v)' = Sold(v)
      BY <2>9, <2>10 DEF Sold
    <2>13. \A v \in Users : IsFiniteSet(PaidInvoices(v)') /\ IsFiniteSet(RedeemedCodes(v)')
      BY <1>1, <2>7, <2>8, <2>9 DEF SalesHeld
    <2> QED BY <1>6, <2>11, <2>12, <2>13 DEF SoldMore
  <1> QED BY <1>5, <1>6

\* Redeeming a code sells its months.
LEMMA CommitSold ==
  ASSUME SoldInv, NEW h \in Handlers, RedeemCommit(h),
         NEW u, u = hand[h].user, NEW days, days = 30 * hand[h].months
  PROVE  SoldMore(u, days)
  <1> PICK c : c = hand[h].code
    OBVIOUS
  <1> DEFINE row == [codes[c] EXCEPT !.used = codes[c].used + 1]
             w == [d \in Codes |-> 30 * codes[d].months]
  <1>1. TypeOK /\ SalesHeld /\ codes \in [Codes -> Code]
    BY DEF SoldInv, SaleInv, VoucherInv, TypeInv, TypeOK
  <1>2. c \in Codes /\ u \in Users /\ hand[h].months = codes[c].months
    BY DEF RedeemCommit, SoldInv, SalesHeld, SaleInv, VoucherInv, TypeInv, HandOK
  <1>3. row.months = codes[c].months
    BY <1>1, <1>2 DEF Code
  <1>4. /\ codes' = [codes EXCEPT ![c] = row] /\ UNCHANGED invoices
        /\ redemptions' = redemptions \cup {<<c, u>>} /\ <<c, u>> \notin redemptions
    BY DEF RedeemCommit, Redeemable
  <1> HIDE DEF row
  <1>5. c \notin RedeemedCodes(u) /\ RedeemedCodes(u)' = RedeemedCodes(u) \cup {c}
    BY <1>2, <1>4 DEF RedeemedCodes
  <1>6. [d \in Codes |-> 30 * codes'[d].months] = w
    BY <1>1, <1>2, <1>3, <1>4
  <1>7. (\A d \in Codes : w[d] \in Nat) /\ w[c] = days /\ days \in Nat
    BY <1>1, <1>2 DEF Code
  <1>8. IsFiniteSet(RedeemedCodes(u)) /\ RedeemedCodes(u) \subseteq Codes
    BY <1>1, <1>2 DEF SalesHeld, RedeemedCodes
  <1>9. DaysRedeemed(u) = SumFunctionOnSet(w, RedeemedCodes(u))
        /\ DaysRedeemed(u)' = SumFunctionOnSet(w, RedeemedCodes(u) \cup {c})
    BY <1>5, <1>6 DEF DaysRedeemed
  <1> HIDE DEF w
  <1>10. DaysRedeemed(u)' = DaysRedeemed(u) + days /\ IsFiniteSet(RedeemedCodes(u)')
    <2> PICK S : S = RedeemedCodes(u)
      OBVIOUS
    <2>1. /\ IsFiniteSet(S) /\ c \notin S /\ w[c] \in Nat
          /\ \A d \in S : w[d] \in Nat
      BY <1>2, <1>5, <1>7, <1>8
    <2>2. /\ IsFiniteSet(S \cup {c})
          /\ SumFunctionOnSet(w, S \cup {c}) = SumFunctionOnSet(w, S) + w[c]
      BY <2>1, SumAdd
    <2> QED BY <1>5, <1>7, <1>9, <2>2
  <1>11. ASSUME NEW v \in Users, v # u
         PROVE  RedeemedCodes(v)' = RedeemedCodes(v) /\ DaysRedeemed(v)' = DaysRedeemed(v)
    <2>1. RedeemedCodes(v)' = RedeemedCodes(v)
      BY <1>4, <1>11 DEF RedeemedCodes
    <2>2. \A d \in Codes : codes'[d].months = codes[d].months
      BY <1>1, <1>2, <1>3, <1>4
    <2> QED BY <1>1, <2>1, <2>2, RedeemedSame DEF RedeemedCodes
  <1>12. \A v \in Users :
           PaidInvoices(v)' = PaidInvoices(v) /\ DaysBought(v)' = DaysBought(v)
    BY <1>1, <1>4, BoughtSame DEF PaidInvoices
  <1>13. Sold(u)' = Sold(u) + days
    <2>1. DaysBought(u) \in Nat /\ DaysRedeemed(u) \in Nat
      BY <1>1, <1>2, SoldIsNat
    <2> QED BY <1>2, <1>7, <1>10, <1>12, <2>1 DEF Sold
  <1>14. \A v \in Users : v # u => Sold(v)' = Sold(v)
    BY <1>11, <1>12 DEF Sold
  <1>15. \A v \in Users : IsFiniteSet(PaidInvoices(v)') /\ IsFiniteSet(RedeemedCodes(v)')
    BY <1>1, <1>10, <1>11, <1>12 DEF SalesHeld
  <1> QED BY <1>13, <1>14, <1>15 DEF SoldMore

\* A step that moves one handler and touches no code's months keeps what handlers
\* and rows agree on.
LEMMA HandlerHeld ==
  ASSUME SoldInv, NEW h \in Handlers, NEW q, hand' = [hand EXCEPT ![h] = q],
         \A u \in Users : IsFiniteSet(PaidInvoices(u)') /\ IsFiniteSet(RedeemedCodes(u)'),
         \A c \in Codes : codes'[c].months = codes[c].months,
         \A i \in Invoices :
           invoices[i].status # "paid" /\ invoices'[i].status = "paid" =>
             i = hand[h].invoice /\ q.pc # "unpaid",
         q.pc = "idle" => q.user = None,
         q.pc = "unpaid" => q.invoice \in Invoices /\ invoices'[q.invoice].status # "paid",
         q.pc = "redeem" => q.code \in Codes /\ q.months = codes[q.code].months,
         \/ q.user \in {None, hand[h].user} \cup Hasty
         \/ \A g \in Handlers : hand[g].user # q.user,
         \/ q.invoice \in {None, hand[h].invoice}
         \/ ProviderWaits => \A g \in Handlers : hand[g].invoice # q.invoice
  PROVE  SalesHeld'
  <1>1. /\ hand \in [Handlers -> Handler] /\ SalesHeld
        /\ None \notin Users /\ None \notin Invoices
    BY NoneAssumption DEF SoldInv, SaleInv, VoucherInv, TypeInv, TypeOK
  <1>2. hand'[h] = q /\ \A g \in Handlers : g # h => hand'[g] = hand[g]
    BY <1>1
  <1>3. OneAtATime'
    BY <1>1, <1>2 DEF SalesHeld, OneAtATime
  <1>4. OneDelivery'
    <2> SUFFICES ASSUME ProviderWaits, NEW g \in Handlers
                 PROVE  /\ hand'[g].pc = "unpaid" => invoices'[hand'[g].invoice].status # "paid"
                        /\ \A k \in Handlers :
                             hand'[k].invoice = hand'[g].invoice /\ hand'[g].invoice # None
                               => k = g
      BY DEF OneDelivery
    <2>1. ASSUME NEW k \in Handlers, hand'[k].invoice = hand'[g].invoice,
                 hand'[g].invoice # None
          PROVE  k = g
      BY <1>1, <1>2, <2>1 DEF SalesHeld, OneDelivery
    <2>2. ASSUME hand'[g].pc = "unpaid", g # h
          PROVE  invoices'[hand'[g].invoice].status # "paid"
      <3>1. hand[g].invoice \in Invoices /\ hand[g].pc = "unpaid"
            /\ invoices[hand[g].invoice].status # "paid" /\ hand'[g] = hand[g]
        BY <1>1, <1>2, <2>2 DEF SalesHeld, OneDelivery
      <3>2. hand[h].invoice # hand[g].invoice
        BY <1>1, <2>2, <3>1 DEF SalesHeld, OneDelivery
      <3> QED BY <3>1, <3>2
    <2> QED BY <1>2, <2>1, <2>2
  <1>5. \A g \in Handlers :
          /\ hand'[g].pc = "idle" => hand'[g].user = None
          /\ hand'[g].pc = "unpaid" => hand'[g].invoice \in Invoices
          /\ hand'[g].pc = "redeem" =>
               hand'[g].code \in Codes /\ hand'[g].months = codes'[hand'[g].code].months
    BY <1>1, <1>2 DEF SalesHeld
  <1> QED BY <1>3, <1>4, <1>5 DEF SalesHeld

\* A handler that neither commits a sale nor grants one leaves the accounts right.
LEMMA QuietSold ==
  ASSUME SoldInv, SoldSame, NEW h \in Handlers, NEW q, hand' = [hand EXCEPT ![h] = q],
         UNCHANGED <<day, premiumUntil, restarts>>, hand[h].pc # "grant", q.pc # "grant",
         q.pc = "redeem" => q.until = premiumUntil[q.user]
  PROVE  AddsUp' /\ (ProviderWaits => PaidFor')
  <1>1. hand \in [Handlers -> Handler]
    BY DEF SoldInv, SaleInv, VoucherInv, TypeInv, TypeOK
  <1>2. hand'[h] = q /\ \A g \in Handlers : g # h => hand'[g] = hand[g]
    BY <1>1
  <1>3. \A u \in Users : Granting(u)' = Granting(u)
    BY <1>2 DEF Granting
  <1>4. AddsUp'
    BY <1>2, <1>3 DEF SoldInv, AddsUp, SoldSame
  <1>5. ASSUME ProviderWaits PROVE PaidFor'
    BY <1>2, <1>5 DEF SoldInv, PaidFor, SoldSame
  <1> QED BY <1>4, <1>5

\* A handler that commits a sale, or marks an invoice that was paid already, leaves
\* the accounts right: its copy of the term is the one a later grant builds on.
LEMMA CommittedSold ==
  ASSUME SoldInv, NEW h \in Handlers, NEW q \in Handler, hand' = [hand EXCEPT ![h] = q],
         UNCHANGED <<day, premiumUntil, restarts>>,
         NEW u \in Users, hand[h].user = u, q.user = u, q.pc = "grant",
         \/ hand[h].pc = "unpaid" /\ q.until = premiumUntil[u]
         \/ hand[h].pc = "redeem" /\ q.until = hand[h].until,
         SoldMore(u, Term(q)) \/ (SoldSame /\ ~ProviderWaits)
  PROVE  AddsUp' /\ (ProviderWaits => PaidFor')
  <1>1. /\ hand \in [Handlers -> Handler] /\ premiumUntil \in [Users -> Nat] /\ day \in Nat
        /\ TypeOK /\ SalesHeld
    BY DEF SoldInv, SaleInv, VoucherInv, TypeInv, TypeOK
  <1>2. hand'[h] = q /\ \A g \in Handlers : g # h => hand'[g] = hand[g]
    BY <1>1
  <1>3. PICK term \in Nat : term = Term(q)
    BY DaysAreNat DEF Term, Handler
  <1>4. q.until \in Nat /\ premiumUntil[u] \in Nat /\ Sold(u) \in Nat
    BY <1>1, SoldIsNat DEF Handler
  <1>5. /\ Sold(u)' = Sold(u) + term \/ (Sold(u)' = Sold(u) /\ ~ProviderWaits)
        /\ \A v \in Users : v # u => Sold(v)' = Sold(v)
    BY <1>3 DEF SoldMore, SoldSame
  <1>6. AddsUp'
    <2> SUFFICES ASSUME restarts = 0, NEW v \in Users \ Hasty
                 PROVE  /\ ~Granting(v)' => Sold(v)' <= premiumUntil[v]
                        /\ \A g \in Handlers : hand'[g].user = v =>
                             /\ hand'[g].pc = "redeem" => hand'[g].until = premiumUntil[v]
                             /\ hand'[g].pc = "grant" =>
                                  Sold(v)' <= hand'[g].until + Term(hand'[g])
      BY DEF AddsUp, Term
    <2>1. CASE v # u
      <3>1. Granting(v)' <=> Granting(v)
        BY <1>2, <2>1 DEF Granting
      <3> QED BY <1>2, <1>5, <2>1, <3>1 DEF SoldInv, AddsUp
    <2>2. CASE v = u
      <3>1. \A g \in Handlers : hand[g].user = u => g = h
        BY <1>1, <2>2 DEF SalesHeld, OneAtATime
      <3>2. ~Granting(u) /\ Granting(u)'
        BY <1>2, <3>1 DEF Granting
      <3>3. Sold(u) <= premiumUntil[u] /\ q.until = premiumUntil[u]
        BY <2>2, <3>2 DEF SoldInv, AddsUp
      <3>4. Sold(u)' <= q.until + term
        BY <1>3, <1>4, <1>5, <3>3
      <3> QED BY <1>2, <1>3, <2>2, <3>1, <3>2, <3>4
    <2> QED BY <2>1, <2>2
  <1>7. ASSUME ProviderWaits PROVE PaidFor'
    <2>1. PaidFor /\ Sold(u)' = Sold(u) + term
      BY <1>5, <1>7 DEF SoldInv
    <2>2. /\ premiumUntil[u] <= day + Sold(u)
          /\ q.until <= day + Sold(u)
      BY <2>1 DEF PaidFor
    <2>3. ASSUME NEW g \in Handlers, g # h, hand[g].user = u
          PROVE  /\ hand[g].pc = "redeem" => hand[g].until <= day + Sold(u)'
                 /\ hand[g].pc = "grant" => /\ hand[g].until + Term(hand[g]) <= day + Sold(u)'
                                            /\ Term(hand[g]) <= Sold(u)'
      <3>1. hand[g].until \in Nat /\ Term(hand[g]) \in Nat
        BY <1>1, DaysAreNat DEF Handler, Term
      <3>2. /\ hand[g].pc = "redeem" => hand[g].until <= day + Sold(u)
            /\ hand[g].pc = "grant" => /\ hand[g].until + Term(hand[g]) <= day + Sold(u)
                                       /\ Term(hand[g]) <= Sold(u)
        BY <2>1, <2>3 DEF PaidFor
      <3> QED BY <1>1, <1>4, <2>1, <3>1, <3>2
    <2>4. /\ premiumUntil[u] <= day + Sold(u)'
          /\ q.until + term <= day + Sold(u)' /\ term <= Sold(u)'
      BY <1>1, <1>4, <2>1, <2>2
    <2> SUFFICES ASSUME NEW v \in Users
                 PROVE  /\ premiumUntil[v] <= day + Sold(v)'
                        /\ \A g \in Handlers : hand'[g].user = v =>
                             /\ hand'[g].pc = "redeem" => hand'[g].until <= day + Sold(v)'
                             /\ hand'[g].pc = "grant" =>
                                  /\ hand'[g].until + Term(hand'[g]) <= day + Sold(v)'
                                  /\ Term(hand'[g]) <= Sold(v)'
      BY DEF PaidFor, Term
    <2>5. CASE v # u
      BY <1>2, <1>5, <2>1, <2>5 DEF PaidFor
    <2>6. CASE v = u
      BY <1>2, <1>3, <2>3, <2>4, <2>6
    <2> QED BY <2>5, <2>6
  <1> QED BY <1>6, <1>7

\* Granting a sale leaves the accounts right, whatever the clock did since.
LEMMA GrantSold ==
  ASSUME SoldInv, SoldSame, NEW h \in Handlers, Grant(h)
  PROVE  AddsUp' /\ (ProviderWaits => PaidFor')
  <1> DEFINE new == IF hand[h].invoice = None THEN Idle ELSE [hand[h] EXCEPT !.pc = "reward"]
             start == IF hand[h].until > day THEN hand[h].until ELSE day
  <1>0. PICK q, u, base : q = new /\ u = hand[h].user /\ base = start
    OBVIOUS
  <1>1. /\ hand \in [Handlers -> Handler] /\ premiumUntil \in [Users -> Nat] /\ day \in Nat
        /\ TypeOK /\ SalesHeld /\ u \in Users /\ hand[h].pc = "grant"
    BY <1>0 DEF SoldInv, SaleInv, VoucherInv, TypeInv, TypeOK, HandOK, Grant
  <1>2. PICK term \in Nat : term = Term(hand[h])
    BY <1>1, DaysAreNat DEF Term, Handler
  <1>3. /\ hand[h].until \in Nat /\ base \in Nat /\ base >= hand[h].until
        /\ base = hand[h].until \/ base = day
    BY <1>0, <1>1 DEF Handler
  <1>4. /\ hand' = [hand EXCEPT ![h] = q]
        /\ premiumUntil' = [premiumUntil EXCEPT ![u] = base + term]
        /\ UNCHANGED <<day, restarts>>
    BY <1>0, <1>2 DEF Grant, Term
  <1>5. q.pc \notin {"grant", "redeem"}
    BY <1>0, <1>1 DEF Handler, Idle
  <1> HIDE DEF new, start
  <1>6. /\ hand'[h] = q /\ \A g \in Handlers : g # h => hand'[g] = hand[g]
        /\ premiumUntil'[u] = base + term
        /\ \A v \in Users : v # u => premiumUntil'[v] = premiumUntil[v]
    BY <1>1, <1>4
  <1>7. \A v \in Users : Sold(v)' = Sold(v) /\ Sold(v) \in Nat
    BY <1>1, SoldIsNat DEF SoldSame
  <1>8. AddsUp'
    <2> SUFFICES ASSUME restarts = 0, NEW v \in Users \ Hasty
                 PROVE  /\ ~Granting(v)' => Sold(v)' <= premiumUntil'[v]
                        /\ \A g \in Handlers : hand'[g].user = v =>
                             /\ hand'[g].pc = "redeem" => hand'[g].until = premiumUntil'[v]
                             /\ hand'[g].pc = "grant" =>
                                  Sold(v)' <= hand'[g].until + Term(hand'[g])
      BY <1>4 DEF AddsUp, Term
    <2>1. CASE v # u
      <3>1. ~Granting(v)' => ~Granting(v)
        BY <1>0, <1>6, <2>1 DEF Granting
      <3> QED BY <1>5, <1>6, <1>7, <2>1, <3>1 DEF SoldInv, AddsUp
    <2>2. CASE v = u
      <3>1. \A g \in Handlers : hand[g].user = u => g = h
        BY <1>0, <1>1, <2>2 DEF SalesHeld, OneAtATime
      <3>2. Sold(u) <= hand[h].until + term
        BY <1>0, <1>1, <1>2, <2>2 DEF SoldInv, AddsUp
      <3>3. Sold(u)' <= premiumUntil'[u]
        BY <1>1, <1>3, <1>6, <1>7, <3>2
      <3> QED BY <1>5, <1>6, <2>2, <3>1, <3>3
    <2> QED BY <2>1, <2>2
  <1>9. ASSUME ProviderWaits PROVE PaidFor'
    <2>1. PaidFor
      BY <1>9 DEF SoldInv
    <2>2. hand[h].until + term <= day + Sold(u) /\ term <= Sold(u)
      BY <1>0, <1>1, <1>2, <2>1 DEF PaidFor
    <2>3. premiumUntil'[u] <= day + Sold(u)
      BY <1>1, <1>3, <1>6, <1>7, <2>2
    <2> SUFFICES ASSUME NEW v \in Users
                 PROVE  /\ premiumUntil'[v] <= day + Sold(v)'
                        /\ \A g \in Handlers : hand'[g].user = v =>
                             /\ hand'[g].pc = "redeem" => hand'[g].until <= day + Sold(v)'
                             /\ hand'[g].pc = "grant" =>
                                  /\ hand'[g].until + Term(hand'[g]) <= day + Sold(v)'
                                  /\ Term(hand'[g]) <= Sold(v)'
      BY <1>4 DEF PaidFor, Term
    <2> QED BY <1>5, <1>6, <1>7, <2>1, <2>3 DEF PaidFor
  <1> QED BY <1>8, <1>9

\* Nothing is sold or granted at first.
LEMMA InitSoldInv == Init => SoldInv
  <1> SUFFICES ASSUME Init PROVE SoldInv
    OBVIOUS
  <1>1. SaleInv /\ TypeOK
    BY InitSaleInv DEF SaleInv, VoucherInv, TypeInv
  <1>2. \A u \in Users : PaidInvoices(u) = {} /\ RedeemedCodes(u) = {} /\ premiumUntil[u] = 0
    BY DEF Init, NoInvoice, PaidInvoices, RedeemedCodes
  <1>3. \A h \in Handlers : hand[h].pc = "idle" /\ hand[h].user = None /\ hand[h].invoice = None
    BY DEF Init, Idle
  <1>4. \A u \in Users : Sold(u) = 0
    <2> SUFFICES ASSUME NEW u \in Users PROVE Sold(u) = 0
      OBVIOUS
    <2>1. PaidInvoices(u) = {} /\ RedeemedCodes(u) = {}
      BY <1>2
    <2>2. DaysBought(u) = 0
      BY <2>1, SumEmpty DEF DaysBought
    <2>3. DaysRedeemed(u) = 0
      BY <2>1, SumEmpty DEF DaysRedeemed
    <2> QED BY <2>2, <2>3 DEF Sold
  <1>5. SalesHeld
    BY <1>2, <1>3, NoneAssumption, FS_EmptySet DEF SalesHeld, OneAtATime, OneDelivery
  <1>6. AddsUp /\ PaidFor
    BY <1>2, <1>3, <1>4 DEF AddsUp, PaidFor, Init
  <1> QED BY <1>1, <1>5, <1>6 DEF SoldInv

\* What the steps that sell something and those of the handlers keep of the accounts.
SoldOK == SalesHeld /\ AddsUp /\ (ProviderWaits => PaidFor)

\* Opening, paying and vouching, which no handler takes part in, keep the accounts.
LEMMA OutsideSold ==
  ASSUME SoldInv, SoldSame, Selling \/ Vouching PROVE SoldOK'
  <1>1. /\ invoices \in [Invoices -> Invoice] /\ codes \in [Codes -> Code]
        /\ SalesHeld /\ CodesCounted
    BY DEF SoldInv, SaleInv, VoucherInv, TypeInv, TypeOK
  <1>2. UNCHANGED <<day, premiumUntil, hand, restarts>>
    BY DEF Selling, CreateInvoice, Purchase, AdminCreateInvoice, NewInvoice, Pay, Vouching,
           CreateCode, RevokeCode, CodeExpires
  <1>3. \A i \in Invoices : invoices[i].status # "paid" => invoices'[i].status # "paid"
    <2>1. ASSUME NEW j \in Invoices, NEW u, NEW payload, NEW promised,
                 NewInvoice(j, u, payload, promised)
          PROVE  \A i \in Invoices : invoices[i].status # "paid" => invoices'[i].status # "paid"
      BY <1>1, <2>1 DEF NewInvoice
    <2>2. CASE Selling
      BY <2>1, <2>2 DEF Selling, CreateInvoice, Purchase, AdminCreateInvoice, Pay
    <2>3. CASE Vouching
      BY <2>3 DEF Vouching, CreateCode, RevokeCode, CodeExpires
    <2> QED BY <2>2, <2>3
  <1>4. \A c \in Codes : codes[c].issued => codes'[c].months = codes[c].months
    <2>1. CASE Selling
      BY <2>1 DEF Selling, CreateInvoice, Purchase, AdminCreateInvoice, NewInvoice, Pay
    <2>2. ASSUME NEW d \in Codes, CreateCode(d) \/ RevokeCode(d) \/ CodeExpires(d)
          PROVE  \A c \in Codes : codes[c].issued => codes'[c].months = codes[c].months
      BY <1>1, <2>2 DEF CreateCode, RevokeCode, CodeExpires, Code
    <2> QED BY <2>1, <2>2 DEF Vouching
  <1>5. SalesHeld'
    <2>1. OneAtATime' /\ OneDelivery'
      BY <1>1, <1>2, <1>3 DEF SalesHeld, OneAtATime, OneDelivery
    <2> QED BY <1>1, <1>2, <1>4, <2>1 DEF SalesHeld, SoldSame, CodesCounted
  <1>6. AddsUp'
    <2>1. \A u \in Users : Granting(u)' = Granting(u)
      BY <1>2 DEF Granting
    <2> QED BY <1>2, <2>1 DEF SoldInv, AddsUp, SoldSame, Term
  <1>7. ASSUME ProviderWaits PROVE PaidFor'
    BY <1>2, <1>7 DEF SoldInv, PaidFor, SoldSame, Term
  <1> QED BY <1>5, <1>6, <1>7 DEF SoldOK

\* A step that changes no row and no handler keeps the accounts; so does the clock,
\* which only makes room.
LEMMA ClockSold ==
  ASSUME SoldInv, SoldSame, TimePasses \/ UNCHANGED vars PROVE SoldOK'
  <1>1. /\ premiumUntil \in [Users -> Nat] /\ day \in Nat /\ day' \in Nat /\ day' >= day
        /\ TypeOK /\ SalesHeld /\ hand \in [Handlers -> Handler]
        /\ UNCHANGED <<premiumUntil, invoices, codes, redemptions, hand, restarts>>
    <2>1. /\ premiumUntil \in [Users -> Nat] /\ day \in Nat
          /\ TypeOK /\ SalesHeld /\ hand \in [Handlers -> Handler]
      BY DEF SoldInv, SaleInv, VoucherInv, TypeInv, TypeOK
    <2>2. CASE TimePasses
      BY <2>1, <2>2, ClockAssumption DEF TimePasses
    <2>3. CASE UNCHANGED vars
      BY <2>1, <2>3 DEF vars
    <2> QED BY <2>1, <2>2, <2>3
  <1>2. SalesHeld'
    BY <1>1 DEF SalesHeld, OneAtATime, OneDelivery, SoldSame
  <1>3. AddsUp'
    <2>1. \A u \in Users : Granting(u)' = Granting(u)
      BY <1>1 DEF Granting
    <2> QED BY <1>1, <2>1 DEF SoldInv, AddsUp, SoldSame, Term
  <1>4. ASSUME ProviderWaits PROVE PaidFor'
    <2> SUFFICES ASSUME NEW u \in Users
                 PROVE  /\ premiumUntil[u] <= day' + Sold(u)'
                        /\ \A h \in Handlers : hand[h].user = u =>
                             /\ hand[h].pc = "redeem" => hand[h].until <= day' + Sold(u)'
                             /\ hand[h].pc = "grant" =>
                                  /\ hand[h].until + Term(hand[h]) <= day' + Sold(u)'
                                  /\ Term(hand[h]) <= Sold(u)'
      BY <1>1 DEF PaidFor, Term
    <2>1. Sold(u) \in Nat /\ Sold(u)' = Sold(u) /\ premiumUntil[u] \in Nat /\ PaidFor
      BY <1>1, <1>4, SoldIsNat DEF SoldSame, SoldInv
    <2>2. \A h \in Handlers : hand[h].until \in Nat /\ Term(hand[h]) \in Nat
      BY <1>1, DaysAreNat DEF Handler, Term
    <2> QED BY <1>1, <2>1, <2>2 DEF PaidFor
  <1> QED BY <1>2, <1>3, <1>4 DEF SoldOK

\* A restart leaves no handler that has anything to grant; what was sold and not yet
\* granted is lost to the user, never given twice.
LEMMA RestartSold ==
  ASSUME SoldInv, SoldSame, Restart PROVE SoldOK'
  <1>1. TypeOK /\ SalesHeld /\ restarts \in Nat
    BY DEF SoldInv, SaleInv, VoucherInv, TypeInv, TypeOK
  <1>2. /\ restarts' # 0 /\ UNCHANGED <<day, premiumUntil>>
        /\ \A h \in Handlers :
             hand'[h].pc = "idle" /\ hand'[h].user = None /\ hand'[h].invoice = None
    BY <1>1 DEF Restart, Idle
  <1>3. SalesHeld'
    <2>1. OneAtATime' /\ OneDelivery'
      BY <1>2, NoneAssumption DEF OneAtATime, OneDelivery
    <2> QED BY <1>2, <2>1 DEF SalesHeld, SoldSame
  <1>4. AddsUp'
    BY <1>2 DEF AddsUp
  <1>5. ASSUME ProviderWaits PROVE PaidFor'
    BY <1>2, <1>5 DEF SoldInv, PaidFor, SoldSame
  <1> QED BY <1>3, <1>4, <1>5 DEF SoldOK

\* The steps of the handlers keep the accounts.
LEMMA HandlingSold ==
  ASSUME SoldInv, NEW h \in Handlers, Handling(h) \/ Finish(h),
         (WebhookMark(h) \/ RedeemCommit(h)) \/ SoldSame
  PROVE  SoldOK'
  <1>1. /\ hand \in [Handlers -> Handler] /\ invoices \in [Invoices -> Invoice]
        /\ codes \in [Codes -> Code] /\ premiumUntil \in [Users -> Nat]
        /\ charged \in SUBSET Invoices /\ SalesHeld /\ HandOK /\ SaleOK(hand[h])
    BY DEF SoldInv, SaleInv, VoucherInv, TypeInv, TypeOK
  <1>2. hand[h] \in Handler
    BY <1>1
  <1>3. ASSUME SoldSame
        PROVE  \A u \in Users : IsFiniteSet(PaidInvoices(u)') /\ IsFiniteSet(RedeemedCodes(u)')
    BY <1>3 DEF SoldSame
  <1>4. ASSUME SoldSame, NEW i \in Invoices, WebhookRead(h, i) PROVE SoldOK'
    <2> DEFINE new == [Idle EXCEPT !.pc = "unpaid", !.user = invoices[i].user, !.invoice = i]
    <2>0. PICK q : q = new
      OBVIOUS
    <2>1. q.pc = "unpaid" /\ q.user = invoices[i].user /\ q.invoice = i
      BY <2>0 DEF Idle
    <2>2. /\ hand' = [hand EXCEPT ![h] = q]
          /\ UNCHANGED <<day, premiumUntil, invoices, codes, restarts>>
          /\ hand[h].pc = "idle" /\ invoices[i].status # "paid"
          /\ q.user \in Hasty \/ \A g \in Handlers : hand[g].user # q.user
          /\ ProviderWaits => \A g \in Handlers : hand[g].invoice # i
      BY <1>4, <2>0, <2>1 DEF WebhookRead, MayStart
    <2>3. SalesHeld'
      BY <1>3, <1>4, <2>1, <2>2, HandlerHeld
    <2>4. AddsUp' /\ (ProviderWaits => PaidFor')
      BY <1>4, <2>1, <2>2, QuietSold
    <2> QED BY <2>3, <2>4 DEF SoldOK
  <1>5. CASE WebhookMark(h)
    <2>0. PICK i, u : i = hand[h].invoice /\ u = hand[h].user
      OBVIOUS
    <2> DEFINE new == [hand[h] EXCEPT !.pc = "grant", !.until = premiumUntil[u],
                                    !.days = invoices[i].days, !.months = invoices[i].months]
               row == [invoices[i] EXCEPT !.status = "paid"]
    <2>1. PICK q, r : q = new /\ r = row
      OBVIOUS
    <2>2. hand[h].pc = "unpaid" /\ i \in Invoices /\ u \in Users
      BY <1>1, <1>5, <2>0 DEF WebhookMark, HandOK, SalesHeld
    <2>3. /\ q \in Handler /\ q.pc = "grant" /\ q.user = u /\ q.invoice = i
          /\ q.until = premiumUntil[u]
          /\ q.days = invoices[i].days /\ q.months = invoices[i].months
      BY <1>1, <1>2, <2>0, <2>1, <2>2 DEF Handler, Invoice
    <2>4. /\ hand' = [hand EXCEPT ![h] = q] /\ invoices' = [invoices EXCEPT ![i] = r]
          /\ UNCHANGED <<day, premiumUntil, codes, restarts>>
      BY <1>5, <2>0, <2>1 DEF WebhookMark
    <2>5. IF invoices[i].status = "paid" THEN SoldSame ELSE SoldMore(u, Term(q))
      BY <1>5, <2>0, <2>3, MarkSold DEF Term
    <2>6. ProviderWaits => invoices[i].status # "paid"
      BY <1>1, <2>0, <2>2 DEF SalesHeld, OneDelivery
    <2>7. \A v \in Users : IsFiniteSet(PaidInvoices(v)') /\ IsFiniteSet(RedeemedCodes(v)')
      BY <2>5 DEF SoldSame, SoldMore
    <2> HIDE DEF new, row
    <2>8. SalesHeld'
      <3>1. \A j \in Invoices : j # i => invoices'[j] = invoices[j]
        BY <1>1, <2>2, <2>4
      <3> QED BY <2>0, <2>3, <2>4, <2>7, <3>1, HandlerHeld
    <2>9. AddsUp' /\ (ProviderWaits => PaidFor')
      BY <2>0, <2>2, <2>3, <2>4, <2>5, <2>6, CommittedSold
    <2> QED BY <2>8, <2>9 DEF SoldOK
  <1>6. ASSUME SoldSame, Grant(h) PROVE SoldOK'
    <2> DEFINE new == IF hand[h].invoice = None THEN Idle ELSE [hand[h] EXCEPT !.pc = "reward"]
    <2>0. PICK q : q = new
      OBVIOUS
    <2>1. /\ hand' = [hand EXCEPT ![h] = q] /\ hand[h].pc = "grant"
          /\ UNCHANGED <<invoices, codes>>
      BY <1>6, <2>0 DEF Grant
    <2>2. \/ q.pc = "idle" /\ q.user = None /\ q.invoice = None
          \/ q.pc = "reward" /\ q.user = hand[h].user /\ q.invoice = hand[h].invoice
      BY <1>2, <2>0 DEF Handler, Idle
    <2> HIDE DEF new
    <2>3. SalesHeld'
      BY <1>3, <1>6, <2>1, <2>2, HandlerHeld
    <2> QED BY <1>6, <2>3, GrantSold DEF SoldOK
  <1>7. ASSUME SoldSame, NEW u \in Buyers, NEW c \in Codes, RedeemRead(h, u, c) PROVE SoldOK'
    <2> DEFINE new == [Idle EXCEPT !.pc = "redeem", !.user = u, !.code = c,
                                 !.until = premiumUntil[u], !.months = codes[c].months]
    <2>0. PICK q : q = new
      OBVIOUS
    <2>1. /\ q.pc = "redeem" /\ q.user = u /\ q.invoice = None /\ q.code = c
          /\ q.until = premiumUntil[u] /\ q.months = codes[c].months
      BY <2>0 DEF Idle
    <2>2. /\ hand' = [hand EXCEPT ![h] = q] /\ hand[h].pc = "idle"
          /\ UNCHANGED <<day, premiumUntil, invoices, codes, restarts>>
          /\ u \in Hasty \/ \A g \in Handlers : hand[g].user # u
      BY <1>7, <2>0 DEF RedeemRead, MayStart
    <2>3. SalesHeld'
      BY <1>3, <1>7, <2>1, <2>2, HandlerHeld
    <2>4. AddsUp' /\ (ProviderWaits => PaidFor')
      BY <1>7, <2>1, <2>2, QuietSold
    <2> QED BY <2>3, <2>4 DEF SoldOK
  <1>8. CASE RedeemCommit(h)
    <2>0. PICK c, u : c = hand[h].code /\ u = hand[h].user
      OBVIOUS
    <2> DEFINE new == [hand[h] EXCEPT !.pc = "grant"]
               row == [codes[c] EXCEPT !.used = codes[c].used + 1]
    <2>1. PICK q, r : q = new /\ r = row
      OBVIOUS
    <2>2. hand[h].pc = "redeem" /\ c \in Codes /\ u \in Users
      BY <1>1, <1>8, <2>0 DEF RedeemCommit, HandOK
    <2>3. /\ q \in Handler /\ q.pc = "grant" /\ q.user = u /\ q.invoice = hand[h].invoice
          /\ q.until = hand[h].until /\ q.days = hand[h].days /\ q.months = hand[h].months
      BY <1>2, <2>0, <2>1 DEF Handler
    <2>4. r.months = codes[c].months
      BY <1>1, <2>1, <2>2 DEF Code
    <2>5. /\ hand' = [hand EXCEPT ![h] = q] /\ codes' = [codes EXCEPT ![c] = r]
          /\ UNCHANGED <<day, premiumUntil, invoices, restarts>>
      BY <1>8, <2>0, <2>1 DEF RedeemCommit
    <2>6. Term(q) = 30 * hand[h].months
      BY <1>1, <2>2, <2>3 DEF Term, DaysOf, SaleOK
    <2>7. SoldMore(u, Term(q))
      BY <1>8, <2>0, <2>6, CommitSold
    <2> HIDE DEF new, row
    <2>8. SalesHeld'
      <3>1. \A d \in Codes : codes'[d].months = codes[d].months
        BY <1>1, <2>2, <2>4, <2>5
      <3> QED BY <2>0, <2>3, <2>5, <2>7, <3>1, HandlerHeld DEF SoldMore
    <2>9. AddsUp' /\ (ProviderWaits => PaidFor')
      BY <2>0, <2>2, <2>3, <2>5, <2>7, CommittedSold
    <2> QED BY <2>8, <2>9 DEF SoldOK
  <1>9. ASSUME SoldSame, RedeemRefused(h) \/ Finish(h) PROVE SoldOK'
    <2>1. /\ hand' = [hand EXCEPT ![h] = Idle] /\ hand[h].pc # "grant"
          /\ UNCHANGED <<day, premiumUntil, invoices, codes, restarts>>
      BY <1>9 DEF RedeemRefused, Finish
    <2>2. Idle.pc = "idle" /\ Idle.user = None /\ Idle.invoice = None
      BY DEF Idle
    <2>3. SalesHeld'
      BY <1>3, <1>9, <2>1, <2>2, HandlerHeld
    <2>4. AddsUp' /\ (ProviderWaits => PaidFor')
      BY <1>9, <2>1, <2>2, QuietSold
    <2> QED BY <2>3, <2>4 DEF SoldOK
  <1> QED BY <1>4, <1>5, <1>6, <1>7, <1>8, <1>9 DEF Handling

\* Every step keeps the accounts.
LEMMA StepSoldInv ==
  ASSUME SoldInv, [Next]_vars PROVE SoldInv'
  <1> SUFFICES SoldOK'
    BY StepSaleInv DEF SoldInv, SoldOK
  <1>1. CASE \E h \in Handlers : WebhookMark(h) \/ RedeemCommit(h)
    BY <1>1, HandlingSold DEF Handling
  <1>2. CASE \A h \in Handlers : ~WebhookMark(h) /\ ~RedeemCommit(h)
    <2>1. SoldSame
      BY <1>2, OtherSold
    <2> QED BY <2>1, OutsideSold, ClockSold, RestartSold, HandlingSold DEF Next
  <1> QED BY <1>1, <1>2

\* For any number of users, invoices and codes: as long as the process was not
\* restarted, a user whose requests and deliveries come one at a time has at least the
\* sum of what he paid for and redeemed (PremiumAddsUp), because the handler that
\* commits a sale holds an up-to-date copy of his term until it has granted it
\* (cryptobot_webhook, redeem_promocode, grant_premium).
THEOREM SalesAddUp == Spec => []PremiumAddsUp
  <1>1. Init => SoldInv
    BY InitSoldInv
  <1>2. SoldInv /\ [Next]_vars => SoldInv'
    BY StepSoldInv
  <1>3. SoldInv => PremiumAddsUp
    BY DEF SoldInv, AddsUp, PremiumAddsUp, Delivered, AtRest, Granting
  <1> QED BY <1>1, <1>2, <1>3, PTL DEF Spec

\* For any number of users, invoices and codes, with requests that overlap and
\* restarts at any point: if the provider delivers an update again only after the last
\* delivery was answered, no user has more than what his sales come to, counted from
\* today (PremiumIsPaidFor).  No sale is granted twice.
THEOREM NothingGivenAway == ProviderWaits => (Spec => []PremiumIsPaidFor)
  <1> SUFFICES ASSUME ProviderWaits PROVE Spec => []PremiumIsPaidFor
    OBVIOUS
  <1>1. Init => SoldInv
    BY InitSoldInv
  <1>2. SoldInv /\ [Next]_vars => SoldInv'
    BY StepSoldInv
  <1>3. SoldInv => PremiumIsPaidFor
    BY DEF SoldInv, PaidFor, PremiumIsPaidFor
  <1> QED BY <1>1, <1>2, <1>3, PTL DEF Spec

-----------------------------------------------------------------------------
(* The rewards and the withdrawals leave Payments as it is.                *)

\* Every step is a step of Payments or leaves its variables alone.
LEMMA BillingStepIsNext == BillingNext => [Next]_vars
  <1> SUFFICES ASSUME BillingNext PROVE Next \/ UNCHANGED vars
    OBVIOUS
  <1>1. CASE (Selling \/ Vouching \/ TimePasses) \/ BillingRestart
    BY <1>1 DEF Next, BillingRestart
  <1>2. ASSUME NEW h \in Handlers, Handling(h) PROVE Next
    BY <1>2 DEF Next
  <1>3. ASSUME NEW h \in Handlers, NoRewardDue(h) \/ RewardEnds(h) PROVE Next
    BY <1>3 DEF Next, NoRewardDue, RewardEnds
  <1>4. ASSUME NEW h \in Handlers, RewardStarts(h) \/ RewardCounts(h) PROVE UNCHANGED vars
    BY <1>4 DEF RewardStarts, RewardCounts
  <1> QED BY <1>1, <1>2, <1>3, <1>4 DEF BillingNext

\* Seen from the payments, the composition behaves as Payments does, whatever
\* partners, rewards and withdrawals do (the webhook's call of
\* process_referral_reward and the commit after it).
THEOREM BillingIsPayments == BillingSpec => Spec
  <1>1. [BillingNext]_allVars => [Next]_vars
    BY BillingStepIsNext DEF allVars, vars
  <1> QED BY <1>1, PTL DEF BillingSpec, BillingInit, Spec

\* So a promo code keeps its promise beside the referral programme too.
THEOREM BillingKeepsVouchers == BillingSpec => ImplementsVouchers
  BY BillingIsPayments, VouchersImplemented

\* And the premium of a user who has a referrer adds up to what was sold to him, as
\* that of any other.
THEOREM BillingAddsUp == BillingSpec => []PremiumAddsUp
  BY BillingIsPayments, SalesAddUp

-----------------------------------------------------------------------------
(* Types.                                                                  *)

AffiliateTypes ==
  /\ accounts \in [Users -> Account]
  /\ txs \in SUBSET Transaction
  /\ withdrawals \in [Withdrawals -> Withdrawal]
  /\ sent \in [Users -> Nat]
  /\ reward \in [Handlers -> Reward]
  /\ payout \in [Payouts -> Payout]

InProcess == {"process", "transfer", "settle", "unsettle"}

PayoutOK(q) ==
  /\ q.pc # "idle" => q.user \in Users
  /\ q.pc \in InProcess => q.row \in Withdrawals

\* Requests and rows that are in use belong to somebody; a row in process exists.
PayoutsOwned ==
  /\ \A p \in Payouts : PayoutOK(payout[p])
  /\ \A w \in Withdrawals : withdrawals[w].status # "none" => withdrawals[w].user \in Users
  /\ \A p \in Payouts :
       payout[p].pc \in InProcess => withdrawals[payout[p].row].status # "none"

RewardOK(q) ==
  q.pc # "idle" => q.invoice \in Invoices /\ q.referrer \in Users /\ q.referred \in Users

RewardsOwned == \A h \in Handlers : RewardOK(reward[h])

AffiliateInv == AffiliateTypes /\ PayoutsOwned /\ RewardsOwned

\* Nothing is owed at first.
LEMMA InitAffiliateInv == AffiliateInit => AffiliateInv
  <1> SUFFICES ASSUME AffiliateInit PROVE AffiliateInv
    OBVIOUS
  <1>1. NewAccount \in Account
    BY DEF NewAccount, Account
  <1>2. NoWithdrawal \in Withdrawal /\ NoWithdrawal.status = "none"
    BY DEF NoWithdrawal, Withdrawal
  <1>3. NoReward \in Reward /\ NoReward.pc = "idle"
    BY Zenon DEF NoReward, Reward
  <1>4. NoPayout \in Payout /\ NoPayout.pc = "idle"
    BY DEF NoPayout, Payout
  <1>5. AffiliateTypes
    BY <1>1, <1>2, <1>3, <1>4 DEF AffiliateInit, AffiliateTypes
  <1>6. PayoutsOwned
    BY <1>2, <1>4 DEF AffiliateInit, PayoutsOwned, PayoutOK, InProcess
  <1>7. RewardsOwned
    BY <1>3 DEF AffiliateInit, RewardsOwned, RewardOK
  <1> QED BY <1>5, <1>6, <1>7 DEF AffiliateInv

\* A request without work is right.
LEMMA NoPayoutOK == NoPayout \in Payout /\ PayoutOK(NoPayout) /\ NoPayout.pc = "idle"
  BY DEF NoPayout, Payout, PayoutOK, InProcess

\* A request that moves to a local state that is right, while no row goes away,
\* keeps requests and rows right.
LEMMA PayoutStep ==
  ASSUME AffiliateInv, NEW p \in Payouts, NEW q \in Payout, PayoutOK(q),
         payout' = [payout EXCEPT ![p] = q],
         q.pc \in InProcess => withdrawals'[q.row].status # "none",
         withdrawals' \in [Withdrawals -> Withdrawal],
         \A w \in Withdrawals :
           /\ withdrawals[w].status # "none" => withdrawals'[w].status # "none"
           /\ withdrawals'[w].status # "none" => withdrawals'[w].user \in Users
  PROVE  payout' \in [Payouts -> Payout] /\ PayoutsOwned'
  BY DEF AffiliateInv, AffiliateTypes, PayoutsOwned, PayoutOK

\* The same when the rows are not touched.
LEMMA PayoutOnlyStep ==
  ASSUME AffiliateInv, NEW p \in Payouts, NEW q \in Payout, PayoutOK(q),
         payout' = [payout EXCEPT ![p] = q], UNCHANGED withdrawals,
         q.pc \in InProcess => withdrawals[q.row].status # "none"
  PROVE  payout' \in [Payouts -> Payout] /\ PayoutsOwned'
  <1>1. /\ withdrawals' \in [Withdrawals -> Withdrawal]
        /\ \A w \in Withdrawals :
             withdrawals'[w].status # "none" => withdrawals'[w].user \in Users
    BY DEF AffiliateInv, AffiliateTypes, PayoutsOwned
  <1> QED BY <1>1, PayoutStep

\* A row that exists and gets another status stays its owner's.
LEMMA StatusStep ==
  ASSUME AffiliateInv, NEW w \in Withdrawals, withdrawals[w].status # "none",
         NEW status \in {"pending", "processing", "completed", "rejected"},
         SetStatus(w, status)
  PROVE  /\ withdrawals' \in [Withdrawals -> Withdrawal]
         /\ \A v \in Withdrawals :
              /\ withdrawals[v].status # "none" => withdrawals'[v].status # "none"
              /\ withdrawals'[v].status # "none" => withdrawals'[v].user \in Users
  <1> DEFINE row == [withdrawals[w] EXCEPT !.status = status]
  <1>1. withdrawals[w] \in Withdrawal
    BY DEF AffiliateInv, AffiliateTypes
  <1>2. row \in Withdrawal /\ row.user = withdrawals[w].user /\ row.status = status
    BY <1>1 DEF Withdrawal
  <1>3. withdrawals' = [withdrawals EXCEPT ![w] = row]
    BY DEF SetStatus
  <1> HIDE DEF row
  <1> QED BY <1>2, <1>3 DEF AffiliateInv, AffiliateTypes, PayoutsOwned

\* A request that moves on inside process_withdrawal keeps requests and rows right,
\* whether it leaves its row alone or sets its status.
LEMMA ProcessStep ==
  ASSUME AffiliateInv, NEW p \in Payouts, NEW from \in InProcess,
         NEW to \in {"idle", "transfer", "settle", "unsettle"}, Step(p, from, to),
         \/ UNCHANGED withdrawals
         \/ \E status \in {"pending", "processing", "completed", "rejected"} :
              SetStatus(payout[p].row, status)
  PROVE  /\ withdrawals' \in [Withdrawals -> Withdrawal]
         /\ payout' \in [Payouts -> Payout] /\ PayoutsOwned'
         /\ payout[p].user \in Users /\ payout[p].amount \in Nat
  <1>1. /\ payout[p] \in Payout /\ PayoutOK(payout[p]) /\ payout[p].pc = from
        /\ withdrawals[payout[p].row].status # "none"
    BY DEF AffiliateInv, AffiliateTypes, PayoutsOwned, Step
  <1>2. payout[p].user \in Users /\ payout[p].row \in Withdrawals /\ payout[p].amount \in Nat
    BY <1>1 DEF PayoutOK, Payout, InProcess
  <1>3. /\ withdrawals' \in [Withdrawals -> Withdrawal]
        /\ \A v \in Withdrawals :
             /\ withdrawals[v].status # "none" => withdrawals'[v].status # "none"
             /\ withdrawals'[v].status # "none" => withdrawals'[v].user \in Users
    BY <1>1, <1>2, StatusStep DEF AffiliateInv, AffiliateTypes, PayoutsOwned
  <1>4. CASE to = "idle"
    <2>1. payout' = [payout EXCEPT ![p] = NoPayout]
      BY <1>4 DEF Step
    <2>2. NoPayout.pc \notin InProcess
      BY NoPayoutOK DEF InProcess
    <2> QED BY <1>2, <1>3, <2>1, <2>2, NoPayoutOK, PayoutStep
  <1>5. CASE to # "idle"
    <2> DEFINE q == [payout[p] EXCEPT !.pc = to]
    <2>1. q \in Payout /\ q.user = payout[p].user /\ q.row = payout[p].row
      BY <1>1 DEF Payout
    <2>2. payout' = [payout EXCEPT ![p] = q]
      BY <1>5 DEF Step
    <2> HIDE DEF q
    <2>3. PayoutOK(q) /\ withdrawals'[q.row].status # "none"
      BY <1>1, <1>2, <1>3, <2>1 DEF PayoutOK
    <2> QED BY <1>2, <1>3, <2>1, <2>2, <2>3, PayoutStep
  <1> QED BY <1>4, <1>5

\* The steps of process_withdrawal keep the types.
LEMMA ProcessTypes ==
  ASSUME AffiliateInv, NEW p \in Payouts,
         Process(p) \/ Transfer(p) \/ TransferTimesOut(p) \/ Settle(p) \/ Unsettle(p)
  PROVE  AffiliateInv'
  <1>1. /\ accounts \in [Users -> Account] /\ sent \in [Users -> Nat]
        /\ UNCHANGED <<txs, reward>>
    BY DEF AffiliateInv, AffiliateTypes, Process, Transfer, TransferTimesOut, TransferSent,
           TransferNotSent, Settle, Unsettle
  <1>2. CASE Process(p) \/ Unsettle(p)
    <2>1. withdrawals' \in [Withdrawals -> Withdrawal] /\ payout' \in [Payouts -> Payout]
          /\ PayoutsOwned'
      BY <1>2, ProcessStep DEF Process, Unsettle, InProcess
    <2> QED BY <1>1, <1>2, <2>1
      DEF Process, Unsettle, AffiliateInv, AffiliateTypes, RewardsOwned
  <1>3. ASSUME NEW to \in {"idle", "settle", "unsettle"},
               TransferSent(p, to) \/ TransferNotSent(p, to)
        PROVE  AffiliateInv'
    <2>1. withdrawals' \in [Withdrawals -> Withdrawal] /\ payout' \in [Payouts -> Payout]
          /\ PayoutsOwned' /\ payout[p].user \in Users /\ payout[p].amount \in Nat
      BY <1>3, ProcessStep DEF TransferSent, TransferNotSent, InProcess
    <2>2. sent' \in [Users -> Nat]
      BY <1>1, <1>3, <2>1 DEF TransferSent, TransferNotSent
    <2> QED BY <1>1, <1>3, <2>1, <2>2
      DEF TransferSent, TransferNotSent, AffiliateInv, AffiliateTypes, RewardsOwned
  <1>4. CASE Settle(p)
    <2> DEFINE u == payout[p].user
               row == [accounts[u] EXCEPT !.balance = accounts[u].balance - payout[p].amount]
    <2>1. withdrawals' \in [Withdrawals -> Withdrawal] /\ payout' \in [Payouts -> Payout]
          /\ PayoutsOwned' /\ u \in Users /\ payout[p].amount \in Nat
      BY <1>4, ProcessStep DEF Settle, InProcess
    <2>2. accounts[u] \in Account
      BY <1>1, <2>1
    <2>3. accounts[u].balance - payout[p].amount \in Int
      BY <2>1, <2>2 DEF Account
    <2>4. row \in Account
      BY <2>2, <2>3, Zenon DEF Account
    <2>5. accounts' = [accounts EXCEPT ![u] = row] /\ UNCHANGED sent
      BY <1>4 DEF Settle
    <2> HIDE DEF row, u
    <2>6. accounts' \in [Users -> Account]
      BY <1>1, <2>1, <2>4, <2>5
    <2> QED BY <1>1, <2>1, <2>5, <2>6 DEF AffiliateInv, AffiliateTypes, RewardsOwned
  <1>5. CASE Transfer(p) \/ TransferTimesOut(p)
    BY <1>3, <1>5 DEF Transfer, TransferTimesOut
  <1> QED BY <1>2, <1>4, <1>5

\* The requests of partners and admins that are not in process_withdrawal keep the
\* types.
LEMMA PartnerTypes ==
  ASSUME AffiliateInv,
         \/ \E u \in Users : ApplyPartner(u)
         \/ \E p \in Payouts :
              \/ \E u \in Users, amount \in Amounts : WithdrawRead(p, u, amount)
              \/ WithdrawCheck(p) \/ WithdrawInsert(p)
              \/ \E w \in Withdrawals : ApproveRead(p, w)
         \/ \E w \in Withdrawals : Reject(w)
  PROVE  AffiliateInv'
  <1>1. /\ accounts \in [Users -> Account] /\ withdrawals \in [Withdrawals -> Withdrawal]
        /\ payout \in [Payouts -> Payout] /\ sent \in [Users -> Nat]
    BY DEF AffiliateInv, AffiliateTypes
  <1>2. ASSUME NEW u \in Users, ApplyPartner(u) PROVE AffiliateInv'
    <2> DEFINE row == [accounts[u] EXCEPT !.partner = TRUE]
    <2>1. row \in Account
      BY <1>1, Zenon DEF Account
    <2>2. accounts' = [accounts EXCEPT ![u] = row]
          /\ UNCHANGED <<txs, withdrawals, sent, reward, payout>>
      BY <1>2 DEF ApplyPartner
    <2> HIDE DEF row
    <2> QED BY <1>1, <2>1, <2>2
      DEF AffiliateInv, AffiliateTypes, PayoutsOwned, RewardsOwned
  <1>3. ASSUME NEW p \in Payouts, NEW q \in Payout, PayoutOK(q), q.pc \notin InProcess,
               payout' = [payout EXCEPT ![p] = q],
               UNCHANGED <<accounts, txs, withdrawals, sent, reward>>
        PROVE  AffiliateInv'
    <2>1. payout' \in [Payouts -> Payout] /\ PayoutsOwned'
      BY <1>3, PayoutOnlyStep
    <2> QED BY <1>3, <2>1 DEF AffiliateInv, AffiliateTypes, RewardsOwned
  <1>4. ASSUME NEW p \in Payouts, NEW u \in Users, NEW amount \in Amounts,
               WithdrawRead(p, u, amount)
        PROVE  AffiliateInv'
    <2> DEFINE q == [pc |-> "check", user |-> u, amount |-> amount, row |-> None]
    <2>1. q \in Payout /\ PayoutOK(q) /\ q.pc \notin InProcess
      BY AmountsAssumption DEF Payout, PayoutOK, InProcess
    <2>2. /\ payout' = [payout EXCEPT ![p] = q]
          /\ UNCHANGED <<accounts, txs, withdrawals, sent, reward>>
      BY <1>4 DEF WithdrawRead
    <2> HIDE DEF q
    <2> QED BY <1>3, <2>1, <2>2
  <1>5. ASSUME NEW p \in Payouts, WithdrawCheck(p) PROVE AffiliateInv'
    <2> DEFINE q == IF ActiveOf(payout[p].user) = {} THEN [payout[p] EXCEPT !.pc = "insert"]
                                                     ELSE NoPayout
    <2>1. payout[p] \in Payout /\ PayoutOK(payout[p]) /\ payout[p].pc = "check"
      BY <1>5 DEF AffiliateInv, AffiliateTypes, PayoutsOwned, WithdrawCheck
    <2>2. q \in Payout /\ PayoutOK(q) /\ q.pc \notin InProcess
      <3>1. [payout[p] EXCEPT !.pc = "insert"] \in Payout
            /\ [payout[p] EXCEPT !.pc = "insert"].user = payout[p].user
            /\ [payout[p] EXCEPT !.pc = "insert"].pc = "insert"
        BY <2>1 DEF Payout
      <3> QED BY <2>1, <3>1, NoPayoutOK DEF PayoutOK, InProcess
    <2>3. /\ payout' = [payout EXCEPT ![p] = q]
          /\ UNCHANGED <<accounts, txs, withdrawals, sent, reward>>
      BY <1>5 DEF WithdrawCheck
    <2> HIDE DEF q
    <2> QED BY <1>3, <2>2, <2>3
  <1>6. ASSUME NEW p \in Payouts, WithdrawInsert(p) PROVE AffiliateInv'
    <2>1. payout[p] \in Payout /\ payout[p].user \in Users
      BY <1>6 DEF AffiliateInv, AffiliateTypes, PayoutsOwned, PayoutOK, WithdrawInsert
    <2> DEFINE row == [status |-> "pending", user |-> payout[p].user,
                       amount |-> payout[p].amount]
    <2>2. PICK w \in Withdrawals :
            /\ withdrawals' = [withdrawals EXCEPT ![w] = row]
            /\ payout' = [payout EXCEPT ![p] = [payout[p] EXCEPT !.pc = "process", !.row = w]]
      BY <1>6 DEF WithdrawInsert
    <2> DEFINE q == [payout[p] EXCEPT !.pc = "process", !.row = w]
    <2>3. row \in Withdrawal /\ row.status = "pending" /\ row.user = payout[p].user
      BY <2>1 DEF Payout, Withdrawal
    <2>4. q \in Payout /\ q.user = payout[p].user /\ q.row = w
      BY <2>1 DEF Payout
    <2> HIDE DEF row, q
    <2>5. PayoutOK(q)
      BY <2>1, <2>4 DEF PayoutOK
    <2>6. /\ withdrawals' \in [Withdrawals -> Withdrawal]
          /\ withdrawals'[w].status # "none"
          /\ \A v \in Withdrawals :
               /\ withdrawals[v].status # "none" => withdrawals'[v].status # "none"
               /\ withdrawals'[v].status # "none" => withdrawals'[v].user \in Users
      BY <1>1, <2>1, <2>2, <2>3 DEF AffiliateInv, PayoutsOwned
    <2>7. payout' \in [Payouts -> Payout] /\ PayoutsOwned'
      <3>1. payout' = [payout EXCEPT ![p] = q]
        BY <2>2 DEF q
      <3> QED BY <2>4, <2>5, <2>6, <3>1, PayoutStep
    <2> QED BY <1>6, <2>6, <2>7 DEF WithdrawInsert, AffiliateInv, AffiliateTypes, RewardsOwned
  <1>7. ASSUME NEW p \in Payouts, NEW w \in Withdrawals, ApproveRead(p, w)
        PROVE  AffiliateInv'
    <2> DEFINE q == [pc |-> "process", user |-> withdrawals[w].user,
                     amount |-> withdrawals[w].amount, row |-> w]
    <2>1. withdrawals[w] \in Withdrawal /\ withdrawals[w].status = "pending"
          /\ withdrawals[w].user \in Users
      BY <1>1, <1>7 DEF ApproveRead, AffiliateInv, PayoutsOwned
    <2>2. q \in Payout /\ PayoutOK(q) /\ q.row = w
      BY <2>1 DEF Withdrawal, Payout, PayoutOK
    <2>3. /\ payout' = [payout EXCEPT ![p] = q]
          /\ UNCHANGED <<accounts, txs, withdrawals, sent, reward>>
      BY <1>7 DEF ApproveRead
    <2> HIDE DEF q
    <2>4. payout' \in [Payouts -> Payout] /\ PayoutsOwned'
      BY <2>1, <2>2, <2>3, PayoutOnlyStep
    <2> QED BY <2>3, <2>4 DEF AffiliateInv, AffiliateTypes, RewardsOwned
  <1>8. ASSUME NEW w \in Withdrawals, Reject(w) PROVE AffiliateInv'
    <2>1. withdrawals[w].status # "none" /\ SetStatus(w, "rejected")
          /\ UNCHANGED <<accounts, txs, sent, reward, payout>>
      BY <1>8 DEF Reject, SetStatus
    <2>2. /\ withdrawals' \in [Withdrawals -> Withdrawal]
          /\ \A v \in Withdrawals :
               /\ withdrawals[v].status # "none" => withdrawals'[v].status # "none"
               /\ withdrawals'[v].status # "none" => withdrawals'[v].user \in Users
      BY <2>1, StatusStep
    <2> QED BY <2>1, <2>2
      DEF AffiliateInv, AffiliateTypes, PayoutsOwned, PayoutOK, RewardsOwned
  <1> QED BY <1>2, <1>4, <1>5, <1>6, <1>7, <1>8

\* A reward that moves to a local state that is right keeps the types.
LEMMA RewardStep ==
  ASSUME AffiliateInv, NEW h \in Handlers, NEW q \in Reward, RewardOK(q),
         reward' = [reward EXCEPT ![h] = q],
         UNCHANGED <<accounts, txs, withdrawals, sent, payout>>
  PROVE  AffiliateInv'
  <1>1. reward' \in [Handlers -> Reward] /\ RewardsOwned'
    BY DEF AffiliateInv, AffiliateTypes, RewardsOwned
  <1> QED BY <1>1 DEF AffiliateInv, AffiliateTypes, PayoutsOwned, PayoutOK

\* A reward without work is right.
LEMMA NoRewardOK == NoReward \in Reward /\ RewardOK(NoReward) /\ NoReward.pc = "idle"
  BY Zenon DEF NoReward, Reward, RewardOK

\* Counting the payments keeps the types.
LEMMA RewardCountTypes ==
  ASSUME AffiliateInv, NEW h \in Handlers, NEW paidCount, RewardCount(h, paidCount)
  PROVE  AffiliateInv'
  <1>1. PICK pc \in {"cpa", "revshare", "nothing"} :
          reward' = [reward EXCEPT ![h] = [reward[h] EXCEPT !.pc = pc]]
    BY DEF RewardCount
  <1> DEFINE q == [reward[h] EXCEPT !.pc = pc]
  <1>2. reward[h] \in Reward /\ RewardOK(reward[h]) /\ reward[h].pc = "count"
    BY DEF AffiliateInv, AffiliateTypes, RewardsOwned, RewardCount
  <1>3. q \in Reward
    BY <1>2, Zenon DEF Reward
  <1>4. q.invoice = reward[h].invoice /\ q.referrer = reward[h].referrer
        /\ q.referred = reward[h].referred
    BY <1>2, Zenon DEF Reward
  <1>5. reward' = [reward EXCEPT ![h] = q]
    BY <1>1
  <1> HIDE DEF q
  <1>6. RewardOK(q)
    BY <1>2, <1>4 DEF RewardOK
  <1> QED BY <1>3, <1>5, <1>6, RewardStep DEF RewardCount

\* What is booked is a transaction of the reward's invoice and users.
LEMMA BookingOK ==
  ASSUME AffiliateInv, NEW h \in Handlers, reward[h].pc \in {"discount", "cpa", "revshare"}
  PROVE  /\ Booking(h) \in Transaction
         /\ Booking(h).invoice = reward[h].invoice
         /\ Booking(h).referrer = reward[h].referrer
         /\ Booking(h).referred = reward[h].referred
         /\ Booking(h).type = reward[h].pc
         /\ reward[h].referrer \in Users
  <1> DEFINE amount == CASE reward[h].pc = "discount" -> 0 [] reward[h].pc = "cpa" -> Cpa
                         [] OTHER -> Share
  <1>1. /\ reward[h].invoice \in Invoices /\ reward[h].referrer \in Users
        /\ reward[h].referred \in Users
    BY DEF AffiliateInv, RewardsOwned, RewardOK
  <1>2. amount \in Nat
    BY AmountsAssumption
  <1>3. Booking(h) = [invoice |-> reward[h].invoice, referrer |-> reward[h].referrer,
                      referred |-> reward[h].referred, type |-> reward[h].pc,
                      amount |-> amount]
    BY DEF Booking
  <1> HIDE DEF amount
  <1> QED BY <1>1, <1>2, <1>3 DEF Transaction

\* A transaction adds its amount to the balance, and one to the referrals if it is a
\* first payment.
LEMMA CreditedOK ==
  ASSUME NEW a \in Account, NEW t \in Transaction
  PROVE  /\ Credited(a, t) \in Account
         /\ Credited(a, t).refs = IF t.type = "cpa" THEN a.refs + 1 ELSE a.refs
         /\ Credited(a, t).balance = a.balance + t.amount
  <1> DEFINE refs == IF t.type = "cpa" THEN a.refs + 1 ELSE a.refs
             balance == a.balance + t.amount
             discount == a.discount \/ t.type = "discount"
  <1>1. refs \in Nat /\ balance \in Int
    BY DEF Account, Transaction
  <1>2. discount \in BOOLEAN
    OBVIOUS
  <1>3. Credited(a, t) = [a EXCEPT !.discount = discount, !.balance = balance, !.refs = refs]
    BY Zenon DEF Credited
  <1> HIDE DEF refs, balance, discount
  <1>4. Credited(a, t) \in Account /\ Credited(a, t).refs = refs
        /\ Credited(a, t).balance = balance
    BY <1>1, <1>2, <1>3, Zenon DEF Account
  <1> QED BY <1>4 DEF refs, balance

\* Ending a reward, with or without a transaction, keeps the types.
LEMMA RewardEndTypes ==
  ASSUME AffiliateInv, NEW h \in Handlers, RewardBook(h) \/ RewardDrop(h)
  PROVE  AffiliateInv'
  <1>1. CASE RewardDrop(h)
    BY <1>1, NoRewardOK, RewardStep DEF RewardDrop
  <1>2. CASE RewardBook(h)
    <2> DEFINE r == reward[h].referrer
    <2>1. Booking(h) \in Transaction /\ r \in Users
      BY <1>2, BookingOK DEF RewardBook
    <2>2. /\ txs' = txs \cup {Booking(h)}
          /\ accounts' = [accounts EXCEPT ![r] = Credited(accounts[r], Booking(h))]
          /\ reward' = [reward EXCEPT ![h] = NoReward]
          /\ UNCHANGED <<withdrawals, sent, payout>>
      BY <1>2 DEF RewardBook
    <2>3. Credited(accounts[r], Booking(h)) \in Account
      BY <2>1, CreditedOK DEF AffiliateInv, AffiliateTypes
    <2> HIDE DEF r
    <2>4. accounts' \in [Users -> Account] /\ txs' \in SUBSET Transaction
      BY <2>1, <2>2, <2>3 DEF AffiliateInv, AffiliateTypes
    <2>5. reward' \in [Handlers -> Reward] /\ RewardsOwned'
      BY <2>2, NoRewardOK DEF AffiliateInv, AffiliateTypes, RewardsOwned
    <2> QED BY <2>2, <2>4, <2>5 DEF AffiliateInv, AffiliateTypes, PayoutsOwned, PayoutOK
  <1> QED BY <1>1, <1>2

-----------------------------------------------------------------------------
(* Rewards follow payments.                                                *)

\* A reward in progress is for the sale its handler has just granted.
Linked ==
  \A h \in Handlers : reward[h].pc # "idle" =>
    /\ hand[h].pc = "reward"
    /\ reward[h].invoice = hand[h].invoice
    /\ reward[h].referred = hand[h].user

\* A transaction is about the owner of its invoice.
TxsOwned == \A t \in txs : invoices[t.invoice].user = t.referred

BillingInv ==
  SaleInv /\ AffiliateInv /\ Linked /\ TxsOwned /\ RewardsFollowPayments

\* A handler that is granted a sale holds a paid invoice of a user who has premium.
LEMMA RewardIsForSale ==
  ASSUME SaleInv, NEW h \in Handlers, hand[h].pc = "reward"
  PROVE  /\ hand[h].invoice \in Invoices /\ hand[h].user \in Users
         /\ invoices[hand[h].invoice].status = "paid"
         /\ invoices[hand[h].invoice].user = hand[h].user
         /\ premiumUntil[hand[h].user] > 0
  BY DEF SaleInv, SaleOK, Marked, VoucherInv, TypeInv, HandOK

\* Nothing is rewarded at first.
LEMMA InitBillingInv == BillingInit => BillingInv
  <1> SUFFICES ASSUME BillingInit PROVE BillingInv
    OBVIOUS
  <1>1. SaleInv /\ AffiliateInv
    BY InitSaleInv, InitAffiliateInv DEF BillingInit
  <1>2. txs = {} /\ \A h \in Handlers : reward[h].pc = "idle"
    BY NoRewardOK DEF BillingInit, AffiliateInit
  <1> QED BY <1>1, <1>2 DEF BillingInv, Linked, TxsOwned, RewardsFollowPayments

\* Transactions that are there stay right while nothing granted is taken back.
LEMMA OldTxsStay ==
  ASSUME AffiliateInv, TxsOwned, RewardsFollowPayments, Kept, NEW t \in txs
  PROVE  /\ invoices'[t.invoice].status = "paid"
         /\ invoices'[t.invoice].user = t.referred
         /\ premiumUntil'[t.referred] > 0
  <1>1. t.invoice \in Invoices /\ t.referred \in Users
    BY DEF AffiliateInv, AffiliateTypes, Transaction
  <1> QED BY <1>1 DEF TxsOwned, RewardsFollowPayments, Kept

\* A step that books nothing keeps what is said of the transactions.
LEMMA NothingBooked ==
  ASSUME AffiliateInv, TxsOwned, RewardsFollowPayments, Kept, UNCHANGED txs
  PROVE  TxsOwned' /\ RewardsFollowPayments'
  BY OldTxsStay DEF TxsOwned, RewardsFollowPayments

\* What a step of the rewards does to the local state of its handler, for every
\* step that books nothing.
LEMMA RewardMoves ==
  ASSUME BillingInv, NEW h \in Handlers, NoRewardDue(h) \/ RewardStarts(h) \/ RewardCounts(h)
  PROVE  AffiliateInv' /\ Linked' /\ UNCHANGED txs
  <1>1. /\ hand \in [Handlers -> Handler] /\ reward \in [Handlers -> Reward]
        /\ AffiliateInv /\ Linked /\ SaleInv
    BY DEF BillingInv, AffiliateInv, AffiliateTypes, SaleInv, VoucherInv, TypeInv, TypeOK
  <1>2. CASE NoRewardDue(h)
    <2>1. hand' = [hand EXCEPT ![h] = Idle] /\ reward[h].pc = "idle"
          /\ UNCHANGED affiliateVars
      BY <1>2 DEF NoRewardDue, Finish
    <2> QED BY <1>1, <2>1
      DEF affiliateVars, AffiliateInv, AffiliateTypes, PayoutsOwned, PayoutOK, RewardsOwned,
          RewardOK, Linked
  <1>3. CASE RewardStarts(h)
    <2> DEFINE i == hand[h].invoice
               enough == accounts[Referrer(h)].refs >= ShareFrom
    <2>1. /\ hand[h].pc = "reward" /\ Referrer(h) # None
          /\ UNCHANGED <<accounts, txs, withdrawals, sent, payout>> /\ UNCHANGED hand
      BY <1>3 DEF RewardStarts, RewardRead, vars
    <2>2. i \in Invoices /\ hand[h].user \in Users
      BY <1>1, <2>1, RewardIsForSale
    <2>3. Referrer(h) \in Users
      BY <2>1, <2>2, ReferredByAssumption DEF Referrer
    <2>4. PICK pc \in {"count", "discount"}, shares \in BOOLEAN :
            reward' = [reward EXCEPT ![h] =
              [pc |-> pc, invoice |-> i, referrer |-> Referrer(h), referred |-> hand[h].user,
               shares |-> shares]]
      <3>1. enough \in BOOLEAN
        OBVIOUS
      <3> QED BY <1>3, <3>1 DEF RewardStarts, RewardRead
    <2> DEFINE q == [pc |-> pc, invoice |-> i, referrer |-> Referrer(h),
                     referred |-> hand[h].user, shares |-> shares]
    <2>5. /\ q \in Reward
          /\ q.invoice = i /\ q.referrer = Referrer(h) /\ q.referred = hand[h].user
      BY <2>2, <2>3, Zenon DEF Reward
    <2>6. reward' = [reward EXCEPT ![h] = q]
      BY <2>4
    <2> HIDE DEF q
    <2>7. AffiliateInv'
      BY <1>1, <2>1, <2>2, <2>3, <2>5, <2>6, RewardStep DEF RewardOK
    <2>8. Linked'
      BY <1>1, <2>1, <2>5, <2>6 DEF Linked
    <2> QED BY <2>1, <2>7, <2>8
  <1>4. CASE RewardCounts(h)
    <2>1. RewardCount(h, PaidCount(reward[h].referred)) /\ UNCHANGED <<hand, txs>>
          /\ reward[h].pc = "count"
      BY <1>4 DEF RewardCounts, RewardCount, vars
    <2>2. PICK pc \in {"cpa", "revshare", "nothing"} :
            reward' = [reward EXCEPT ![h] = [reward[h] EXCEPT !.pc = pc]]
      BY <2>1 DEF RewardCount
    <2> DEFINE q == [reward[h] EXCEPT !.pc = pc]
    <2>3. q.invoice = reward[h].invoice /\ q.referred = reward[h].referred
      BY <1>1, Zenon DEF Reward
    <2>4. reward' = [reward EXCEPT ![h] = q]
      BY <2>2
    <2> HIDE DEF q
    <2>5. Linked'
      BY <1>1, <2>1, <2>3, <2>4 DEF Linked
    <2>6. PICK n : n = PaidCount(reward[h].referred)
      OBVIOUS
    <2>7. AffiliateInv'
      BY <1>1, <2>1, <2>6, RewardCountTypes
    <2> QED BY <2>1, <2>5, <2>7
  <1> QED BY <1>2, <1>3, <1>4

\* The end of a reward books at most one transaction for its invoice.
LEMMA RewardEndMoves ==
  ASSUME BillingInv, NEW h \in Handlers, RewardEnds(h), Kept
  PROVE  AffiliateInv' /\ Linked' /\ TxsOwned' /\ RewardsFollowPayments'
  <1>1. /\ hand \in [Handlers -> Handler] /\ reward \in [Handlers -> Reward]
        /\ AffiliateInv /\ Linked /\ SaleInv /\ TxsOwned /\ RewardsFollowPayments
    BY DEF BillingInv, AffiliateInv, AffiliateTypes, SaleInv, VoucherInv, TypeInv, TypeOK
  <1>2. /\ hand' = [hand EXCEPT ![h] = Idle] /\ reward' = [reward EXCEPT ![h] = NoReward]
        /\ UNCHANGED <<invoices, premiumUntil>>
    BY DEF RewardEnds, RewardBook, RewardDrop, Finish
  <1>3. AffiliateInv'
    BY <1>1, RewardEndTypes DEF RewardEnds
  <1>4. Linked'
    BY <1>1, <1>2, NoRewardOK DEF Linked
  <1>5. CASE RewardDrop(h)
    BY <1>1, <1>3, <1>4, <1>5, NothingBooked DEF RewardDrop
  <1>6. CASE RewardBook(h)
    <2>1. PICK t : t = Booking(h)
      OBVIOUS
    <2>2. /\ txs' = txs \cup {t} /\ reward[h].pc \in {"discount", "cpa", "revshare"}
          /\ \A s \in txs : s.invoice # reward[h].invoice
      BY <1>6, <2>1 DEF RewardBook, Booked
    <2>3. t.invoice = reward[h].invoice /\ t.referred = reward[h].referred
      BY <1>1, <2>1, <2>2, BookingOK
    <2>4. hand[h].pc = "reward" /\ t.invoice = hand[h].invoice /\ t.referred = hand[h].user
      BY <1>1, <2>2, <2>3 DEF Linked
    <2>5. /\ invoices[t.invoice].status = "paid" /\ invoices[t.invoice].user = t.referred
          /\ premiumUntil[t.referred] > 0
      BY <1>1, <2>4, RewardIsForSale
    <2>6. TxsOwned' /\ RewardsFollowPayments'
      BY <1>1, <1>2, <2>2, <2>3, <2>5 DEF TxsOwned, RewardsFollowPayments
    <2> QED BY <1>3, <1>4, <2>6
  <1> QED BY <1>5, <1>6 DEF RewardEnds

\* Every step keeps the invariant.
LEMMA StepBillingInv == BillingInv /\ [BillingNext]_allVars => BillingInv'
  <1> SUFFICES ASSUME BillingInv, [BillingNext]_allVars PROVE BillingInv'
    OBVIOUS
  <1>1. [Next]_vars
    BY BillingStepIsNext DEF allVars, vars
  <1>2. SaleInv' /\ Kept
    BY <1>1, StepSaleInv DEF BillingInv
  <1>3. /\ hand \in [Handlers -> Handler] /\ AffiliateInv /\ Linked /\ TxsOwned
        /\ RewardsFollowPayments
    BY DEF BillingInv, SaleInv, VoucherInv, TypeInv, TypeOK
  <1>4. ASSUME UNCHANGED affiliateVars PROVE AffiliateInv' /\ UNCHANGED txs
    BY <1>3, <1>4
      DEF affiliateVars, AffiliateInv, AffiliateTypes, PayoutsOwned, PayoutOK, RewardsOwned,
          RewardOK
  <1>5. ASSUME AffiliateInv', Linked', UNCHANGED txs PROVE BillingInv'
    BY <1>2, <1>3, <1>5, NothingBooked DEF BillingInv
  <1>6. CASE (Selling \/ Vouching \/ TimePasses) /\ UNCHANGED affiliateVars
    <2>1. UNCHANGED <<hand, reward>>
      BY <1>6 DEF Selling, CreateInvoice, Purchase, AdminCreateInvoice, NewInvoice, Pay,
                  Vouching, CreateCode, RevokeCode, CodeExpires, TimePasses, affiliateVars
    <2> QED BY <1>3, <1>4, <1>5, <1>6, <2>1 DEF Linked
  <1>7. ASSUME NEW h \in Handlers, Handling(h), UNCHANGED affiliateVars PROVE BillingInv'
    <2>1. hand[h].pc # "reward" /\ \A g \in Handlers : g # h => hand'[g] = hand[g]
      BY <1>3, <1>7 DEF Handling, WebhookRead, MayStart, WebhookMark, Grant, RedeemRead,
                        RedeemCommit, RedeemRefused
    <2>2. Linked'
      BY <1>3, <1>7, <2>1 DEF Linked, affiliateVars
    <2> QED BY <1>4, <1>5, <1>7, <2>2
  <1>8. ASSUME NEW h \in Handlers, NoRewardDue(h) \/ RewardStarts(h) \/ RewardCounts(h)
        PROVE  BillingInv'
    BY <1>5, <1>8, RewardMoves
  <1>9. ASSUME NEW h \in Handlers, RewardEnds(h) PROVE BillingInv'
    BY <1>2, <1>9, RewardEndMoves DEF BillingInv
  <1>10. CASE PayingOut /\ UNCHANGED vars
    <2>1. AffiliateInv'
      BY <1>3, <1>10, PartnerTypes, ProcessTypes DEF PayingOut
    <2>2. UNCHANGED <<txs, reward>>
      BY <1>10
        DEF PayingOut, ApplyPartner, WithdrawRead, WithdrawCheck, WithdrawInsert, ApproveRead,
            Reject, Process, Transfer, TransferTimesOut, TransferSent, TransferNotSent, Settle,
            Unsettle
    <2>3. Linked'
      BY <1>3, <1>10, <2>2 DEF Linked, vars
    <2> QED BY <1>5, <2>1, <2>2, <2>3
  <1>11. CASE BillingRestart
    <2>1. /\ \A h \in Handlers : reward'[h] = NoReward
          /\ reward' \in [Handlers -> Reward] /\ payout' \in [Payouts -> Payout]
          /\ \A p \in Payouts : payout'[p] = NoPayout
          /\ UNCHANGED <<accounts, txs, withdrawals, sent>>
      BY <1>11, NoRewardOK, NoPayoutOK DEF BillingRestart, AffiliateRestart
    <2>2. AffiliateInv'
      <3>1. AffiliateTypes'
        BY <1>3, <2>1 DEF AffiliateInv, AffiliateTypes
      <3>2. RewardsOwned'
        BY <2>1, NoRewardOK DEF RewardsOwned
      <3>3. PayoutsOwned'
        BY <1>3, <2>1, NoPayoutOK DEF AffiliateInv, PayoutsOwned, InProcess
      <3> QED BY <3>1, <3>2, <3>3 DEF AffiliateInv
    <2>3. Linked'
      BY <2>1, NoRewardOK DEF Linked
    <2> QED BY <1>5, <2>1, <2>2, <2>3
  <1>12. CASE UNCHANGED allVars
    <2>1. UNCHANGED affiliateVars /\ UNCHANGED <<hand, reward>>
      BY <1>12 DEF allVars, affiliateVars, vars
    <2> QED BY <1>3, <1>4, <1>5, <2>1 DEF Linked
  <1> QED BY <1>6, <1>7, <1>8, <1>9, <1>10, <1>11, <1>12 DEF BillingNext

\* Every variable of payments and rewards keeps to its domain.
THEOREM BillingTypeCorrect == BillingSpec => []BillingTypeOK
  <1>1. BillingInv => BillingTypeOK
    BY DEF BillingInv, AffiliateInv, AffiliateTypes, SaleInv, VoucherInv, TypeInv,
           BillingTypeOK
  <1> QED BY <1>1, InitBillingInv, StepBillingInv, PTL DEF BillingSpec

\* A payment is rewarded at most once, and only after it was marked paid and granted,
\* whatever deliveries and restarts overlap (process_referral_reward).
THEOREM RewardsFollow == BillingSpec => []RewardsFollowPayments
  <1>1. BillingInv => RewardsFollowPayments
    BY DEF BillingInv
  <1> QED BY <1>1, InitBillingInv, StepBillingInv, PTL DEF BillingSpec

-----------------------------------------------------------------------------
(* No referral is counted twice.                                           *)

CountedFor(r) == {t.referred : t \in CpasOf(r)}

\* The invoices that exist are finitely many, and so are the users a partner's
\* counter stands for.
Finite ==
  /\ IsFiniteSet({i \in Invoices : invoices[i].status # "none"})
  /\ \A r \in Users : IsFiniteSet(CountedFor(r))

\* A payment that is going to count as a first one is the user's only one to count.
FirstOnly ==
  \A h \in Handlers : reward[h].pc = "cpa" =>
    /\ \A t \in txs :
         t.type = "cpa" /\ t.referred = reward[h].referred => t.invoice = reward[h].invoice
    /\ \A g \in Handlers :
         reward[g].pc = "cpa" /\ reward[g].referred = reward[h].referred
           => reward[g].invoice = reward[h].invoice

CountInv == BillingInv /\ Finite /\ FirstOnly /\ NobodyCountedTwice

\* A step adds one invoice at most.
LEMMA InvoicesStayFinite ==
  ASSUME TypeOK, Finite, [Next]_vars
  PROVE  IsFiniteSet({i \in Invoices : invoices'[i].status # "none"})
  <1> DEFINE Old == {i \in Invoices : invoices[i].status # "none"}
             New == {i \in Invoices : invoices'[i].status # "none"}
  <1>1. IsFiniteSet(Old)
    BY DEF Finite
  <1>2. invoices \in [Invoices -> Invoice]
    BY DEF TypeOK
  <1>3. UNCHANGED invoices \/ \E i, row : invoices' = [invoices EXCEPT ![i] = row]
    <2>1. CASE Selling
      BY <2>1 DEF Selling, CreateInvoice, Purchase, AdminCreateInvoice, NewInvoice, Pay
    <2>2. CASE Vouching \/ TimePasses \/ Restart \/ UNCHANGED vars
      BY <2>2 DEF Vouching, CreateCode, RevokeCode, CodeExpires, TimePasses, Restart, vars
    <2>3. ASSUME NEW h \in Handlers, WebhookMark(h)
          PROVE  \E i, row : invoices' = [invoices EXCEPT ![i] = row]
      BY <2>3 DEF WebhookMark
    <2>4. ASSUME NEW h \in Handlers, (Handling(h) \/ Finish(h)) /\ ~WebhookMark(h)
          PROVE  UNCHANGED invoices
      BY <2>4 DEF Handling, Finish, WebhookRead, Grant, RedeemRead, RedeemCommit,
                  RedeemRefused
    <2> QED BY <2>1, <2>2, <2>3, <2>4 DEF Next
  <1>4. Old = New \/ \E i : New \subseteq Old \cup {i}
    <2>1. CASE UNCHANGED invoices
      BY <2>1
    <2>2. ASSUME NEW i, NEW row, invoices' = [invoices EXCEPT ![i] = row]
          PROVE  New \subseteq Old \cup {i}
      BY <1>2, <2>2
    <2> QED BY <1>3, <2>1, <2>2
  <1> HIDE DEF Old, New
  <1>5. IsFiniteSet(New)
    BY <1>1, <1>4, FS_AddElement, FS_Subset
  <1> QED BY <1>5 DEF New

\* Nothing is counted at first.
LEMMA InitCountInv == BillingInit => CountInv
  <1> SUFFICES ASSUME BillingInit PROVE CountInv
    OBVIOUS
  <1>1. txs = {} /\ (\A h \in Handlers : reward[h].pc = "idle")
        /\ \A r \in Users : accounts[r].refs = 0
    BY NoRewardOK DEF BillingInit, AffiliateInit, NewAccount
  <1>2. {i \in Invoices : invoices[i].status # "none"} = {}
    BY DEF BillingInit, Init, NoInvoice
  <1>3. \A r \in Users : CountedFor(r) = {} /\ {t.referred : t \in CpasOf(r)} = {}
    BY <1>1 DEF CountedFor, CpasOf
  <1>4. IsFiniteSet({}) /\ Cardinality({}) = 0
    BY FS_EmptySet
  <1> QED BY <1>1, <1>2, <1>3, <1>4, InitBillingInv
    DEF CountInv, Finite, FirstOnly, NobodyCountedTwice

\* A step that books nothing and leaves the counters alone keeps the count.
LEMMA NothingCounted ==
  ASSUME Finite, NobodyCountedTwice, UNCHANGED txs,
         \A r \in Users : accounts'[r].refs = accounts[r].refs
  PROVE  NobodyCountedTwice' /\ \A r \in Users : IsFiniteSet(CountedFor(r)')
  BY DEF Finite, NobodyCountedTwice, CountedFor, CpasOf

\* When a reward is going to count as a first payment, its invoice is the only paid
\* one of the user.
LEMMA CountStep ==
  ASSUME CountInv, NEW h \in Handlers, RewardCounts(h) PROVE FirstOnly'
  <1>1. /\ reward \in [Handlers -> Reward] /\ txs \in SUBSET Transaction
        /\ AffiliateInv /\ SaleInv /\ Linked /\ TxsOwned /\ RewardsFollowPayments
        /\ FirstOnly /\ Finite
    BY DEF CountInv, BillingInv, AffiliateInv, AffiliateTypes
  <1> DEFINE u == reward[h].referred
             i == reward[h].invoice
  <1>2. /\ RewardCount(h, PaidCount(u)) /\ reward[h].pc = "count" /\ UNCHANGED txs
    BY DEF RewardCounts, RewardCount
  <1>3. PICK pc \in {"cpa", "revshare", "nothing"} :
          /\ reward' = [reward EXCEPT ![h] = [reward[h] EXCEPT !.pc = pc]]
          /\ pc = "cpa" => PaidCount(u) = 1
    BY <1>2 DEF RewardCount
  <1> DEFINE q == [reward[h] EXCEPT !.pc = pc]
  <1>4. q.pc = pc /\ q.invoice = i /\ q.referred = u
    BY <1>1, Zenon DEF Reward
  <1>5. reward' = [reward EXCEPT ![h] = q]
    BY <1>3
  <1> HIDE DEF q
  <1>6. ASSUME NEW g \in Handlers, reward[g].pc # "idle"
        PROVE  reward[g].invoice \in PaidInvoices(reward[g].referred)
    BY <1>1, <1>6, RewardIsForSale DEF Linked, PaidInvoices
  <1>7. ASSUME NEW t \in txs PROVE t.invoice \in PaidInvoices(t.referred)
    BY <1>1 DEF TxsOwned, RewardsFollowPayments, PaidInvoices, Transaction
  <1>8. CASE pc = "cpa"
    <2>1. Cardinality(PaidInvoices(u)) = 1
      BY <1>3, <1>8 DEF PaidCount
    <2>2. IsFiniteSet(PaidInvoices(u))
      <3>1. PaidInvoices(u) \subseteq {j \in Invoices : invoices[j].status # "none"}
        BY DEF PaidInvoices
      <3> QED BY <1>1, <3>1, FS_Subset DEF Finite
    <2>3. PaidInvoices(u) = {i}
      BY <1>2, <1>6, <2>1, <2>2, FS_Singleton
    <2>4. /\ \A t \in txs : t.referred = u => t.invoice = i
          /\ \A g \in Handlers :
               reward[g].pc # "idle" /\ reward[g].referred = u => reward[g].invoice = i
      BY <1>6, <1>7, <2>3
    <2> HIDE DEF u, i
    <2>5. \A g \in Handlers : reward'[g] = IF g = h THEN q ELSE reward[g]
      BY <1>1, <1>5
    <2> QED BY <1>1, <1>2, <1>4, <2>4, <2>5 DEF FirstOnly
  <1>9. CASE pc # "cpa"
    BY <1>1, <1>2, <1>4, <1>5, <1>9 DEF FirstOnly
  <1> QED BY <1>8, <1>9

\* Booking a first payment adds one user to those counted for one partner and one to
\* his counter.
LEMMA BookStep ==
  ASSUME CountInv, NEW h \in Handlers, RewardEnds(h)
  PROVE  /\ FirstOnly' /\ NobodyCountedTwice'
         /\ \A r \in Users : IsFiniteSet(CountedFor(r)')
  <1>1. /\ reward \in [Handlers -> Reward] /\ accounts \in [Users -> Account]
        /\ AffiliateInv /\ FirstOnly /\ Finite /\ NobodyCountedTwice
    BY DEF CountInv, BillingInv, AffiliateInv, AffiliateTypes
  <1>2. reward' = [reward EXCEPT ![h] = NoReward]
    BY DEF RewardEnds, RewardBook, RewardDrop
  <1>3. CASE RewardDrop(h)
    <2>1. UNCHANGED <<txs, accounts>>
      BY <1>3 DEF RewardDrop
    <2>2. FirstOnly'
      BY <1>1, <1>2, <2>1, NoRewardOK DEF FirstOnly
    <2> QED BY <1>1, <2>1, <2>2, NothingCounted
  <1>4. CASE RewardBook(h)
    <2>1. PICK t : t = Booking(h)
      OBVIOUS
    <2>2. PICK r : r = reward[h].referrer
      OBVIOUS
    <2>3. /\ txs' = txs \cup {t}
          /\ accounts' = [accounts EXCEPT ![r] = Credited(accounts[r], t)]
          /\ reward[h].pc \in {"discount", "cpa", "revshare"}
          /\ \A s \in txs : s.invoice # reward[h].invoice
      BY <1>4, <2>1, <2>2 DEF RewardBook, Booked
    <2>4. /\ t \in Transaction /\ r \in Users /\ t.invoice = reward[h].invoice
          /\ t.referrer = r /\ t.referred = reward[h].referred /\ t.type = reward[h].pc
      BY <1>1, <2>1, <2>2, <2>3, BookingOK
    <2>5. Credited(accounts[r], t).refs
            = IF t.type = "cpa" THEN accounts[r].refs + 1 ELSE accounts[r].refs
      BY <1>1, <2>4, CreditedOK
    <2>6. FirstOnly'
      BY <1>1, <1>2, <2>3, <2>4, NoRewardOK DEF FirstOnly
    <2>7. ASSUME NEW o \in Users, o # r \/ t.type # "cpa"
          PROVE  accounts'[o].refs = accounts[o].refs /\ CpasOf(o)' = CpasOf(o)
      BY <1>1, <2>3, <2>4, <2>5, <2>7 DEF CpasOf
    <2>8. CASE t.type = "cpa"
      <3>1. CountedFor(r)' = CountedFor(r) \cup {t.referred}
        BY <2>3, <2>4, <2>8 DEF CountedFor, CpasOf
      <3>2. t.referred \notin CountedFor(r)
        BY <1>1, <2>3, <2>4, <2>8 DEF FirstOnly, CountedFor, CpasOf
      <3>3. IsFiniteSet(CountedFor(r)) /\ accounts[r].refs = Cardinality(CountedFor(r))
        BY <1>1, <2>4 DEF Finite, NobodyCountedTwice, CountedFor
      <3>4. /\ IsFiniteSet(CountedFor(r)')
            /\ Cardinality(CountedFor(r)') = Cardinality(CountedFor(r)) + 1
        BY <3>1, <3>2, <3>3, FS_AddElement
      <3>5. accounts'[r].refs = accounts[r].refs + 1
        BY <1>1, <2>3, <2>4, <2>5, <2>8
      <3>6. ASSUME NEW o \in Users
            PROVE  /\ IsFiniteSet(CountedFor(o)')
                   /\ accounts'[o].refs = Cardinality(CountedFor(o)')
        <4>1. CASE o = r
          BY <3>3, <3>4, <3>5, <4>1
        <4>2. CASE o # r
          BY <1>1, <2>7, <4>2 DEF Finite, NobodyCountedTwice, CountedFor
        <4> QED BY <4>1, <4>2
      <3>7. ASSUME NEW o \in Users, NEW s \in CpasOf(o)', NEW v \in CpasOf(o)',
                   s.referred = v.referred
            PROVE  s = v
        <4>1. CASE o # r
          BY <1>1, <2>7, <3>7, <4>1 DEF NobodyCountedTwice
        <4>2. CASE o = r
          <5>1. CpasOf(r)' = CpasOf(r) \cup {t}
            BY <2>3, <2>4, <2>8 DEF CpasOf
          <5>2. \A w \in CpasOf(r) : w.referred # t.referred
            BY <3>2 DEF CountedFor
          <5> QED BY <1>1, <2>4, <3>7, <4>2, <5>1, <5>2 DEF NobodyCountedTwice
        <4> QED BY <4>1, <4>2
      <3> QED BY <2>6, <3>6, <3>7 DEF NobodyCountedTwice, CountedFor
    <2>9. CASE t.type # "cpa"
      BY <1>1, <2>6, <2>7, <2>9 DEF Finite, NobodyCountedTwice, CountedFor
    <2> QED BY <2>8, <2>9
  <1> QED BY <1>3, <1>4 DEF RewardEnds

\* A partner's and an admin's request does not touch the counters.
LEMMA PayingOutCounts ==
  ASSUME AffiliateTypes, PayingOut
  PROVE  UNCHANGED <<txs, reward>> /\ \A r \in Users : accounts'[r].refs = accounts[r].refs
  <1>1. UNCHANGED <<txs, reward>>
    BY DEF PayingOut, ApplyPartner, WithdrawRead, WithdrawCheck, WithdrawInsert, ApproveRead,
           Reject, Process, Transfer, TransferTimesOut, TransferSent, TransferNotSent, Settle,
           Unsettle
  <1>2. accounts \in [Users -> Account]
    BY DEF AffiliateTypes
  <1>3. \/ UNCHANGED accounts
        \/ \E u, partner : accounts' =
             [accounts EXCEPT ![u] = [accounts[u] EXCEPT !.partner = partner]]
        \/ \E u, balance : accounts' =
             [accounts EXCEPT ![u] = [accounts[u] EXCEPT !.balance = balance]]
    <2>1. ASSUME NEW u, ApplyPartner(u)
          PROVE  \E partner : accounts' =
                   [accounts EXCEPT ![u] = [accounts[u] EXCEPT !.partner = partner]]
      BY <2>1 DEF ApplyPartner
    <2>2. ASSUME NEW p, Settle(p)
          PROVE  \E u, balance : accounts' =
                   [accounts EXCEPT ![u] = [accounts[u] EXCEPT !.balance = balance]]
      BY <2>2 DEF Settle
    <2> QED BY <2>1, <2>2
      DEF PayingOut, WithdrawRead, WithdrawCheck, WithdrawInsert, ApproveRead, Reject, Process,
          Transfer, TransferTimesOut, TransferSent, TransferNotSent, Unsettle
  <1>4. ASSUME NEW a \in Account, NEW x
        PROVE  [a EXCEPT !.partner = x].refs = a.refs /\ [a EXCEPT !.balance = x].refs = a.refs
    BY Zenon DEF Account
  <1>5. ASSUME NEW u, NEW x,
               \/ accounts' = [accounts EXCEPT ![u] = [accounts[u] EXCEPT !.partner = x]]
               \/ accounts' = [accounts EXCEPT ![u] = [accounts[u] EXCEPT !.balance = x]],
               NEW r \in Users
        PROVE  accounts'[r].refs = accounts[r].refs
    <2>1. CASE u = r
      <3>1. \/ accounts'[r] = [accounts[r] EXCEPT !.partner = x]
            \/ accounts'[r] = [accounts[r] EXCEPT !.balance = x]
        BY <1>2, <1>5, <2>1
      <3> QED BY <1>2, <1>4, <3>1
    <2>2. CASE u # r
      BY <1>2, <1>5, <2>2
    <2> QED BY <2>1, <2>2
  <1> QED BY <1>1, <1>3, <1>5

\* Every step keeps the count.
LEMMA StepCountInv == CountInv /\ [BillingNext]_allVars => CountInv'
  <1> SUFFICES ASSUME CountInv, [BillingNext]_allVars PROVE CountInv'
    OBVIOUS
  <1>1. BillingInv /\ BillingInv' /\ AffiliateTypes /\ TypeOK /\ Finite /\ FirstOnly
        /\ NobodyCountedTwice /\ reward \in [Handlers -> Reward]
    BY StepBillingInv
       DEF CountInv, BillingInv, AffiliateInv, AffiliateTypes, SaleInv, VoucherInv, TypeInv
  <1>2. IsFiniteSet({i \in Invoices : invoices'[i].status # "none"})
    BY <1>1, BillingStepIsNext, InvoicesStayFinite DEF allVars, vars
  <1>3. ASSUME FirstOnly', NobodyCountedTwice', \A r \in Users : IsFiniteSet(CountedFor(r)')
        PROVE  CountInv'
    BY <1>1, <1>2, <1>3 DEF CountInv, Finite
  <1>4. ASSUME FirstOnly', UNCHANGED txs, \A r \in Users : accounts'[r].refs = accounts[r].refs
        PROVE  CountInv'
    BY <1>1, <1>3, <1>4, NothingCounted
  <1>5. ASSUME UNCHANGED affiliateVars PROVE CountInv'
    <2>1. UNCHANGED <<txs, reward, accounts>>
      BY <1>5 DEF affiliateVars
    <2>2. FirstOnly'
      BY <1>1, <2>1 DEF FirstOnly
    <2> QED BY <1>4, <2>1, <2>2
  <1>6. ASSUME NEW h \in Handlers, RewardStarts(h) PROVE CountInv'
    <2>1. PICK q : reward' = [reward EXCEPT ![h] = q] /\ q.pc # "cpa"
      <3> DEFINE new == [pc |-> IF accounts[Referrer(h)].partner THEN "count" ELSE "discount",
                         invoice |-> hand[h].invoice, referrer |-> Referrer(h),
                         referred |-> hand[h].user,
                         shares |-> accounts[Referrer(h)].refs >= ShareFrom]
      <3>1. new.pc # "cpa" /\ reward' = [reward EXCEPT ![h] = new]
        BY <1>6 DEF RewardStarts, RewardRead
      <3> HIDE DEF new
      <3> QED BY <3>1
    <2>2. UNCHANGED <<txs, accounts>>
      BY <1>6 DEF RewardStarts, RewardRead
    <2>3. FirstOnly'
      BY <1>1, <2>1, <2>2 DEF FirstOnly
    <2> QED BY <1>4, <2>2, <2>3
  <1>7. ASSUME NEW h \in Handlers, RewardCounts(h) PROVE CountInv'
    <2>1. UNCHANGED <<txs, accounts>>
      BY <1>7 DEF RewardCounts, RewardCount
    <2> QED BY <1>4, <1>7, <2>1, CountStep
  <1>8. ASSUME NEW h \in Handlers, RewardEnds(h) PROVE CountInv'
    BY <1>3, <1>8, BookStep
  <1>9. CASE PayingOut
    <2>1. UNCHANGED <<txs, reward>> /\ \A r \in Users : accounts'[r].refs = accounts[r].refs
      BY <1>1, <1>9, PayingOutCounts
    <2>2. FirstOnly'
      BY <1>1, <2>1 DEF FirstOnly
    <2> QED BY <1>4, <2>1, <2>2
  <1>10. CASE BillingRestart
    <2>1. UNCHANGED <<txs, accounts>> /\ \A h \in Handlers : reward'[h].pc = "idle"
      BY <1>10, NoRewardOK DEF BillingRestart, AffiliateRestart
    <2>2. FirstOnly'
      BY <2>1 DEF FirstOnly
    <2> QED BY <1>4, <2>1, <2>2
  <1>11. UNCHANGED allVars => UNCHANGED affiliateVars
    BY DEF allVars
  <1>12. ASSUME NEW h \in Handlers, NoRewardDue(h) PROVE UNCHANGED affiliateVars
    BY <1>12 DEF NoRewardDue
  <1> QED BY <1>5, <1>6, <1>7, <1>8, <1>9, <1>10, <1>11, <1>12 DEF BillingNext

\* The counter a partner's rate depends on is the number of users with a CPA booking
\* of his, each of them with one, however payments, deliveries and restarts interleave
\* (is_first_payment and the unique invoice_id).  That everybody who paid has one is
\* not so.
THEOREM ReferralsCountedOnce == BillingSpec => []NobodyCountedTwice
  <1>1. CountInv => NobodyCountedTwice
    BY DEF CountInv
  <1> QED BY <1>1, InitCountInv, StepCountInv, PTL DEF BillingSpec

-----------------------------------------------------------------------------
(* No balance is reduced by money that was not sent.                       *)

TxsOf(u) == {t \in txs : t.referrer = u}

SettlingOf(u) == {p \in Payouts : payout[p].pc = "settle" /\ payout[p].user = u}

\* There are as many transactions as were booked and as many payouts to settle as
\* transfers were answered.
Bounded == IsFiniteSet(txs) /\ \A u \in Users : IsFiniteSet(SettlingOf(u))

DebitInv == BillingInv /\ Bounded /\ NeverDebitedUnpaid

\* What was earned and what is about to be taken are amounts.
LEMMA AmountsAreNat ==
  ASSUME AffiliateTypes, Bounded, NEW u \in Users
  PROVE  EarnedBy(u) \in Nat /\ Settling(u) \in Nat
  <1> DEFINE v == [t \in txs |-> t.amount]
             w == [p \in Payouts |-> payout[p].amount]
  <1>1. \A t \in TxsOf(u) : v[t] \in Nat
    BY DEF TxsOf, AffiliateTypes, Transaction
  <1>2. \A p \in SettlingOf(u) : w[p] \in Nat
    BY DEF SettlingOf, AffiliateTypes, Payout
  <1>3. IsFiniteSet(TxsOf(u)) /\ IsFiniteSet(SettlingOf(u))
    BY FS_Subset DEF Bounded, TxsOf
  <1>4. SumFunctionOnSet(v, TxsOf(u)) \in Nat
    <2> HIDE DEF v
    <2> QED BY <1>1, <1>3, SumIsNat
  <1>5. SumFunctionOnSet(w, SettlingOf(u)) \in Nat
    <2> HIDE DEF w
    <2> QED BY <1>2, <1>3, SumIsNat
  <1> QED BY <1>4, <1>5 DEF EarnedBy, Settling, TxsOf, SettlingOf

\* A transaction adds its amount to what its referrer earned, to nobody else's.
LEMMA EarnedMore ==
  ASSUME AffiliateTypes, Bounded, NEW t \in Transaction, t \notin txs, txs' = txs \cup {t}
  PROVE  /\ IsFiniteSet(txs')
         /\ \A u \in Users :
              EarnedBy(u)' = IF u = t.referrer THEN EarnedBy(u) + t.amount ELSE EarnedBy(u)
  <1>1. IsFiniteSet(txs')
    BY FS_AddElement DEF Bounded
  <1> SUFFICES ASSUME NEW u \in Users
               PROVE  EarnedBy(u)'
                        = IF u = t.referrer THEN EarnedBy(u) + t.amount ELSE EarnedBy(u)
    BY <1>1
  <1> DEFINE v == [s \in txs |-> s.amount]
             n == [s \in txs' |-> s.amount]
  <1>2. PICK S : S = TxsOf(u)
    OBVIOUS
  <1>3. IsFiniteSet(S) /\ t \notin S /\ S \subseteq txs
    BY <1>2, FS_Subset DEF Bounded, TxsOf
  <1>4. /\ \A s \in S : n[s] = v[s] /\ n[s] \in Nat
        /\ n[t] = t.amount /\ t.amount \in Nat
    BY <1>3 DEF AffiliateTypes, Transaction
  <1>5. EarnedBy(u) = SumFunctionOnSet(v, S)
    BY <1>2 DEF EarnedBy, TxsOf
  <1>6. EarnedBy(u)' = SumFunctionOnSet(n, IF u = t.referrer THEN S \cup {t} ELSE S)
    <2>1. {s \in txs' : s.referrer = u} = IF u = t.referrer THEN S \cup {t} ELSE S
      BY <1>2 DEF TxsOf
    <2> QED BY <2>1 DEF EarnedBy
  <1> HIDE DEF v, n
  <1>7. SumFunctionOnSet(n, S) = SumFunctionOnSet(v, S)
    BY <1>3, <1>4, SumSame
  <1>8. SumFunctionOnSet(n, S \cup {t}) = SumFunctionOnSet(n, S) + n[t]
    BY <1>3, <1>4, SumAdd
  <1> QED BY <1>4, <1>5, <1>6, <1>7, <1>8

\* What a payout in another state than before does to what is about to be taken.
LEMMA SettlingStep ==
  ASSUME AffiliateTypes, Bounded, NEW p \in Payouts, NEW q \in Payout,
         payout' = [payout EXCEPT ![p] = q], NEW u \in Users
  PROVE  /\ IsFiniteSet(SettlingOf(u)')
         /\ p \notin SettlingOf(u) /\ ~(q.pc = "settle" /\ q.user = u)
              => Settling(u)' = Settling(u)
         /\ p \notin SettlingOf(u) /\ q.pc = "settle" /\ q.user = u
              => Settling(u)' = Settling(u) + q.amount
         /\ p \in SettlingOf(u) /\ ~(q.pc = "settle" /\ q.user = u)
              => Settling(u)' \in Nat /\ Settling(u) = Settling(u)' + payout[p].amount
  <1> DEFINE v == [r \in Payouts |-> payout[r].amount]
             n == [r \in Payouts |-> payout'[r].amount]
  <1>1. payout \in [Payouts -> Payout] /\ payout' \in [Payouts -> Payout]
    BY DEF AffiliateTypes
  <1>2. payout'[p] = q /\ \A r \in Payouts : r # p => payout'[r] = payout[r]
    BY <1>1
  <1>3. PICK S : S = SettlingOf(u)
    OBVIOUS
  <1>4. PICK T : T = SettlingOf(u)'
    OBVIOUS
  <1>5. /\ IsFiniteSet(S) /\ S \subseteq Payouts
        /\ T = IF q.pc = "settle" /\ q.user = u THEN S \cup {p} ELSE S \ {p}
    BY <1>2, <1>3, <1>4 DEF Bounded, SettlingOf
  <1>6. IsFiniteSet(T)
    BY <1>5, FS_AddElement, FS_RemoveElement
  <1>7. /\ Settling(u) = SumFunctionOnSet(v, S)
        /\ Settling(u)' = SumFunctionOnSet(n, T)
    BY <1>3, <1>4 DEF Settling, SettlingOf
  <1>8. /\ \A r \in Payouts : v[r] \in Nat /\ n[r] \in Nat
        /\ \A r \in Payouts : r # p => n[r] = v[r]
        /\ v[p] = payout[p].amount /\ n[p] = q.amount
    BY <1>1, <1>2 DEF Payout
  <1> HIDE DEF v, n
  <1>9. ASSUME p \notin S PROVE SumFunctionOnSet(n, S) = SumFunctionOnSet(v, S)
    BY <1>5, <1>8, <1>9, SumSame
  <1>10. CASE p \notin S /\ ~(q.pc = "settle" /\ q.user = u)
    <2>1. T = S
      BY <1>5, <1>10
    <2> QED BY <1>3, <1>4, <1>6, <1>7, <1>9, <1>10, <2>1
  <1>11. CASE p \notin S /\ q.pc = "settle" /\ q.user = u
    <2>1. T = S \cup {p} /\ n[p] \in Nat /\ \A r \in S : n[r] \in Nat
      BY <1>5, <1>8, <1>11
    <2>2. SumFunctionOnSet(n, S \cup {p}) = SumFunctionOnSet(n, S) + n[p]
      BY <1>5, <1>11, <2>1, SumAdd
    <2> QED BY <1>3, <1>4, <1>6, <1>7, <1>8, <1>9, <1>11, <2>1, <2>2
  <1>12. CASE p \in S /\ ~(q.pc = "settle" /\ q.user = u)
    <2>1. T = S \ {p} /\ (\A r \in S : v[r] \in Nat) /\ \A r \in T : n[r] = v[r] /\ v[r] \in Nat
      BY <1>5, <1>8, <1>12
    <2>2. SumFunctionOnSet(v, S) = v[p] + SumFunctionOnSet(v, T)
      BY <1>5, <1>12, <2>1, SumRemove
    <2>3. SumFunctionOnSet(n, T) = SumFunctionOnSet(v, T)
      BY <1>6, <2>1, SumSame
    <2>4. SumFunctionOnSet(v, T) \in Nat
      BY <1>6, <2>1, SumIsNat
    <2> QED BY <1>3, <1>4, <1>6, <1>7, <1>8, <1>12, <2>2, <2>3, <2>4
  <1> QED BY <1>3, <1>4, <1>6, <1>10, <1>11, <1>12

\* Nothing was earned, taken or sent at first.
LEMMA InitDebitInv == BillingInit => DebitInv
  <1> SUFFICES ASSUME BillingInit PROVE Bounded /\ NeverDebitedUnpaid
    BY InitBillingInv DEF DebitInv
  <1>1. txs = {} /\ \A u \in Users : accounts[u].balance = 0 /\ sent[u] = 0
    BY DEF BillingInit, AffiliateInit, NewAccount
  <1>2. \A u \in Users : TxsOf(u) = {} /\ SettlingOf(u) = {}
    BY <1>1, NoPayoutOK DEF TxsOf, SettlingOf, BillingInit, AffiliateInit, NoPayout
  <1>3. ASSUME NEW u \in Users PROVE EarnedBy(u) = 0 /\ Settling(u) = 0
    <2>1. TxsOf(u) = {} /\ SettlingOf(u) = {}
      BY <1>2
    <2>2. EarnedBy(u) = 0
      BY <2>1, SumEmpty DEF EarnedBy, TxsOf
    <2>3. Settling(u) = 0
      BY <2>1, SumEmpty DEF Settling, SettlingOf
    <2> QED BY <2>2, <2>3
  <1>4. Bounded
    BY <1>1, <1>2, FS_EmptySet DEF Bounded
  <1> QED BY <1>1, <1>3, <1>4 DEF NeverDebitedUnpaid

\* A step that books nothing, sends nothing and leaves balances and payouts that are
\* about to be settled alone keeps the accounts.
LEMMA NothingDebited ==
  ASSUME DebitInv, UNCHANGED <<txs, sent>>,
         \A u \in Users :
           /\ accounts'[u].balance = accounts[u].balance
           /\ IsFiniteSet(SettlingOf(u)') /\ Settling(u)' = Settling(u)
  PROVE  Bounded' /\ NeverDebitedUnpaid'
  <1>1. Bounded'
    BY DEF DebitInv, Bounded
  <1>2. \A u \in Users : EarnedBy(u)' = EarnedBy(u)
    BY DEF EarnedBy
  <1> QED BY <1>1, <1>2 DEF DebitInv, NeverDebitedUnpaid

\* A payout that moves between two states in which it settles nothing keeps the
\* accounts.
LEMMA QuietPayout ==
  ASSUME DebitInv, NEW p \in Payouts, NEW q \in Payout, payout' = [payout EXCEPT ![p] = q],
         payout[p].pc # "settle", q.pc # "settle", UNCHANGED <<accounts, txs, sent>>
  PROVE  Bounded' /\ NeverDebitedUnpaid'
  <1>1. AffiliateTypes /\ Bounded
    BY DEF DebitInv, BillingInv, AffiliateInv
  <1>2. \A u \in Users : IsFiniteSet(SettlingOf(u)') /\ Settling(u)' = Settling(u)
    BY <1>1, SettlingStep DEF SettlingOf
  <1> QED BY <1>2, NothingDebited

\* Booking a reward adds the same to what was earned and to the balance.
LEMMA BookDebit ==
  ASSUME DebitInv, NEW h \in Handlers, RewardBook(h) PROVE Bounded' /\ NeverDebitedUnpaid'
  <1>1. AffiliateInv /\ AffiliateTypes /\ Bounded
    BY DEF DebitInv, BillingInv, AffiliateInv
  <1>2. PICK t, r : t = Booking(h) /\ r = reward[h].referrer
    OBVIOUS
  <1>3. t \in Transaction /\ t.referrer = r /\ t.invoice = reward[h].invoice /\ r \in Users
    BY <1>1, <1>2, BookingOK DEF RewardBook
  <1>4. /\ txs' = txs \cup {t} /\ t \notin txs
        /\ accounts' = [accounts EXCEPT ![r] = Credited(accounts[r], t)]
        /\ UNCHANGED <<sent, payout>>
    BY <1>2, <1>3 DEF RewardBook, Booked
  <1>5. /\ IsFiniteSet(txs')
        /\ \A u \in Users :
             EarnedBy(u)' = IF u = r THEN EarnedBy(u) + t.amount ELSE EarnedBy(u)
    BY <1>1, <1>3, <1>4, EarnedMore
  <1>6. accounts \in [Users -> Account] /\ sent \in [Users -> Nat]
    BY <1>1 DEF AffiliateTypes
  <1>7. Credited(accounts[r], t).balance = accounts[r].balance + t.amount
    BY <1>3, <1>6, CreditedOK
  <1>8. \A u \in Users : accounts'[u].balance
          = IF u = r THEN accounts[u].balance + t.amount ELSE accounts[u].balance
    BY <1>3, <1>4, <1>6, <1>7
  <1>9. Bounded' /\ \A u \in Users : Settling(u)' = Settling(u)
    BY <1>1, <1>4, <1>5 DEF Bounded, SettlingOf, Settling
  <1>10. ASSUME NEW u \in Users PROVE EarnedBy(u)' - accounts'[u].balance + Settling(u)' <= sent[u]
    <2>1. EarnedBy(u) \in Nat /\ Settling(u) \in Nat /\ accounts[u].balance \in Int
          /\ t.amount \in Nat /\ sent[u] \in Nat
      BY <1>1, <1>3, <1>6, AmountsAreNat DEF Account, Transaction
    <2>2. EarnedBy(u) - accounts[u].balance + Settling(u) <= sent[u]
      BY DEF DebitInv, NeverDebitedUnpaid
    <2> QED BY <1>5, <1>8, <1>9, <2>1, <2>2
  <1> QED BY <1>4, <1>9, <1>10 DEF NeverDebitedUnpaid

\* What the provider sends is counted before anything is taken, whether its answer
\* arrives or not.
LEMMA TransferDebit ==
  ASSUME DebitInv, NEW p \in Payouts, NEW to \in {"idle", "settle", "unsettle"},
         TransferSent(p, to) \/ (to # "settle" /\ TransferNotSent(p, to))
  PROVE  Bounded' /\ NeverDebitedUnpaid'
  <1>1. AffiliateInv /\ AffiliateTypes /\ Bounded
    BY DEF DebitInv, BillingInv, AffiliateInv
  <1>2. PICK u, q : /\ u = payout[p].user
                    /\ q = IF to = "idle" THEN NoPayout ELSE [payout[p] EXCEPT !.pc = to]
    OBVIOUS
  <1>3. /\ payout \in [Payouts -> Payout] /\ accounts \in [Users -> Account]
        /\ sent \in [Users -> Nat] /\ payout[p] \in Payout
    BY <1>1 DEF AffiliateTypes
  <1>4. payout[p].pc = "transfer" /\ payout' = [payout EXCEPT ![p] = q] /\ UNCHANGED <<accounts, txs>>
    BY <1>2 DEF TransferSent, TransferNotSent, Step
  <1>5. u \in Users
    BY <1>1, <1>2, <1>4 DEF AffiliateInv, PayoutsOwned, PayoutOK
  <1>6. q \in Payout /\ (q.pc = "settle" <=> to = "settle")
        /\ (to = "settle" => q.user = u /\ q.amount = payout[p].amount)
    BY <1>2, <1>3, NoPayoutOK DEF Payout
  <1>7. CASE TransferNotSent(p, to) /\ to # "settle"
    BY <1>4, <1>6, <1>7, QuietPayout DEF TransferNotSent
  <1>8. CASE TransferSent(p, to)
    <2>1. sent' = [sent EXCEPT ![u] = sent[u] + payout[p].amount]
      BY <1>2, <1>8 DEF TransferSent
    <2>2. Bounded'
      BY <1>1, <1>4, <1>6, SettlingStep DEF Bounded
    <2>3. ASSUME NEW v \in Users
          PROVE  EarnedBy(v)' - accounts'[v].balance + Settling(v)' <= sent'[v]
      <3>1. EarnedBy(v) \in Nat /\ Settling(v) \in Nat /\ accounts[v].balance \in Int
            /\ payout[p].amount \in Nat /\ sent[v] \in Nat
        BY <1>1, <1>3, AmountsAreNat DEF Account, Payout
      <3>2. EarnedBy(v) - accounts[v].balance + Settling(v) <= sent[v]
        BY DEF DebitInv, NeverDebitedUnpaid
      <3>3. EarnedBy(v)' = EarnedBy(v)
        BY <1>4 DEF EarnedBy
      <3>4. p \notin SettlingOf(v)
        BY <1>4 DEF SettlingOf
      <3>5. Settling(v)' = IF to = "settle" /\ v = u THEN Settling(v) + payout[p].amount
                                                   ELSE Settling(v)
        BY <1>1, <1>4, <1>6, <3>4, SettlingStep
      <3>6. sent'[v] = IF v = u THEN sent[v] + payout[p].amount ELSE sent[v]
        BY <1>3, <1>5, <2>1
      <3> QED BY <1>4, <3>1, <3>2, <3>3, <3>5, <3>6
    <2> QED BY <2>2, <2>3 DEF NeverDebitedUnpaid
  <1> QED BY <1>7, <1>8

\* Settling takes from the balance what it stops being about to take.
LEMMA SettleDebit ==
  ASSUME DebitInv, NEW p \in Payouts, Settle(p) PROVE Bounded' /\ NeverDebitedUnpaid'
  <1>1. AffiliateInv /\ AffiliateTypes /\ Bounded
    BY DEF DebitInv, BillingInv, AffiliateInv
  <1>2. PICK u, a : u = payout[p].user /\ a = payout[p].amount
    OBVIOUS
  <1>3. /\ payout \in [Payouts -> Payout] /\ accounts \in [Users -> Account]
        /\ sent \in [Users -> Nat]
    BY <1>1 DEF AffiliateTypes
  <1>4. /\ payout[p].pc = "settle" /\ payout' = [payout EXCEPT ![p] = NoPayout]
        /\ UNCHANGED <<txs, sent>>
        /\ accounts' = [accounts EXCEPT ![u] =
             [accounts[u] EXCEPT !.balance = accounts[u].balance - a]]
    BY <1>2 DEF Settle, Step
  <1>5. u \in Users /\ a \in Nat
    BY <1>1, <1>2, <1>3, <1>4 DEF AffiliateInv, PayoutsOwned, PayoutOK, Payout
  <1>6. NoPayout \in Payout /\ NoPayout.pc # "settle"
    BY NoPayoutOK
  <1>7. Bounded'
    BY <1>1, <1>4, <1>6, SettlingStep DEF Bounded
  <1>8. \A v \in Users :
          accounts'[v].balance = IF v = u THEN accounts[v].balance - a ELSE accounts[v].balance
    <2> DEFINE row == [accounts[u] EXCEPT !.balance = accounts[u].balance - a]
    <2>1. row.balance = accounts[u].balance - a
      BY <1>3, <1>5, Zenon DEF Account
    <2>2. accounts' = [accounts EXCEPT ![u] = row]
      BY <1>4
    <2> HIDE DEF row
    <2> QED BY <1>3, <1>5, <2>1, <2>2
  <1>9. ASSUME NEW v \in Users
        PROVE  EarnedBy(v)' - accounts'[v].balance + Settling(v)' <= sent'[v]
    <2>1. EarnedBy(v) \in Nat /\ Settling(v) \in Nat /\ accounts[v].balance \in Int
          /\ sent[v] \in Nat
      BY <1>1, <1>3, AmountsAreNat DEF Account
    <2>2. EarnedBy(v) - accounts[v].balance + Settling(v) <= sent[v]
      BY DEF DebitInv, NeverDebitedUnpaid
    <2>3. EarnedBy(v)' = EarnedBy(v)
      BY <1>4 DEF EarnedBy
    <2>4. CASE v = u
      <3>1. p \in SettlingOf(v)
        BY <1>2, <1>4, <2>4 DEF SettlingOf
      <3>2. Settling(v)' \in Nat /\ Settling(v) = Settling(v)' + a
        BY <1>1, <1>2, <1>4, <1>6, <3>1, SettlingStep
      <3> QED BY <1>4, <1>5, <1>8, <2>1, <2>2, <2>3, <2>4, <3>2
    <2>5. CASE v # u
      <3>1. p \notin SettlingOf(v)
        BY <1>2, <2>5 DEF SettlingOf
      <3>2. Settling(v)' = Settling(v)
        BY <1>1, <1>4, <1>6, <3>1, SettlingStep
      <3> QED BY <1>4, <1>8, <2>1, <2>2, <2>3, <2>5, <3>2
    <2> QED BY <2>4, <2>5
  <1> QED BY <1>7, <1>9 DEF NeverDebitedUnpaid

\* A restart forgets what was about to be taken, and takes nothing.
LEMMA RestartDebit ==
  ASSUME DebitInv, AffiliateRestart PROVE Bounded' /\ NeverDebitedUnpaid'
  <1>1. AffiliateTypes /\ Bounded
    BY DEF DebitInv, BillingInv, AffiliateInv
  <1>2. UNCHANGED <<accounts, txs, sent>> /\ \A p \in Payouts : payout'[p].pc # "settle"
    BY NoPayoutOK DEF AffiliateRestart
  <1>3. ASSUME NEW u \in Users
        PROVE  IsFiniteSet(SettlingOf(u)') /\ Settling(u)' = 0 /\ EarnedBy(u)' = EarnedBy(u)
    <2>1. SettlingOf(u)' = {}
      BY <1>2 DEF SettlingOf
    <2>2. Settling(u)' = 0
      BY <2>1, SumEmpty DEF Settling, SettlingOf
    <2>3. EarnedBy(u)' = EarnedBy(u)
      BY <1>2 DEF EarnedBy
    <2> QED BY <2>1, <2>2, <2>3, FS_EmptySet
  <1>4. ASSUME NEW u \in Users
        PROVE  EarnedBy(u)' - accounts'[u].balance + Settling(u)' <= sent'[u]
    <2>1. EarnedBy(u) \in Nat /\ Settling(u) \in Nat /\ accounts[u].balance \in Int
          /\ sent[u] \in Nat
      BY <1>1, AmountsAreNat DEF AffiliateTypes, Account
    <2>2. EarnedBy(u) - accounts[u].balance + Settling(u) <= sent[u]
      BY DEF DebitInv, NeverDebitedUnpaid
    <2> QED BY <1>2, <1>3, <2>1, <2>2
  <1>5. Bounded'
    BY <1>1, <1>2, <1>3 DEF Bounded
  <1> QED BY <1>4, <1>5 DEF NeverDebitedUnpaid

\* The requests of partners and admins keep the accounts.
LEMMA PayingOutDebit ==
  ASSUME DebitInv, PayingOut PROVE Bounded' /\ NeverDebitedUnpaid'
  <1>1. /\ AffiliateInv /\ AffiliateTypes /\ Bounded /\ payout \in [Payouts -> Payout]
        /\ accounts \in [Users -> Account]
    BY DEF DebitInv, BillingInv, AffiliateInv, AffiliateTypes
  <1>2. ASSUME NEW u \in Users, ApplyPartner(u) PROVE Bounded' /\ NeverDebitedUnpaid'
    <2> DEFINE row == [accounts[u] EXCEPT !.partner = TRUE]
    <2>1. row.balance = accounts[u].balance
      BY <1>1, Zenon DEF Account
    <2>2. accounts' = [accounts EXCEPT ![u] = row] /\ UNCHANGED <<txs, sent, payout>>
      BY <1>2 DEF ApplyPartner
    <2> HIDE DEF row
    <2>3. \A v \in Users : accounts'[v].balance = accounts[v].balance
      BY <1>1, <2>1, <2>2
    <2>4. \A v \in Users : IsFiniteSet(SettlingOf(v)') /\ Settling(v)' = Settling(v)
      BY <1>1, <2>2 DEF Bounded, SettlingOf, Settling
    <2> QED BY <2>2, <2>3, <2>4, NothingDebited
  <1>3. ASSUME NEW w \in Withdrawals, Reject(w) PROVE Bounded' /\ NeverDebitedUnpaid'
    <2>1. UNCHANGED <<accounts, txs, sent, payout>>
      BY <1>3 DEF Reject
    <2>2. \A v \in Users : IsFiniteSet(SettlingOf(v)') /\ Settling(v)' = Settling(v)
      BY <1>1, <2>1 DEF Bounded, SettlingOf, Settling
    <2> QED BY <2>1, <2>2, NothingDebited
  <1>4. ASSUME NEW p \in Payouts,
               \/ \E u \in Users, amount \in Amounts : WithdrawRead(p, u, amount)
               \/ WithdrawCheck(p) \/ WithdrawInsert(p)
               \/ \E w \in Withdrawals : ApproveRead(p, w)
               \/ Process(p) \/ Unsettle(p)
        PROVE  Bounded' /\ NeverDebitedUnpaid'
    <2>1. payout' \in [Payouts -> Payout]
      <3>1. AffiliateInv'
        BY <1>1, <1>4, PartnerTypes, ProcessTypes
      <3> QED BY <3>1 DEF AffiliateInv, AffiliateTypes
    <2>2. PICK q : payout' = [payout EXCEPT ![p] = q]
      BY <1>4 DEF WithdrawRead, WithdrawCheck, WithdrawInsert, ApproveRead, Process, Unsettle,
                  Step
    <2>3. q \in Payout /\ payout'[p] = q
      BY <1>1, <2>1, <2>2
    <2>4. UNCHANGED <<accounts, txs, sent>> /\ payout[p].pc # "settle"
      BY <1>4 DEF WithdrawRead, WithdrawCheck, WithdrawInsert, ApproveRead, Process, Unsettle,
                  Step
    <2>5. payout'[p].pc # "settle"
      <3>1. payout[p] \in Payout
        BY <1>1
      <3>2. \A pc : [payout[p] EXCEPT !.pc = pc].pc = pc
        BY <3>1 DEF Payout
      <3>3. CASE \/ \E u \in Users, amount \in Amounts : WithdrawRead(p, u, amount)
                 \/ \E w \in Withdrawals : ApproveRead(p, w)
        BY <1>1, <3>3 DEF WithdrawRead, ApproveRead
      <3>4. CASE WithdrawCheck(p)
        BY <1>1, <3>2, <3>4, NoPayoutOK DEF WithdrawCheck
      <3>5. CASE WithdrawInsert(p)
        <4>1. PICK w : payout' = [payout EXCEPT ![p] =
                                   [payout[p] EXCEPT !.pc = "process", !.row = w]]
          BY <3>5 DEF WithdrawInsert
        <4>2. [payout[p] EXCEPT !.pc = "process", !.row = w].pc = "process"
          BY <3>1, Zenon DEF Payout
        <4> QED BY <1>1, <4>1, <4>2
      <3>6. CASE Process(p) \/ Unsettle(p)
        BY <1>1, <3>2, <3>6, NoPayoutOK DEF Process, Unsettle, Step
      <3> QED BY <1>4, <3>3, <3>4, <3>5, <3>6
    <2> QED BY <2>2, <2>3, <2>4, <2>5, QuietPayout
  <1>5. ASSUME NEW p \in Payouts, Transfer(p) \/ TransferTimesOut(p)
        PROVE  Bounded' /\ NeverDebitedUnpaid'
    BY <1>5, TransferDebit DEF Transfer, TransferTimesOut
  <1> QED BY <1>2, <1>3, <1>4, <1>5, SettleDebit DEF PayingOut

\* Every step keeps the accounts.
LEMMA StepDebitInv == DebitInv /\ [BillingNext]_allVars => DebitInv'
  <1> SUFFICES ASSUME DebitInv, [BillingNext]_allVars PROVE Bounded' /\ NeverDebitedUnpaid'
    BY StepBillingInv DEF DebitInv
  <1>1. ASSUME UNCHANGED <<accounts, txs, sent, payout>> PROVE Bounded' /\ NeverDebitedUnpaid'
    <2>1. \A v \in Users : IsFiniteSet(SettlingOf(v)') /\ Settling(v)' = Settling(v)
      BY <1>1 DEF DebitInv, Bounded, SettlingOf, Settling
    <2> QED BY <1>1, <2>1, NothingDebited
  <1>2. ASSUME NEW h \in Handlers, RewardEnds(h) PROVE Bounded' /\ NeverDebitedUnpaid'
    BY <1>1, <1>2, BookDebit DEF RewardEnds, RewardDrop
  <1>3. UNCHANGED allVars \/ UNCHANGED affiliateVars => UNCHANGED <<accounts, txs, sent, payout>>
    BY DEF allVars, affiliateVars
  <1>4. ASSUME NEW h \in Handlers, NoRewardDue(h) \/ RewardStarts(h) \/ RewardCounts(h)
        PROVE  UNCHANGED <<accounts, txs, sent, payout>>
    BY <1>3, <1>4 DEF NoRewardDue, RewardStarts, RewardRead, RewardCounts, RewardCount
  <1> QED BY <1>1, <1>2, <1>3, <1>4, PayingOutDebit, RestartDebit DEF BillingNext, BillingRestart

\* For any number of partners, payouts and payments: whatever timeouts, restarts,
\* overlapping withdrawals and admin requests come in between, a balance is only ever
\* reduced by money that reached the partner's wallet (process_withdrawal debits after
\* the provider's answer, with the row's status).
THEOREM DebitsAreSent == BillingSpec => []NeverDebitedUnpaid
  <1>1. DebitInv => NeverDebitedUnpaid
    BY DEF DebitInv
  <1> QED BY <1>1, InitDebitInv, StepDebitInv, PTL DEF BillingSpec
=============================================================================
