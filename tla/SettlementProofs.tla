-------------------------- MODULE SettlementProofs --------------------------
(* Whatever invoices, payments, credit notes and postings there are: what     *)
(* settles an invoice fits it, and the control accounts say what the          *)
(* documents say.  The protocol of the payments is proved about once, for any *)
(* totals and any sums read that are no less than what payments have settled; *)
(* the two ledgers are then its two uses.                                     *)
EXTENDS MCSettlement, StockProofs

(* What posted payments settle and come to, of any state of the payments.   *)

AmountOf(alloc) == Sum(alloc, { i \in Invoices : alloc[i] > 0 })

PostedOf(pm) == { p \in Payments : pm[p].status = "posted" }

SettledBy(pm, i) == Sum([p \in Payments |-> pm[p].alloc[i]], PostedOf(pm))

PaidBy(pm) == Sum([p \in Payments |-> AmountOf(pm[p].alloc)], PostedOf(pm))

Documents == [Payments -> PaymentDocs \cup {None}]

\* A posted payment is a payment.
LEMMA PostedDocs ==
    ASSUME NEW pm \in Documents
    PROVE  /\ IsFiniteSet(PostedOf(pm))
           /\ \A p \in PostedOf(pm) : p \in Payments /\ pm[p] \in PaymentDocs /\ pm[p].alloc \in Allocations
<1>1. IsFiniteSet(PostedOf(pm))
  BY SettlementAssumption, FS_Subset DEF PostedOf
<1>2. ASSUME NEW p \in PostedOf(pm) PROVE p \in Payments /\ pm[p] \in PaymentDocs
  <2>1. p \in Payments /\ pm[p].status = "posted"
    BY <1>2 DEF PostedOf
  <2>2. pm[p] \in PaymentDocs \cup {None}
    BY <2>1 DEF Documents
  <2>3. None.status = "none"
    BY DEF None
  <2> QED BY <2>1, <2>2, <2>3
<1>3. \A d \in PaymentDocs : d.alloc \in Allocations
  BY DEF PaymentDocs
<1> QED BY <1>1, <1>2, <1>3

\* An allocation is a quantity.
LEMMA AllocationType ==
    ASSUME NEW alloc \in Allocations, NEW i \in Invoices
    PROVE  alloc[i] \in Qtys /\ alloc[i] \in Nat
<1>1. Amounts \subseteq Qtys /\ alloc[i] \in Amounts \cup {0}
  BY SettlementAssumption DEF Allocations
<1>2. Qtys \subseteq Nat /\ 0 \in Qtys
  BY MaxQtyAssumption DEF Qtys
<1> QED BY <1>1, <1>2

\* What a payment comes to is a quantity.
LEMMA AmountType ==
    ASSUME NEW alloc \in Allocations
    PROVE  AmountOf(alloc) \in Qtys
<1> DEFINE named == { i \in Invoices : alloc[i] > 0 }
<1>1. IsFiniteSet(Invoices) /\ named \in SUBSET Invoices /\ IsFiniteSet(named)
  BY SettlementAssumption, FS_Subset
<1>2. \A i \in named : alloc[i] \in Nat /\ alloc[i] <= alloc[i]
  BY AllocationType
<1>3. Sum(alloc, Invoices) <= MaxQty
  BY SettlementAssumption DEF Allocations
<1> HIDE DEF named
<1>4. Sum(alloc, named) <= Sum(alloc, Invoices)
  BY <1>1, <1>2, SumSmaller
<1>5. Sum(alloc, named) \in Nat /\ Sum(alloc, Invoices) \in Nat
  BY <1>1, SumType
<1>6. AmountOf(alloc) = Sum(alloc, named)
  BY DEF AmountOf, named
<1> QED BY <1>3, <1>4, <1>5, <1>6, MaxQtyAssumption DEF Qtys

\* What is settled of an invoice, and what payments come to, are counted.
LEMMA SettledType ==
    ASSUME NEW pm \in Documents
    PROVE  PaidBy(pm) \in Nat /\ \A i \in Invoices : SettledBy(pm, i) \in Nat
BY PostedDocs, SumType DEF PaidBy, SettledBy

\* No payment settles more than all of them.
LEMMA SettlesItsPart ==
    ASSUME NEW pm \in Documents, NEW i \in Invoices, NEW p \in PostedOf(pm), SettledBy(pm, i) = 0
    PROVE  pm[p].alloc[i] = 0
<1> DEFINE f == [q \in Payments |-> pm[q].alloc[i]]
<1>1. \A q \in PostedOf(pm) : f[q] = pm[q].alloc[i] /\ f[q] \in Qtys
  BY PostedDocs, AllocationType
<1>2. SettledBy(pm, i) = Sum(f, PostedOf(pm))
  BY DEF SettledBy
<1> HIDE DEF f
<1>3. \A q \in PostedOf(pm) : f[q] = 0
  BY <1>1, <1>2, PostedDocs, SumZeroOnly
<1> QED BY <1>1, <1>3

\* Only posted payments count.
LEMMA PostedSame ==
    ASSUME NEW pm, NEW pn, PostedOf(pn) = PostedOf(pm), \A p \in PostedOf(pm) : pn[p] = pm[p]
    PROVE  PaidBy(pn) = PaidBy(pm) /\ \A i \in Invoices : SettledBy(pn, i) = SettledBy(pm, i)
<1>1. PostedOf(pm) \subseteq Payments
  BY DEF PostedOf
<1>2. ASSUME NEW i \in Invoices PROVE SettledBy(pn, i) = SettledBy(pm, i)
  <2> DEFINE f == [p \in Payments |-> pm[p].alloc[i]]
             g == [p \in Payments |-> pn[p].alloc[i]]
  <2>1. \A p \in PostedOf(pm) : f[p] = g[p]
    BY <1>1
  <2>2. SettledBy(pm, i) = Sum(f, PostedOf(pm)) /\ SettledBy(pn, i) = Sum(g, PostedOf(pm))
    BY DEF SettledBy
  <2> HIDE DEF f, g
  <2> QED BY <2>1, <2>2, SumSame
<1>3. PaidBy(pn) = PaidBy(pm)
  <2> DEFINE f == [p \in Payments |-> AmountOf(pm[p].alloc)]
             g == [p \in Payments |-> AmountOf(pn[p].alloc)]
  <2>1. \A p \in PostedOf(pm) : f[p] = g[p]
    BY <1>1
  <2>2. PaidBy(pm) = Sum(f, PostedOf(pm)) /\ PaidBy(pn) = Sum(g, PostedOf(pm))
    BY DEF PaidBy
  <2> HIDE DEF f, g
  <2> QED BY <2>1, <2>2, SumSame
<1> QED BY <1>2, <1>3

\* A payment more is posted.
LEMMA PostedJoins ==
    ASSUME NEW pm \in Documents, NEW pn, NEW p \in Payments, p \notin PostedOf(pm),
           PostedOf(pn) = PostedOf(pm) \cup {p}, \A q \in PostedOf(pm) : pn[q] = pm[q],
           NEW alloc \in Allocations, pn[p].alloc = alloc
    PROVE  /\ PaidBy(pn) = PaidBy(pm) + AmountOf(alloc)
           /\ \A i \in Invoices : SettledBy(pn, i) = SettledBy(pm, i) + alloc[i]
<1>1. PostedOf(pm) \subseteq Payments /\ IsFiniteSet(PostedOf(pm))
  BY PostedDocs DEF PostedOf
<1>2. ASSUME NEW i \in Invoices PROVE SettledBy(pn, i) = SettledBy(pm, i) + alloc[i]
  <2> DEFINE f == [q \in Payments |-> pm[q].alloc[i]]
             g == [q \in Payments |-> pn[q].alloc[i]]
  <2>1. \A q \in PostedOf(pm) : f[q] = g[q]
    BY <1>1
  <2>2. g[p] = alloc[i] /\ g[p] \in Qtys
    BY AllocationType
  <2>3. SettledBy(pm, i) = Sum(f, PostedOf(pm)) /\ SettledBy(pn, i) = Sum(g, PostedOf(pm) \cup {p})
    BY DEF SettledBy
  <2> HIDE DEF f, g
  <2>4. Sum(g, PostedOf(pm) \cup {p}) = Sum(f, PostedOf(pm)) + g[p]
    <3> DEFINE S == PostedOf(pm)
    <3>1. IsFiniteSet(S) /\ p \notin S /\ g[p] \in Qtys /\ \A q \in S : f[q] = g[q]
      BY <1>1, <2>1, <2>2
    <3> HIDE DEF S
    <3>2. Sum(g, S \cup {p}) = Sum(f, S) + g[p]
      BY <3>1, SumJoin
    <3> QED BY <3>2 DEF S
  <2> QED BY <2>2, <2>3, <2>4
<1>3. PaidBy(pn) = PaidBy(pm) + AmountOf(alloc)
  <2> DEFINE f == [q \in Payments |-> AmountOf(pm[q].alloc)]
             g == [q \in Payments |-> AmountOf(pn[q].alloc)]
  <2>1. \A q \in PostedOf(pm) : f[q] = g[q]
    BY <1>1
  <2>2. g[p] = AmountOf(alloc) /\ g[p] \in Qtys
    BY AmountType
  <2>3. PaidBy(pm) = Sum(f, PostedOf(pm)) /\ PaidBy(pn) = Sum(g, PostedOf(pm) \cup {p})
    BY DEF PaidBy
  <2> HIDE DEF f, g
  <2>4. Sum(g, PostedOf(pm) \cup {p}) = Sum(f, PostedOf(pm)) + g[p]
    <3> DEFINE S == PostedOf(pm)
    <3>1. IsFiniteSet(S) /\ p \notin S /\ g[p] \in Qtys /\ \A q \in S : f[q] = g[q]
      BY <1>1, <2>1, <2>2
    <3> HIDE DEF S
    <3>2. Sum(g, S \cup {p}) = Sum(f, S) + g[p]
      BY <3>1, SumJoin
    <3> QED BY <3>2 DEF S
  <2> QED BY <2>2, <2>3, <2>4
<1> QED BY <1>2, <1>3

\* The sums of the specification are these.
LEMMA SettledView ==
    ASSUME NEW pm \in Documents, NEW i \in Invoices
    PROVE  Sum([p \in Payments |-> pm[p].alloc[i]], { p \in PostedOf(pm) : pm[p].alloc[i] > 0 }) = SettledBy(pm, i)
<1> DEFINE f == [p \in Payments |-> pm[p].alloc[i]]
           T == { p \in PostedOf(pm) : pm[p].alloc[i] > 0 }
<1>1. T \subseteq PostedOf(pm)
  OBVIOUS
<1>2. \A p \in PostedOf(pm) : f[p] = pm[p].alloc[i] /\ pm[p].alloc[i] \in Nat
  BY PostedDocs, AllocationType
<1>3. \A p \in PostedOf(pm) \ T : f[p] = 0
  BY <1>2
<1> HIDE DEF T
<1>4. Sum(f, PostedOf(pm)) = Sum(f, T)
  BY <1>1, <1>3, SumSupport
<1> QED BY <1>4 DEF SettledBy, T

----------------------------------------------------------------------------
(* The protocol of the payments.                                           *)

\* A posting is a draft's, and the invoices it holds stay posted.
PostingsHold == \A p \in Payments : posting[p] # None =>
    /\ payment[p].status = "draft"
    /\ \A i \in posting[p].held : invoice[i] = "posted"

\* A posted payment names posted invoices only.
SettledStand == \A p \in PostedOf(payment), i \in Invoices : payment[p].alloc[i] > 0 => invoice[i] = "posted"

\* Postings that may not overlap come one at a time.
Alone == ~overlap => \A p, q \in Payments : posting[p] # None /\ posting[q] # None => p = q

\* What a posting has read covers what payments have settled since.
SeenCovers == ~overlap => \A p \in Payments, i \in Invoices :
    posting[p] # None => SettledBy(payment, i) <= posting[p].seen[i]

Protocol == SettlementTypeOK /\ PostingsHold /\ SettledStand /\ Alone /\ SeenCovers

\* Of what a posting holds it has checked that it fits, and what has been
\* settled does fit.
Fit(total) ==
    /\ \A p \in Payments : posting[p] # None =>
         \A i \in posting[p].held : posting[p].seen[i] + payment[p].alloc[i] <= total[i]
    /\ ~overlap => \A i \in Invoices : SettledBy(payment, i) <= total[i]

\* What the documents say of the account.
Book(total) == Sum(total, Posted) - PaidBy(payment)

Keeps(total) ==
    /\ Protocol'
    /\ Fit(total) => Fit(total)'
    /\ account' - account = Book(total)' - Book(total)

LEMMA ProtocolTypes ==
    ASSUME Protocol
    PROVE  /\ payment \in Documents /\ IsFiniteSet(Posted) /\ Posted \subseteq Invoices /\ account \in Int
           /\ PaidBy(payment) \in Nat
           /\ \A i \in Invoices : SettledBy(payment, i) \in Nat
           /\ \A f : Sum(f, Posted) \in Nat
           /\ \A p \in Payments : posting[p] # None =>
                /\ posting[p] \in Postings
                /\ posting[p].held \in SUBSET Invoices /\ posting[p].seen \in [Invoices -> Int]
                /\ payment[p] \in PaymentDocs /\ payment[p].alloc \in Allocations
<1>1. payment \in Documents /\ account \in Int
  BY DEF Protocol, SettlementTypeOK, Documents
<1>2. Posted \subseteq Invoices /\ IsFiniteSet(Posted)
  BY SettlementAssumption, FS_Subset DEF Posted
<1>3. PaidBy(payment) \in Nat /\ \A i \in Invoices : SettledBy(payment, i) \in Nat
  BY <1>1, SettledType
<1>4. \A f : Sum(f, Posted) \in Nat
  BY <1>2, SumType
<1>5. ASSUME NEW p \in Payments, posting[p] # None
      PROVE  /\ posting[p] \in Postings
             /\ posting[p].held \in SUBSET Invoices /\ posting[p].seen \in [Invoices -> Int]
             /\ payment[p] \in PaymentDocs /\ payment[p].alloc \in Allocations
  <2>1. posting[p] \in Postings
    BY <1>5 DEF Protocol, SettlementTypeOK
  <2>2. payment[p].status = "draft" /\ payment[p] \in PaymentDocs \cup {None}
    BY <1>5 DEF Protocol, SettlementTypeOK, PostingsHold
  <2>3. payment[p] \in PaymentDocs
    BY <2>2 DEF None
  <2>4. \A d \in PaymentDocs : d.alloc \in Allocations
    BY DEF PaymentDocs
  <2>5. \A d \in Postings : d.held \in SUBSET Invoices /\ d.seen \in [Invoices -> Int]
    BY DEF Postings
  <2> QED BY <2>1, <2>3, <2>4, <2>5
<1> QED BY <1>1, <1>2, <1>3, <1>4, <1>5

\* A step that posts and reverses no payment leaves what they settle.
LEMMA PaymentsRest ==
    ASSUME Protocol, payment' \in Documents,
           \A p \in Payments : payment'[p] # payment[p] => payment[p].status # "posted" /\ payment'[p].status # "posted"
    PROVE  /\ PostedOf(payment') = PostedOf(payment)
           /\ \A p \in PostedOf(payment) : payment'[p] = payment[p]
           /\ PaidBy(payment') = PaidBy(payment)
           /\ \A i \in Invoices : SettledBy(payment', i) = SettledBy(payment, i)
<1>1. PostedOf(payment') = PostedOf(payment) /\ \A p \in PostedOf(payment) : payment'[p] = payment[p]
  <2>1. \A p \in Payments : (payment'[p].status = "posted" <=> payment[p].status = "posted")
                           /\ (payment[p].status = "posted" => payment'[p] = payment[p])
    OBVIOUS
  <2> QED BY <2>1 DEF PostedOf
<1>2. PaidBy(payment') = PaidBy(payment) /\ \A i \in Invoices : SettledBy(payment', i) = SettledBy(payment, i)
  BY <1>1, PostedSame
<1> QED BY <1>1, <1>2

\* Editing an invoice that is not posted touches nothing that is settled.
LEMMA DraftInvoices ==
    ASSUME Protocol, NEW total \in [Invoices -> Qtys], NEW i \in Invoices,
           create_invoice(i) \/ delete_invoice(i)
    PROVE  Keeps(total)
<1>1. /\ invoice \in [Invoices -> {"none", "draft", "posted", "cancelled"}] /\ account \in Int
      /\ UNCHANGED << account, payment, posting, overlap >>
  BY DEF create_invoice, delete_invoice, Protocol, SettlementTypeOK
<1>2. /\ invoice' \in [Invoices -> {"none", "draft", "posted", "cancelled"}]
      /\ \A j \in Invoices : invoice'[j] = "posted" <=> invoice[j] = "posted"
  BY <1>1 DEF create_invoice, delete_invoice
<1>3. Posted' = Posted
  BY <1>2 DEF Posted
<1>4. Protocol'
  <2>1. SettlementTypeOK'
    BY <1>1, <1>2 DEF Protocol, SettlementTypeOK
  <2>2. PostingsHold'
    <3>1. \A p \in Payments : posting[p] # None => posting[p].held \in SUBSET Invoices
      BY ProtocolTypes
    <3> QED BY <1>1, <1>2, <3>1 DEF Protocol, PostingsHold
  <2>3. SettledStand' /\ Alone' /\ SeenCovers'
    BY <1>1, <1>2 DEF Protocol, SettledStand, Alone, SeenCovers
  <2> QED BY <2>1, <2>2, <2>3 DEF Protocol
<1>5. Fit(total) => Fit(total)'
  BY <1>1 DEF Fit
<1>6. Book(total)' = Book(total) /\ Book(total) \in Int
  BY <1>1, <1>3, ProtocolTypes DEF Book
<1> QED BY <1>1, <1>4, <1>5, <1>6 DEF Keeps

LEMMA PostInvoiceKeeps ==
    ASSUME Protocol, NEW total \in [Invoices -> Qtys], NEW i \in Invoices, post_invoice(i, total)
    PROVE  Keeps(total)
<1>1. /\ invoice \in [Invoices -> {"none", "draft", "posted", "cancelled"}] /\ account \in Int
      /\ invoice[i] = "draft" /\ invoice' = [invoice EXCEPT ![i] = "posted"]
      /\ UNCHANGED << payment, posting, overlap >>
      /\ account' = account + total[i]
      /\ total[i] \in Qtys /\ total[i] \in Nat
  BY MaxQtyAssumption DEF post_invoice, Protocol, SettlementTypeOK, Qtys
<1>2. /\ invoice' \in [Invoices -> {"none", "draft", "posted", "cancelled"}]
      /\ \A j \in Invoices : invoice[j] = "posted" => invoice'[j] = "posted"
  BY <1>1
<1>3. Posted' = Posted \cup {i} /\ i \notin Posted
  BY <1>1 DEF Posted
<1>4. Protocol'
  <2>1. SettlementTypeOK'
    BY <1>1, <1>2 DEF Protocol, SettlementTypeOK
  <2>2. PostingsHold'
    <3>1. \A p \in Payments : posting[p] # None => posting[p].held \in SUBSET Invoices
      BY ProtocolTypes
    <3> QED BY <1>1, <1>2, <3>1 DEF Protocol, PostingsHold
  <2>3. SettledStand' /\ Alone' /\ SeenCovers'
    BY <1>1, <1>2 DEF Protocol, SettledStand, Alone, SeenCovers
  <2> QED BY <2>1, <2>2, <2>3 DEF Protocol
<1>5. Fit(total) => Fit(total)'
  BY <1>1 DEF Fit
<1>6. Book(total)' = Book(total) + total[i]
  <2>1. IsFiniteSet(Posted) /\ Sum(total, Posted) \in Nat /\ PaidBy(payment) \in Nat
    BY ProtocolTypes
  <2>2. Sum(total, Posted \cup {i}) = Sum(total, Posted) + total[i]
    BY <1>1, <1>3, <2>1, SumInsert
  <2>3. Book(total)' = Sum(total, Posted \cup {i}) - PaidBy(payment)
    BY <1>1, <1>3 DEF Book
  <2> QED BY <1>1, <2>1, <2>2, <2>3 DEF Book
<1>7. Book(total) \in Int
  BY ProtocolTypes DEF Book
<1> QED BY <1>1, <1>4, <1>5, <1>6, <1>7 DEF Keeps

\* Cancelling: nothing has settled the invoice, and nobody holds it.
LEMMA CancelInvoiceKeeps ==
    ASSUME Protocol, NEW total \in [Invoices -> Qtys], NEW i \in Invoices,
           NEW settled, SettledBy(payment, i) <= settled[i],
           cancel_invoice(i, settled, total)
    PROVE  Keeps(total)
<1>1. /\ invoice \in [Invoices -> {"none", "draft", "posted", "cancelled"}] /\ account \in Int
      /\ invoice[i] = "posted" /\ invoice' = [invoice EXCEPT ![i] = "cancelled"]
      /\ UNCHANGED << payment, posting, overlap >>
      /\ account' = account - total[i]
      /\ total[i] \in Qtys /\ total[i] \in Nat
      /\ Free(i) /\ settled[i] = 0
  BY MaxQtyAssumption DEF cancel_invoice, Protocol, SettlementTypeOK, Qtys
<1>2. /\ invoice' \in [Invoices -> {"none", "draft", "posted", "cancelled"}]
      /\ \A j \in Invoices \ {i} : invoice'[j] = invoice[j]
  BY <1>1
<1>3. Posted = Posted' \cup {i} /\ i \notin Posted'
  BY <1>1 DEF Posted
<1>4. Protocol'
  <2>1. SettlementTypeOK'
    BY <1>1, <1>2 DEF Protocol, SettlementTypeOK
  <2>2. PostingsHold'
    <3>1. \A p \in Payments : posting[p] # None => posting[p].held \in SUBSET (Invoices \ {i})
      BY <1>1, ProtocolTypes DEF Free
    <3> QED BY <1>1, <1>2, <3>1 DEF Protocol, PostingsHold
  <2>3. SettledStand'
    <3>1. payment \in Documents /\ SettledBy(payment, i) \in Nat
      BY ProtocolTypes
    <3>2. SettledBy(payment, i) = 0
      BY <1>1, <3>1
    <3>3. \A p \in PostedOf(payment) : payment[p].alloc[i] = 0
      BY <3>1, <3>2, SettlesItsPart
    <3>4. \A p \in PostedOf(payment), j \in Invoices : payment[p].alloc[j] > 0 => j # i
      BY <3>3
    <3> QED BY <1>1, <1>2, <3>4 DEF Protocol, SettledStand
  <2>4. Alone' /\ SeenCovers'
    BY <1>1, <1>2 DEF Protocol, Alone, SeenCovers
  <2> QED BY <2>1, <2>2, <2>3, <2>4 DEF Protocol
<1>5. Fit(total) => Fit(total)'
  BY <1>1 DEF Fit
<1>6. Book(total) = Book(total)' + total[i] /\ Book(total)' \in Int
  <2>1. IsFiniteSet(Posted') /\ PaidBy(payment) \in Nat
    BY <1>3, ProtocolTypes, FS_Subset
  <2>2. Sum(total, Posted' \cup {i}) = Sum(total, Posted') + total[i] /\ Sum(total, Posted') \in Nat
    BY <1>1, <1>3, <2>1, SumInsert, SumType
  <2>3. Book(total)' = Sum(total, Posted') - PaidBy(payment)
    BY <1>1 DEF Book
  <2>4. Book(total) = Sum(total, Posted' \cup {i}) - PaidBy(payment)
    BY <1>3 DEF Book
  <2> QED BY <1>1, <2>1, <2>2, <2>3, <2>4
<1> QED BY <1>1, <1>4, <1>5, <1>6 DEF Keeps

\* Drafts are edited while no posting has begun, and count for nothing.
LEMMA DraftPayments ==
    ASSUME Protocol, NEW total \in [Invoices -> Qtys], NEW p \in Payments, NEW alloc \in Allocations,
           create_draft(p, alloc) \/ update_draft(p, alloc) \/ delete_draft(p)
    PROVE  Keeps(total)
<1>1. /\ payment \in Documents /\ account \in Int /\ posting \in [Payments -> Postings \cup {None}]
      /\ UNCHANGED << invoice, account, posting, overlap >>
  BY DEF create_draft, update_draft, delete_draft, Protocol, SettlementTypeOK, Documents
<1>2. posting[p] = None /\ payment[p].status \in {"draft", "none"}
  BY DEF create_draft, update_draft, delete_draft, Editable, Protocol, PostingsHold, None
<1>3. PICK d \in PaymentDocs \cup {None} : payment' = [payment EXCEPT ![p] = d] /\ d.status # "posted"
  <2>1. CASE create_draft(p, alloc)
    <3> DEFINE d == [status |-> "draft", alloc |-> alloc]
    <3>1. d \in PaymentDocs /\ d.status = "draft"
      BY DEF PaymentDocs
    <3>2. payment' = [payment EXCEPT ![p] = d]
      BY <2>1 DEF create_draft
    <3> HIDE DEF d
    <3> QED BY <3>1, <3>2
  <2>2. CASE update_draft(p, alloc)
    <3>1. payment[p].status = "draft" /\ payment[p] \in PaymentDocs \cup {None}
      BY <1>1, <2>2 DEF update_draft, Editable, Documents
    <3>2. payment[p] \in PaymentDocs
      BY <3>1 DEF None
    <3> DEFINE d == [payment[p] EXCEPT !.alloc = alloc]
    <3>3. d \in PaymentDocs /\ d.status = "draft"
      BY <3>1, <3>2 DEF PaymentDocs
    <3>4. payment' = [payment EXCEPT ![p] = d]
      BY <2>2 DEF update_draft
    <3> QED BY <3>3, <3>4
  <2>3. CASE delete_draft(p)
    <3>1. None.status # "posted"
      BY DEF None
    <3>2. payment' = [payment EXCEPT ![p] = None]
      BY <2>3 DEF delete_draft
    <3> QED BY <3>1, <3>2
  <2> QED BY <2>1, <2>2, <2>3
<1>4. payment' \in Documents /\ \A q \in Payments \ {p} : payment'[q] = payment[q]
  BY <1>1, <1>3 DEF Documents
<1>5. /\ PostedOf(payment') = PostedOf(payment)
      /\ \A q \in PostedOf(payment) : payment'[q] = payment[q]
      /\ PaidBy(payment') = PaidBy(payment)
      /\ \A i \in Invoices : SettledBy(payment', i) = SettledBy(payment, i)
  <2>1. \A q \in Payments : payment'[q] # payment[q] => payment[q].status # "posted" /\ payment'[q].status # "posted"
    BY <1>1, <1>2, <1>3, <1>4 DEF Documents
  <2> QED BY <1>4, <2>1, PaymentsRest
<1>6. Protocol'
  <2>1. SettlementTypeOK'
    BY <1>1, <1>4 DEF Protocol, SettlementTypeOK, Documents
  <2>2. PostingsHold'
    BY <1>1, <1>2, <1>4 DEF Protocol, PostingsHold
  <2>3. SettledStand' /\ Alone' /\ SeenCovers'
    BY <1>1, <1>5 DEF Protocol, SettledStand, Alone, SeenCovers
  <2> QED BY <2>1, <2>2, <2>3 DEF Protocol
<1>7. Fit(total) => Fit(total)'
  BY <1>1, <1>2, <1>4, <1>5 DEF Fit
<1>8. Book(total)' = Book(total) /\ Book(total) \in Int
  BY <1>1, <1>5, ProtocolTypes DEF Book, Posted
<1> QED BY <1>1, <1>6, <1>7, <1>8 DEF Keeps

\* What a posting may become.
Sound(p, b, total) == b # None =>
    /\ b \in Postings
    /\ payment[p].status = "draft"
    /\ \A i \in b.held : invoice[i] = "posted"
    /\ Fit(total) => \A i \in b.held : b.seen[i] + payment[p].alloc[i] <= total[i]
    /\ ~overlap => \A q \in Payments \ {p} : posting[q] = None
    /\ ~overlap => \A i \in Invoices : SettledBy(payment, i) <= b.seen[i]

\* A posting that moves soundly keeps the protocol.
LEMMA PostingMoves ==
    ASSUME Protocol, NEW total \in [Invoices -> Qtys], NEW p \in Payments, NEW b, Sound(p, b, total),
           posting' = [posting EXCEPT ![p] = b],
           UNCHANGED << invoice, account, payment, overlap >>
    PROVE  Keeps(total)
<1>1. /\ posting \in [Payments -> Postings \cup {None}] /\ account \in Int
      /\ b \in Postings \cup {None}
  BY DEF Protocol, SettlementTypeOK, Sound
<1>2. /\ posting' \in [Payments -> Postings \cup {None}]
      /\ posting'[p] = b /\ \A q \in Payments \ {p} : posting'[q] = posting[q]
  BY <1>1
<1>3. Protocol'
  <2>1. SettlementTypeOK'
    BY <1>2 DEF Protocol, SettlementTypeOK
  <2>2. PostingsHold'
    BY <1>2 DEF Protocol, PostingsHold, Sound
  <2>3. SettledStand'
    BY DEF Protocol, SettledStand
  <2>4. Alone'
    <3> SUFFICES ASSUME ~overlap, NEW q \in Payments, NEW r \in Payments, posting'[q] # None, posting'[r] # None
                 PROVE  q = r
      BY DEF Alone
    <3>1. CASE b # None
      BY <1>2, <3>1 DEF Sound
    <3>2. CASE b = None
      BY <1>2, <3>2 DEF Protocol, Alone
    <3> QED BY <3>1, <3>2
  <2>5. SeenCovers'
    BY <1>2 DEF Protocol, SeenCovers, Sound
  <2> QED BY <2>1, <2>2, <2>3, <2>4, <2>5 DEF Protocol
<1>4. Fit(total) => Fit(total)'
  BY <1>2 DEF Fit, Sound
<1>5. Book(total)' = Book(total) /\ Book(total) \in Int
  BY ProtocolTypes DEF Book, Posted
<1> QED BY <1>1, <1>3, <1>4, <1>5 DEF Keeps

\* A posting begins, locks an invoice that fits, is refused or is failed.
LEMMA PostingsKeep ==
    ASSUME Protocol, NEW total \in [Invoices -> Qtys], NEW p \in Payments,
           NEW settled \in [Invoices -> Int], \A i \in Invoices : SettledBy(payment, i) <= settled[i],
           \/ post_begin(p, settled) \/ (\E i \in Invoices : post_lock(p, i, total))
           \/ post_refuse(p, total) \/ post_deadlock(p)
    PROVE  Keeps(total)
<1>1. CASE post_begin(p, settled)
  <2> DEFINE b == [status |-> "posting", seen |-> settled, held |-> {}]
  <2>1. b \in Postings /\ b.held = {} /\ b.seen = settled
    BY DEF Postings
  <2>2. /\ payment[p].status = "draft"
        /\ overlap \/ \A q \in Payments : posting[q] = None
        /\ posting' = [posting EXCEPT ![p] = b]
        /\ UNCHANGED << invoice, account, payment, overlap >>
    BY <1>1 DEF post_begin, Editable
  <2> HIDE DEF b
  <2>3. Sound(p, b, total)
    BY <2>1, <2>2 DEF Sound
  <2> QED BY <2>2, <2>3, PostingMoves
<1>2. ASSUME NEW i \in Invoices, post_lock(p, i, total)
      PROVE  Keeps(total)
  <2> DEFINE b == [posting[p] EXCEPT !.held = @ \cup {i}]
  <2>1. /\ posting[p] # None /\ Fits(p, i, total)
        /\ posting' = [posting EXCEPT ![p] = b]
        /\ UNCHANGED << invoice, account, payment, overlap >>
    BY <1>2 DEF post_lock
  <2>2. posting[p] \in Postings /\ payment[p].status = "draft"
    BY <2>1, ProtocolTypes DEF Protocol, PostingsHold
  <2>3. b \in Postings /\ b.held = posting[p].held \cup {i} /\ b.seen = posting[p].seen
    BY <2>2 DEF Postings
  <2> HIDE DEF b
  <2>4. /\ \A j \in b.held : invoice[j] = "posted"
        /\ Fit(total) => \A j \in b.held : b.seen[j] + payment[p].alloc[j] <= total[j]
    BY <2>1, <2>3 DEF Fits, Posted, Fit, Protocol, PostingsHold
  <2>5. /\ ~overlap => \A q \in Payments \ {p} : posting[q] = None
        /\ ~overlap => \A j \in Invoices : SettledBy(payment, j) <= b.seen[j]
    BY <2>1, <2>3 DEF Protocol, Alone, SeenCovers
  <2>6. Sound(p, b, total)
    BY <2>2, <2>3, <2>4, <2>5 DEF Sound
  <2> QED BY <2>1, <2>6, PostingMoves
<1>3. CASE post_refuse(p, total) \/ post_deadlock(p)
  <2>1. posting' = [posting EXCEPT ![p] = None] /\ UNCHANGED << invoice, account, payment, overlap >>
    BY <1>3 DEF post_refuse, post_deadlock
  <2>2. Sound(p, None, total)
    BY DEF Sound
  <2> QED BY <2>1, <2>2, PostingMoves
<1> QED BY <1>1, <1>2, <1>3

\* A posting commits: every invoice it names is held, stands and fits.
LEMMA CommitKeeps ==
    ASSUME Protocol, NEW total \in [Invoices -> Qtys], NEW p \in Payments, post_commit(p)
    PROVE  Keeps(total)
<1>1. /\ payment \in Documents /\ account \in Int /\ posting \in [Payments -> Postings \cup {None}]
      /\ posting[p] # None /\ Awaited(p) = {}
      /\ payment' = [payment EXCEPT ![p].status = "posted"]
      /\ posting' = [posting EXCEPT ![p] = None]
      /\ account' = account - Amount(p)
      /\ UNCHANGED << invoice, overlap >>
  BY DEF post_commit, Protocol, SettlementTypeOK, Documents
<1>2. /\ payment[p].status = "draft" /\ payment[p] \in PaymentDocs /\ payment[p].alloc \in Allocations
      /\ posting[p].seen \in [Invoices -> Int]
  BY <1>1, ProtocolTypes DEF Protocol, PostingsHold
<1> DEFINE d == [payment[p] EXCEPT !.status = "posted"]
<1>3. d \in PaymentDocs /\ d.status = "posted" /\ d.alloc = payment[p].alloc
  BY <1>2 DEF PaymentDocs
<1>4. payment' = [payment EXCEPT ![p] = d]
  BY <1>1
<1> HIDE DEF d
<1>5. /\ payment' \in Documents /\ payment'[p] = d
      /\ \A q \in Payments \ {p} : payment'[q] = payment[q]
  BY <1>1, <1>3, <1>4 DEF Documents
<1>6. p \notin PostedOf(payment) /\ PostedOf(payment') = PostedOf(payment) \cup {p}
  BY <1>2, <1>3, <1>5 DEF PostedOf
<1>7. PICK alloc \in Allocations : alloc = payment[p].alloc /\ payment'[p].alloc = alloc
  BY <1>2, <1>3, <1>5
<1>8. \A q \in PostedOf(payment) : payment'[q] = payment[q]
  BY <1>5, <1>6, PostedDocs, <1>1
<1>9. /\ PaidBy(payment') = PaidBy(payment) + AmountOf(alloc)
      /\ \A i \in Invoices : SettledBy(payment', i) = SettledBy(payment, i) + alloc[i]
  <2>1. payment \in Documents /\ payment'[p].alloc = alloc
    BY <1>1, <1>7
  <2> QED BY <1>6, <1>8, <2>1, PostedJoins
<1>10. /\ posting' \in [Payments -> Postings \cup {None}]
       /\ posting'[p] = None /\ \A q \in Payments \ {p} : posting'[q] = posting[q]
  BY <1>1
<1>11. /\ Amount(p) = AmountOf(alloc) /\ AmountOf(alloc) \in Nat
       /\ \A i \in Invoices : alloc[i] \in Nat /\ (alloc[i] > 0 => i \in posting[p].held)
  <2>1. Amount(p) = AmountOf(alloc)
    BY <1>7 DEF Amount, AmountOf, Named
  <2>2. AmountOf(alloc) \in Nat
    BY AmountType, MaxQtyAssumption DEF Qtys
  <2>3. \A i \in Invoices : alloc[i] > 0 => i \in posting[p].held
    BY <1>1, <1>7 DEF Awaited, Named
  <2>4. \A i \in Invoices : alloc[i] \in Nat
    BY AllocationType
  <2> QED BY <2>1, <2>2, <2>3, <2>4
<1>12. Protocol'
  <2>1. SettlementTypeOK'
    <3>1. account' \in Int
      BY <1>1, <1>11
    <3> QED BY <1>1, <1>5, <1>10, <3>1 DEF Protocol, SettlementTypeOK, Documents
  <2>2. PostingsHold'
    BY <1>1, <1>5, <1>10 DEF Protocol, PostingsHold
  <2>3. SettledStand'
    <3>1. \A i \in Invoices : alloc[i] > 0 => invoice[i] = "posted"
      BY <1>1, <1>11 DEF Protocol, PostingsHold
    <3> QED BY <1>1, <1>6, <1>7, <1>8, <3>1 DEF Protocol, SettledStand
  <2>4. Alone'
    BY <1>1, <1>10 DEF Protocol, Alone
  <2>5. SeenCovers'
    BY <1>1, <1>10 DEF Protocol, Alone, SeenCovers
  <2> QED BY <2>1, <2>2, <2>3, <2>4, <2>5 DEF Protocol
<1>13. Fit(total) => Fit(total)'
  <2> SUFFICES ASSUME Fit(total) PROVE Fit(total)'
    OBVIOUS
  <2>1. \A q \in Payments : posting'[q] # None =>
          \A i \in posting'[q].held : posting'[q].seen[i] + payment'[q].alloc[i] <= total[i]
    BY <1>5, <1>10 DEF Fit
  <2>2. ASSUME ~overlap, NEW i \in Invoices PROVE SettledBy(payment', i) <= total[i]
    <3>1. SettledBy(payment', i) = SettledBy(payment, i) + alloc[i] /\ SettledBy(payment, i) \in Nat
      BY <1>9, ProtocolTypes
    <3>2. SettledBy(payment, i) <= posting[p].seen[i] /\ posting[p].seen[i] \in Int
      BY <1>1, <1>2, <2>2 DEF Protocol, SeenCovers
    <3>3. CASE alloc[i] > 0
      <4>1. posting[p].seen[i] + alloc[i] <= total[i]
        BY <1>1, <1>7, <1>11, <3>3 DEF Fit
      <4>2. total[i] \in Nat /\ alloc[i] \in Nat
        BY <1>11, MaxQtyAssumption DEF Qtys
      <4> QED BY <3>1, <3>2, <4>1, <4>2
    <3>4. CASE ~(alloc[i] > 0)
      <4>1. SettledBy(payment, i) <= total[i]
        BY <2>2 DEF Fit
      <4>2. alloc[i] = 0
        BY <1>11, <3>4
      <4> QED BY <3>1, <4>1, <4>2
    <3> QED BY <3>3, <3>4
  <2> QED BY <1>1, <2>1, <2>2 DEF Fit
<1>14. Book(total)' = Book(total) - AmountOf(alloc) /\ Book(total) \in Int
  <2>1. Posted' = Posted
    BY <1>1 DEF Posted
  <2>2. Book(total)' = Sum(total, Posted) - (PaidBy(payment) + AmountOf(alloc))
    BY <1>9, <2>1 DEF Book
  <2>3. Sum(total, Posted) \in Nat /\ PaidBy(payment) \in Nat
    BY ProtocolTypes
  <2> QED BY <1>11, <2>2, <2>3 DEF Book
<1> QED BY <1>1, <1>11, <1>12, <1>13, <1>14 DEF Keeps

\* A posted payment is reversed.
LEMMA ReverseKeeps ==
    ASSUME Protocol, NEW total \in [Invoices -> Qtys], NEW p \in Payments, reverse(p)
    PROVE  Keeps(total)
<1>1. /\ payment \in Documents /\ account \in Int
      /\ payment[p].status = "posted"
      /\ payment' = [payment EXCEPT ![p].status = "reversed"]
      /\ account' = account + Amount(p)
      /\ UNCHANGED << invoice, posting, overlap >>
  BY DEF reverse, Protocol, SettlementTypeOK, Documents
<1>2. payment[p] \in PaymentDocs /\ payment[p].alloc \in Allocations /\ p \in PostedOf(payment)
  BY <1>1, PostedDocs DEF PostedOf
<1> DEFINE d == [payment[p] EXCEPT !.status = "reversed"]
<1>3. d \in PaymentDocs /\ d.status = "reversed" /\ d.alloc = payment[p].alloc
  BY <1>2 DEF PaymentDocs
<1>4. payment' = [payment EXCEPT ![p] = d]
  BY <1>1
<1> HIDE DEF d
<1>5. /\ payment' \in Documents /\ payment'[p] = d
      /\ \A q \in Payments \ {p} : payment'[q] = payment[q]
  BY <1>1, <1>3, <1>4 DEF Documents
<1>6. p \notin PostedOf(payment') /\ PostedOf(payment) = PostedOf(payment') \cup {p}
  BY <1>1, <1>3, <1>5 DEF PostedOf
<1>7. PICK alloc \in Allocations : payment[p].alloc = alloc
  BY <1>2
<1>8. \A q \in PostedOf(payment') : payment[q] = payment'[q]
  BY <1>5, <1>6, PostedDocs
<1>9. /\ PaidBy(payment) = PaidBy(payment') + AmountOf(alloc)
      /\ \A i \in Invoices : SettledBy(payment, i) = SettledBy(payment', i) + alloc[i]
  BY <1>5, <1>6, <1>7, <1>8, PostedJoins
<1>10. /\ Amount(p) = AmountOf(alloc) /\ AmountOf(alloc) \in Nat
       /\ \A i \in Invoices : alloc[i] \in Nat
       /\ PaidBy(payment') \in Nat /\ \A i \in Invoices : SettledBy(payment', i) \in Nat
  <2>1. Amount(p) = AmountOf(alloc)
    BY <1>7 DEF Amount, AmountOf, Named
  <2>2. AmountOf(alloc) \in Nat
    BY AmountType, MaxQtyAssumption DEF Qtys
  <2>3. \A i \in Invoices : alloc[i] \in Nat
    BY AllocationType
  <2> QED BY <1>5, <2>1, <2>2, <2>3, SettledType
<1>11. \A i \in Invoices : SettledBy(payment', i) <= SettledBy(payment, i) /\ SettledBy(payment, i) \in Nat
  BY <1>9, <1>10
<1>12. posting[p] = None
  BY <1>1 DEF Protocol, PostingsHold
<1>13. Protocol'
  <2>1. SettlementTypeOK'
    <3>1. account' \in Int
      BY <1>1, <1>10
    <3> QED BY <1>1, <1>5, <3>1 DEF Protocol, SettlementTypeOK, Documents
  <2>2. PostingsHold'
    BY <1>1, <1>5, <1>12 DEF Protocol, PostingsHold
  <2>3. SettledStand'
    BY <1>1, <1>6, <1>8 DEF Protocol, SettledStand
  <2>4. Alone'
    BY <1>1 DEF Protocol, Alone
  <2>5. SeenCovers'
    <3> SUFFICES ASSUME ~overlap, NEW q \in Payments, NEW i \in Invoices, posting[q] # None
                 PROVE  SettledBy(payment', i) <= posting[q].seen[i]
      BY <1>1 DEF SeenCovers
    <3>1. SettledBy(payment, i) <= posting[q].seen[i] /\ posting[q].seen[i] \in Int
      BY ProtocolTypes DEF Protocol, SeenCovers
    <3> QED BY <1>10, <1>11, <3>1
  <2> QED BY <2>1, <2>2, <2>3, <2>4, <2>5 DEF Protocol
<1>14. Fit(total) => Fit(total)'
  <2> SUFFICES ASSUME Fit(total) PROVE Fit(total)'
    OBVIOUS
  <2>1. \A q \in Payments : posting'[q] # None =>
          \A i \in posting'[q].held : posting'[q].seen[i] + payment'[q].alloc[i] <= total[i]
    BY <1>1, <1>5, <1>12 DEF Fit
  <2>2. ASSUME ~overlap, NEW i \in Invoices PROVE SettledBy(payment', i) <= total[i]
    <3>1. SettledBy(payment, i) <= total[i] /\ total[i] \in Nat
      BY <2>2, MaxQtyAssumption DEF Fit, Qtys
    <3> QED BY <1>10, <1>11, <3>1
  <2> QED BY <1>1, <2>1, <2>2 DEF Fit
<1>15. Book(total)' = Book(total) + AmountOf(alloc) /\ Book(total) \in Int
  <2>1. Posted' = Posted
    BY <1>1 DEF Posted
  <2>2. Book(total) = Sum(total, Posted) - (PaidBy(payment') + AmountOf(alloc))
    BY <1>9 DEF Book
  <2>3. Sum(total, Posted) \in Nat
    BY ProtocolTypes
  <2>4. Book(total)' = Sum(total, Posted) - PaidBy(payment')
    BY <2>1 DEF Book
  <2> QED BY <1>10, <2>2, <2>3, <2>4
<1> QED BY <1>1, <1>10, <1>13, <1>14, <1>15 DEF Keeps

\* What either ledger does with invoices and payments.
Steps(settled, total) ==
    \/ \E i \in Invoices : \/ create_invoice(i) \/ delete_invoice(i) \/ post_invoice(i, total)
                           \/ cancel_invoice(i, settled, total)
    \/ \E p \in Payments : \/ \E alloc \in Allocations : create_draft(p, alloc) \/ update_draft(p, alloc)
                           \/ delete_draft(p)
                           \/ reverse(p)
                           \/ post(p, settled, total)

\* Whatever totals there are, and whatever more than the payments is read as
\* settled, the protocol keeps.
LEMMA StepsKeep ==
    ASSUME Protocol, NEW total \in [Invoices -> Qtys],
           NEW settled \in [Invoices -> Int], \A i \in Invoices : SettledBy(payment, i) <= settled[i],
           Steps(settled, total)
    PROVE  Keeps(total)
<1>1. ASSUME NEW i \in Invoices,
             create_invoice(i) \/ delete_invoice(i) \/ post_invoice(i, total) \/ cancel_invoice(i, settled, total)
      PROVE  Keeps(total)
  BY <1>1, DraftInvoices, PostInvoiceKeeps, CancelInvoiceKeeps
<1>2. ASSUME NEW p \in Payments, NEW alloc \in Allocations, create_draft(p, alloc) \/ update_draft(p, alloc)
      PROVE  Keeps(total)
  BY <1>2, DraftPayments
<1>3. ASSUME NEW p \in Payments, delete_draft(p)
      PROVE  Keeps(total)
  <2>1. PICK alloc \in Allocations : TRUE
    <3>1. [i \in Invoices |-> 0] \in Allocations
      BY DEF Allocations
    <3> QED BY <3>1
  <2> QED BY <1>3, <2>1, DraftPayments
<1>4. ASSUME NEW p \in Payments, reverse(p) PROVE Keeps(total)
  BY <1>4, ReverseKeeps
<1>5. ASSUME NEW p \in Payments, post(p, settled, total) PROVE Keeps(total)
  <2>1. CASE post_commit(p)
    BY <2>1, CommitKeeps
  <2>2. CASE \/ post_begin(p, settled) \/ (\E i \in Invoices : post_lock(p, i, total))
             \/ post_refuse(p, total) \/ post_deadlock(p)
    BY <2>2, PostingsKeep
  <2> QED BY <1>5, <2>1, <2>2 DEF post
<1> QED BY <1>1, <1>2, <1>3, <1>4, <1>5 DEF Steps

----------------------------------------------------------------------------
(* Credit notes.                                                           *)

NoteStates == [Notes -> NoteDocs \cup {None}]

PostedNotesOf(nt) == { n \in Notes : nt[n].status = "posted" }

NotesFor(nt, i) == { n \in PostedNotesOf(nt) : nt[n].invoice = i }

\* What posted notes credit of an invoice, and what they come to for a customer
\* who is exempt or taxed.
CreditedBy(nt, i) == Sum([n \in Notes |-> nt[n].qty], NotesFor(nt, i))

Worth(doc, ex) == IF ex THEN doc.qty * doc.price ELSE (doc.qty * doc.price) * (1 + Tax)

CreditsBy(nt, ex) == Sum([n \in Notes |-> Worth(nt[n], ex)], PostedNotesOf(nt))

\* The totals of the invoices of a customer who is taxed, and of either.
Taxed == [i \in Invoices |-> Billed[i] * (1 + Tax)]

TotalFor(ex) == IF ex THEN Billed ELSE Taxed

\* A note has a quantity, and what it is worth fits its column.
LEMMA NoteTypes ==
    ASSUME NEW d \in NoteDocs, NEW ex
    PROVE  /\ d.qty \in Qtys /\ d.qty \in Nat /\ d.invoice \in Invoices
           /\ Worth(d, ex) \in Qtys /\ Worth(d, ex) \in Nat
<1>1. d.qty \in CreditQtys /\ d.price \in Prices /\ d.invoice \in Invoices
  BY DEF NoteDocs
<1>2. d.qty \in Qtys /\ d.qty \in Nat /\ d.price \in Nat /\ Tax \in Nat
  <2>1. Qtys \subseteq Nat
    BY MaxQtyAssumption DEF Qtys
  <2>2. CreditQtys \subseteq Qtys /\ Prices \subseteq Nat /\ Tax \in Nat
    BY ReceivablesAssumption
  <2> QED BY <1>1, <2>1, <2>2
<1>3. d.qty * d.price * (1 + Tax) <= MaxQty
  BY <1>1, ReceivablesAssumption
<1>4. d.qty * d.price \in Nat
  BY <1>2
<1>5. ASSUME NEW x \in Nat, NEW y \in Nat PROVE x * (1 + y) \in Nat /\ x <= x * (1 + y)
  <2>1. x * y \in Nat /\ x * (1 + y) = x + x * y
    OBVIOUS
  <2> QED BY <2>1
<1>6. PICK net \in Nat : net = d.qty * d.price
  BY <1>4
<1>7. net * (1 + Tax) \in Nat /\ net <= net * (1 + Tax) /\ net * (1 + Tax) <= MaxQty
  BY <1>2, <1>3, <1>5, <1>6
<1>8. Worth(d, ex) = IF ex THEN net ELSE net * (1 + Tax)
  BY <1>6 DEF Worth
<1> QED BY <1>1, <1>2, <1>7, <1>8, MaxQtyAssumption DEF Qtys

\* A posted note is a note.
LEMMA PostedNoteDocs ==
    ASSUME NEW nt \in NoteStates
    PROVE  /\ IsFiniteSet(PostedNotesOf(nt)) /\ PostedNotesOf(nt) \subseteq Notes
           /\ \A i : IsFiniteSet(NotesFor(nt, i)) /\ NotesFor(nt, i) \subseteq PostedNotesOf(nt)
           /\ \A n \in PostedNotesOf(nt) : nt[n] \in NoteDocs
<1>1. IsFiniteSet(PostedNotesOf(nt)) /\ PostedNotesOf(nt) \subseteq Notes
  BY ReceivablesAssumption, FS_Subset DEF PostedNotesOf
<1>2. ASSUME NEW i PROVE IsFiniteSet(NotesFor(nt, i)) /\ NotesFor(nt, i) \subseteq PostedNotesOf(nt)
  BY <1>1, FS_Subset DEF NotesFor
<1>3. ASSUME NEW n \in PostedNotesOf(nt) PROVE nt[n] \in NoteDocs
  <2>1. nt[n] \in NoteDocs \cup {None} /\ nt[n].status = "posted"
    BY <1>3 DEF NoteStates, PostedNotesOf
  <2>2. None.status = "none"
    BY DEF None
  <2> QED BY <2>1, <2>2
<1> QED BY <1>1, <1>2, <1>3

\* Only posted notes credit.
LEMMA NotesRest ==
    ASSUME NEW nt, NEW mt, PostedNotesOf(mt) = PostedNotesOf(nt), \A n \in PostedNotesOf(nt) : mt[n] = nt[n]
    PROVE  /\ \A ex : CreditsBy(mt, ex) = CreditsBy(nt, ex)
           /\ \A i \in Invoices : CreditedBy(mt, i) = CreditedBy(nt, i)
<1>1. PostedNotesOf(nt) \subseteq Notes
  BY DEF PostedNotesOf
<1>2. ASSUME NEW ex PROVE CreditsBy(mt, ex) = CreditsBy(nt, ex)
  <2> DEFINE f == [n \in Notes |-> Worth(nt[n], ex)]
             g == [n \in Notes |-> Worth(mt[n], ex)]
  <2>1. \A n \in PostedNotesOf(nt) : f[n] = g[n]
    BY <1>1
  <2>2. CreditsBy(nt, ex) = Sum(f, PostedNotesOf(nt)) /\ CreditsBy(mt, ex) = Sum(g, PostedNotesOf(nt))
    BY DEF CreditsBy
  <2> HIDE DEF f, g
  <2> QED BY <2>1, <2>2, SumSame
<1>3. ASSUME NEW i \in Invoices PROVE CreditedBy(mt, i) = CreditedBy(nt, i)
  <2> DEFINE f == [n \in Notes |-> nt[n].qty]
             g == [n \in Notes |-> mt[n].qty]
  <2>1. NotesFor(mt, i) = NotesFor(nt, i) /\ NotesFor(nt, i) \subseteq PostedNotesOf(nt)
    BY DEF NotesFor
  <2>2. \A n \in NotesFor(nt, i) : f[n] = g[n]
    BY <1>1, <2>1
  <2>3. CreditedBy(nt, i) = Sum(f, NotesFor(nt, i)) /\ CreditedBy(mt, i) = Sum(g, NotesFor(nt, i))
    BY <2>1 DEF CreditedBy
  <2> HIDE DEF f, g
  <2> QED BY <2>2, <2>3, SumSame
<1> QED BY <1>2, <1>3

\* A note more is posted.
LEMMA NoteJoins ==
    ASSUME NEW nt \in NoteStates, NEW mt, NEW n \in Notes, n \notin PostedNotesOf(nt),
           PostedNotesOf(mt) = PostedNotesOf(nt) \cup {n}, \A m \in PostedNotesOf(nt) : mt[m] = nt[m],
           mt[n] \in NoteDocs
    PROVE  /\ \A ex : CreditsBy(mt, ex) = CreditsBy(nt, ex) + Worth(mt[n], ex)
           /\ \A i \in Invoices :
                CreditedBy(mt, i) = IF i = mt[n].invoice THEN CreditedBy(nt, i) + mt[n].qty ELSE CreditedBy(nt, i)
<1>1. /\ IsFiniteSet(PostedNotesOf(nt)) /\ PostedNotesOf(nt) \subseteq Notes
      /\ \A i : IsFiniteSet(NotesFor(nt, i)) /\ NotesFor(nt, i) \subseteq PostedNotesOf(nt)
  BY PostedNoteDocs
<1>2. mt[n].qty \in Qtys /\ \A ex : Worth(mt[n], ex) \in Qtys
  BY NoteTypes
<1>3. ASSUME NEW ex PROVE CreditsBy(mt, ex) = CreditsBy(nt, ex) + Worth(mt[n], ex)
  <2> DEFINE f == [m \in Notes |-> Worth(nt[m], ex)]
             g == [m \in Notes |-> Worth(mt[m], ex)]
  <2>1. \A m \in PostedNotesOf(nt) : f[m] = g[m]
    BY <1>1
  <2>2. g[n] = Worth(mt[n], ex) /\ g[n] \in Qtys
    BY <1>2
  <2>3. CreditsBy(nt, ex) = Sum(f, PostedNotesOf(nt)) /\ CreditsBy(mt, ex) = Sum(g, PostedNotesOf(nt) \cup {n})
    BY DEF CreditsBy
  <2> HIDE DEF f, g
  <2>4. Sum(g, PostedNotesOf(nt) \cup {n}) = Sum(f, PostedNotesOf(nt)) + g[n]
    BY <1>1, <2>1, <2>2, SumJoin
  <2> QED BY <2>2, <2>3, <2>4
<1>4. ASSUME NEW i \in Invoices
      PROVE  CreditedBy(mt, i) = IF i = mt[n].invoice THEN CreditedBy(nt, i) + mt[n].qty ELSE CreditedBy(nt, i)
  <2> DEFINE f == [m \in Notes |-> nt[m].qty]
             g == [m \in Notes |-> mt[m].qty]
  <2>1. \A m \in NotesFor(nt, i) : f[m] = g[m]
    BY <1>1
  <2>2. g[n] = mt[n].qty /\ g[n] \in Qtys
    BY <1>2
  <2>3. NotesFor(mt, i) = IF i = mt[n].invoice THEN NotesFor(nt, i) \cup {n} ELSE NotesFor(nt, i)
    BY DEF NotesFor
  <2>4. CreditedBy(nt, i) = Sum(f, NotesFor(nt, i)) /\ CreditedBy(mt, i) = Sum(g, NotesFor(mt, i))
    BY DEF CreditedBy
  <2>5. n \notin NotesFor(nt, i) /\ IsFiniteSet(NotesFor(nt, i))
    BY <1>1
  <2> HIDE DEF f, g
  <2>6. Sum(g, NotesFor(nt, i) \cup {n}) = Sum(f, NotesFor(nt, i)) + g[n]
    BY <2>1, <2>2, <2>5, SumJoin
  <2>7. Sum(g, NotesFor(nt, i)) = Sum(f, NotesFor(nt, i))
    BY <2>1, SumSame
  <2>8. CASE i = mt[n].invoice
    BY <2>2, <2>3, <2>4, <2>6, <2>8
  <2>9. CASE i # mt[n].invoice
    BY <2>3, <2>4, <2>7, <2>9
  <2> QED BY <2>8, <2>9
<1> QED BY <1>3, <1>4

\* What notes credit is counted.
LEMMA CreditsType ==
    ASSUME NEW nt \in NoteStates
    PROVE  /\ \A ex : CreditsBy(nt, ex) \in Nat
           /\ \A i \in Invoices : CreditedBy(nt, i) \in Nat
<1>1. ASSUME NEW f, NEW S, IsFiniteSet(S) PROVE Sum(f, S) \in Nat
  BY <1>1, SumType
<1> QED BY <1>1, PostedNoteDocs DEF CreditsBy, CreditedBy

----------------------------------------------------------------------------
(* The receivables.                                                        *)

\* A posted note credits a posted invoice.
NotesStand == \A n \in PostedNotesOf(note) : invoice[note[n].invoice] = "posted"

NotesFit == \A i \in Invoices : CreditedBy(note, i) <= Billed[i]

\* What is settled fits while the customer is taxed, and the account ties up to
\* what was revalued.
Ties ==
    /\ ~exempt => Fit(Taxed)
    /\ account = Book(TotalFor(exempt)) - CreditsBy(note, exempt) + revalued

RInv == Protocol /\ TypeOK /\ NotesFit /\ NotesStand /\ Ties

\* What posted documents come to is a number.
LEMMA BookType ==
    ASSUME Protocol, NEW total
    PROVE  Book(total) \in Int
BY ProtocolTypes DEF Book

\* What an invoice comes to is a quantity, taxed or not.
LEMMA Totals ==
    ASSUME TypeOK
    PROVE  /\ Taxed \in [Invoices -> Qtys] /\ Billed \in [Invoices -> Qtys]
           /\ \A ex : TotalFor(ex) \in [Invoices -> Qtys]
           /\ invoice_total = TotalFor(exempt)
<1>1. ASSUME NEW i \in Invoices PROVE Billed[i] \in Qtys /\ Billed[i] * (1 + Tax) \in Qtys
  <2>1. Billed[i] \in Qtys /\ Billed[i] * (1 + Tax) <= MaxQty /\ Tax \in Nat
    BY ReceivablesAssumption
  <2>2. Billed[i] \in Nat
    BY <2>1, MaxQtyAssumption DEF Qtys
  <2>3. ASSUME NEW x \in Nat, NEW y \in Nat PROVE x * (1 + y) \in Nat
    OBVIOUS
  <2>4. Billed[i] * (1 + Tax) \in Nat
    BY <2>1, <2>2, <2>3
  <2> QED BY <2>1, <2>4, MaxQtyAssumption DEF Qtys
<1>2. Billed = [i \in Invoices |-> Billed[i]]
  BY ReceivablesAssumption
<1>3. Taxed \in [Invoices -> Qtys] /\ Billed \in [Invoices -> Qtys]
  BY <1>1, ReceivablesAssumption DEF Taxed
<1>4. invoice_total = TotalFor(exempt)
  BY <1>2 DEF Taxed, TotalFor, invoice_total, Gross
<1> QED BY <1>3, <1>4 DEF TotalFor

\* What posted documents come to, as the sums of their totals.
LEMMA OwedView ==
    ASSUME TypeOK
    PROVE  Owed = Sum(TotalFor(exempt), Posted) - CreditsBy(note, exempt)
<1>1. credit_note_total = [n \in Notes |-> Worth(note[n], exempt)]
  BY DEF credit_note_total, Gross, Worth
<1>2. Sum(credit_note_total, { n \in Notes : note[n].status = "posted" }) = CreditsBy(note, exempt)
  BY <1>1 DEF CreditsBy, PostedNotesOf
<1> QED BY <1>2, Totals DEF Owed

\* What is read as settled of an invoice is no less than what payments have.
LEMMA SettledIsRead ==
    ASSUME Protocol, TypeOK
    PROVE  paid_amounts \in [Invoices -> Int] /\ \A i \in Invoices : SettledBy(payment, i) <= paid_amounts[i]
<1>1. ASSUME NEW i \in Invoices
      PROVE  Allocated(i) = SettledBy(payment, i) /\ SettledBy(payment, i) \in Nat
             /\ Sum(credit_note_total, PostedNotes(i)) \in Nat
  <2>1. Allocated(i) = SettledBy(payment, i)
    BY ProtocolTypes, SettledView DEF Allocated, PostedPayments, PostedOf
  <2>2. IsFiniteSet(PostedNotes(i))
    BY ReceivablesAssumption, FS_Subset DEF PostedNotes
  <2> QED BY <2>1, <2>2, ProtocolTypes, SumType
<1> QED BY <1>1 DEF paid_amounts

\* A step of the invoices or the payments keeps the receivables.
LEMMA ProtocolStep ==
    ASSUME RInv, Steps(paid_amounts, invoice_total), UNCHANGED rest,
           \A i \in Invoices : ~cancel_invoice(i, paid_amounts, invoice_total) \/ ~has_credit_notes(i)
    PROVE  RInv'
<1>1. PICK s : s = paid_amounts
  OBVIOUS
<1>2. PICK t : t = invoice_total
  OBVIOUS
<1>3. /\ s \in [Invoices -> Int] /\ \A i \in Invoices : SettledBy(payment, i) <= s[i]
      /\ t \in [Invoices -> Qtys] /\ t = TotalFor(exempt)
  BY <1>1, <1>2, SettledIsRead, Totals DEF RInv
<1>4. Steps(s, t)
  BY <1>1, <1>2
<1>5. Keeps(t)
  BY <1>3, <1>4, StepsKeep DEF RInv
<1>6. /\ Protocol' /\ (Fit(t) => Fit(t)')
      /\ account' - account = Book(t)' - Book(t)
      /\ UNCHANGED << note, exempt, revalued, stock >>
  BY <1>5 DEF Keeps, rest
<1>7. TypeOK'
  BY <1>6 DEF RInv, TypeOK, Protocol
<1>8. NotesFit'
  BY <1>6 DEF RInv, NotesFit
<1>9. NotesStand'
  <2> SUFFICES ASSUME NEW n \in PostedNotesOf(note) PROVE invoice'[note[n].invoice] = "posted"
    BY <1>6 DEF NotesStand
  <2>1. PICK i \in Invoices : i = note[n].invoice
    BY PostedNoteDocs, NoteTypes DEF RInv, TypeOK, NoteStates
  <2>2. invoice[i] = "posted" /\ has_credit_notes(i)
    BY <2>1 DEF RInv, NotesStand, has_credit_notes, PostedNotesOf
  <2>3. invoice \in [Invoices -> {"none", "draft", "posted", "cancelled"}]
    BY DEF RInv, Protocol, SettlementTypeOK
  <2>4. ASSUME NEW j \in Invoices, create_invoice(j) \/ delete_invoice(j) \/ post_invoice(j, t) \/ cancel_invoice(j, s, t)
        PROVE  invoice'[i] = "posted"
    <3>1. ~cancel_invoice(i, s, t)
      BY <1>1, <1>2, <2>2
    <3>2. CASE j = i
      BY <2>2, <2>4, <3>1, <3>2 DEF create_invoice, delete_invoice, post_invoice
    <3>3. CASE j # i
      BY <2>2, <2>3, <2>4, <3>3 DEF create_invoice, delete_invoice, post_invoice, cancel_invoice
    <3> QED BY <3>2, <3>3
  <2>5. ASSUME NEW p \in Payments,
               \/ \E alloc \in Allocations : create_draft(p, alloc) \/ update_draft(p, alloc)
               \/ delete_draft(p) \/ reverse(p) \/ post(p, s, t)
        PROVE  invoice'[i] = "posted"
    <3>1. invoice' = invoice
      BY <2>5 DEF create_draft, update_draft, delete_draft, reverse, post, post_begin, post_lock, post_refuse,
                  post_deadlock, post_commit
    <3> QED BY <2>2, <3>1
  <2>6. invoice'[i] = "posted"
    BY <1>4, <2>4, <2>5 DEF Steps
  <2> QED BY <2>1, <2>6
<1>10. Ties'
  <2>1. account = Book(t) - CreditsBy(note, exempt) + revalued
    BY <1>3 DEF RInv, Ties
  <2>2. Book(t) \in Int /\ CreditsBy(note, exempt) \in Nat /\ account \in Int /\ revalued \in Int
    <3>1. Book(t) \in Int
      BY <1>3, BookType DEF RInv
    <3> QED BY <3>1, ProtocolTypes, CreditsType DEF RInv, TypeOK, NoteStates
  <2>3. Book(t)' \in Int /\ account' \in Int
    <3>1. payment' \in Documents /\ account' \in Int
      BY <1>6 DEF Protocol, SettlementTypeOK, Documents
    <3>2. IsFiniteSet(Posted')
      BY SettlementAssumption, FS_Subset DEF Posted
    <3>3. PaidBy(payment') \in Nat /\ Sum(t, Posted') \in Nat
      BY <3>1, <3>2, SettledType, SumType
    <3>4. Book(t)' = Sum(t, Posted') - PaidBy(payment')
      BY DEF Book
    <3> QED BY <3>1, <3>3, <3>4
  <2>4. account' = Book(t)' - CreditsBy(note, exempt) + revalued
    BY <1>6, <2>1, <2>2, <2>3
  <2>5. Book(TotalFor(exempt))' = Book(t)'
    BY <1>3, <1>6 DEF TotalFor
  <2>6. CreditsBy(note, exempt)' = CreditsBy(note, exempt) /\ revalued' = revalued
    BY <1>6 DEF CreditsBy, PostedNotesOf
  <2>7. ~exempt' => Fit(Taxed)'
    BY <1>3, <1>6 DEF RInv, Ties, TotalFor
  <2> QED BY <2>4, <2>5, <2>6, <2>7 DEF Ties
<1> QED BY <1>6, <1>7, <1>8, <1>9, <1>10 DEF RInv

\* What the protocol's variables tell does not hang on the account.
LEMMA AccountAlone ==
    ASSUME Protocol, account' \in Int, UNCHANGED << invoice, payment, posting, overlap >>
    PROVE  /\ Protocol' /\ (Fit(Taxed) => Fit(Taxed)')
           /\ Posted' = Posted /\ \A total : Book(total)' = Book(total) /\ Book(total) \in Int
<1>1. Protocol'
  BY DEF Protocol, SettlementTypeOK, PostingsHold, SettledStand, Alone, SeenCovers
<1>2. Fit(Taxed) => Fit(Taxed)'
  BY DEF Fit
<1>3. Posted' = Posted /\ \A total : Book(total)' = Book(total)
  BY DEF Book, Posted
<1>4. \A total : Book(total) \in Int
  BY BookType
<1> QED BY <1>1, <1>2, <1>3, <1>4

\* The account ties on when it moves by what the credit notes move.
LEMMA TiesMove ==
    ASSUME RInv, note' \in NoteStates, account' \in Int,
           UNCHANGED << invoice, payment, posting, overlap, exempt, revalued >>,
           account' - account = CreditsBy(note, exempt) - CreditsBy(note', exempt)
    PROVE  Ties'
<1>1. PICK t : t = TotalFor(exempt)
  OBVIOUS
<1>2. PICK ex : ex = exempt
  OBVIOUS
<1>3. Fit(Taxed) => Fit(Taxed)'
  BY AccountAlone DEF RInv
<1>4. Book(t)' = Book(t) /\ Book(t) \in Int
  BY AccountAlone DEF RInv
<1>5. /\ CreditsBy(note, ex) \in Int /\ CreditsBy(note', ex) \in Int
      /\ account \in Int /\ revalued \in Int
  <2>1. note \in NoteStates /\ account \in Int /\ revalued \in Int
    BY DEF RInv, TypeOK, NoteStates, SettlementTypeOK
  <2> QED BY <2>1, CreditsType
<1>6. account = Book(t) - CreditsBy(note, ex) + revalued
  BY <1>1, <1>2 DEF RInv, Ties
<1>7. account' = Book(t)' - CreditsBy(note', ex) + revalued
  <2>1. account' - account = CreditsBy(note, ex) - CreditsBy(note', ex)
    BY <1>2
  <2> QED BY <1>4, <1>5, <1>6, <2>1
<1>8. t = TotalFor(exempt') /\ ex = exempt' /\ revalued' = revalued
  BY <1>1, <1>2
<1>9. account' = Book(TotalFor(exempt))' - CreditsBy(note, exempt)' + revalued'
  <2>1. Book(TotalFor(exempt))' = Book(t)'
    BY <1>8 DEF Book
  <2>2. CreditsBy(note, exempt)' = CreditsBy(note', ex)
    BY <1>8 DEF CreditsBy, PostedNotesOf
  <2> QED BY <1>7, <1>8, <2>1, <2>2
<1> QED BY <1>3, <1>9 DEF RInv, Ties

\* Editing drafts of credit notes credits nothing.
LEMMA DraftNotes ==
    ASSUME RInv, NEW n \in Notes, NEW doc \in NoteDocs, doc.status = "draft",
           create_note(n, doc) \/ update_note(n, doc) \/ delete_note(n)
    PROVE  RInv'
<1>1. /\ note \in NoteStates /\ account \in Int /\ exempt \in BOOLEAN /\ revalued \in Int /\ stock \in Nat
      /\ SettlementTypeOK
  BY DEF RInv, TypeOK, NoteStates, SettlementTypeOK
<1>2. None.status = "none"
  BY DEF None
<1>3. /\ UNCHANGED << invoice, account, payment, posting, overlap, exempt, revalued, stock >>
      /\ note[n].status # "posted"
  BY <1>2 DEF create_note, update_note, delete_note, settlement
<1>4. PICK d \in NoteDocs \cup {None} : note' = [note EXCEPT ![n] = d] /\ d.status # "posted"
  <2>1. note' = [note EXCEPT ![n] = doc] \/ note' = [note EXCEPT ![n] = None]
    BY DEF create_note, update_note, delete_note
  <2> QED BY <1>2, <2>1
<1>5. note' \in NoteStates /\ note'[n] = d /\ \A m \in Notes \ {n} : note'[m] = note[m]
  BY <1>1, <1>4 DEF NoteStates
<1>6. PostedNotesOf(note') = PostedNotesOf(note) /\ \A m \in PostedNotesOf(note) : note'[m] = note[m]
  BY <1>3, <1>4, <1>5 DEF PostedNotesOf
<1>7. /\ \A ex : CreditsBy(note', ex) = CreditsBy(note, ex)
      /\ \A i \in Invoices : CreditedBy(note', i) = CreditedBy(note, i)
  BY <1>6, NotesRest
<1>8. Protocol' /\ (Fit(Taxed) => Fit(Taxed)') /\ \A total : Book(total)' = Book(total)
  BY <1>1, <1>3, AccountAlone DEF RInv
<1>9. TypeOK'
  BY <1>1, <1>3, <1>5, <1>8 DEF TypeOK, NoteStates, Protocol
<1>10. NotesFit'
  BY <1>7 DEF RInv, NotesFit
<1>11. NotesStand'
  BY <1>3, <1>6 DEF RInv, NotesStand
<1>12. Ties'
  <2>1. account' - account = CreditsBy(note, exempt) - CreditsBy(note', exempt)
    <3>1. CreditsBy(note, exempt) \in Nat /\ CreditsBy(note', exempt) = CreditsBy(note, exempt)
      BY <1>1, <1>7, CreditsType
    <3> QED BY <1>1, <1>3, <3>1
  <2> QED BY <1>1, <1>3, <1>5, <2>1, TiesMove
<1> QED BY <1>8, <1>9, <1>10, <1>11, <1>12 DEF RInv

\* The sums the credit note reads are these.
LEMMA CreditedView ==
    ASSUME NEW i
    PROVE  credited_qty(i) = CreditedBy(note, i)
<1>1. PostedNotes(i) = NotesFor(note, i)
  BY DEF PostedNotes, NotesFor, PostedNotesOf
<1> QED BY <1>1 DEF credited_qty, CreditedBy

LEMMA PostNoteKeeps ==
    ASSUME RInv, NEW n \in Notes, post_note(n)
    PROVE  RInv'
<1>1. note \in NoteStates /\ account \in Int /\ exempt \in BOOLEAN /\ revalued \in Int /\ stock \in Nat
  BY DEF RInv, TypeOK, NoteStates, SettlementTypeOK
<1>2. /\ note[n].status = "draft" /\ note' = [note EXCEPT ![n].status = "posted"]
      /\ account' = account - credit_note_total[n]
      /\ UNCHANGED << invoice, payment, posting, overlap, exempt, revalued >>
      /\ Creditable(note[n]) /\ post_restock(n)
  BY DEF post_note
<1>3. note[n] \in NoteDocs
  <2>1. note[n] \in NoteDocs \cup {None}
    BY <1>1 DEF NoteStates
  <2>2. None.status = "none"
    BY DEF None
  <2> QED BY <1>2, <2>1, <2>2
<1> DEFINE d == [note[n] EXCEPT !.status = "posted"]
<1>4. /\ d \in NoteDocs /\ d.status = "posted" /\ d.invoice = note[n].invoice /\ d.qty = note[n].qty
      /\ d.price = note[n].price
  BY <1>3 DEF NoteDocs
<1>5. note' = [note EXCEPT ![n] = d]
  BY <1>2
<1> HIDE DEF d
<1>6. note' \in NoteStates /\ note'[n] = d /\ \A m \in Notes \ {n} : note'[m] = note[m]
  BY <1>1, <1>4, <1>5 DEF NoteStates
<1>7. /\ n \notin PostedNotesOf(note) /\ PostedNotesOf(note') = PostedNotesOf(note) \cup {n}
      /\ \A m \in PostedNotesOf(note) : note'[m] = note[m]
  BY <1>2, <1>4, <1>6 DEF PostedNotesOf
<1>8. /\ \A ex : CreditsBy(note', ex) = CreditsBy(note, ex) + Worth(d, ex)
      /\ \A i \in Invoices :
           CreditedBy(note', i) = IF i = d.invoice THEN CreditedBy(note, i) + d.qty ELSE CreditedBy(note, i)
  <2>1. note'[n] \in NoteDocs
    BY <1>4, <1>6
  <2>2. /\ \A ex : CreditsBy(note', ex) = CreditsBy(note, ex) + Worth(note'[n], ex)
        /\ \A i \in Invoices :
             CreditedBy(note', i)
               = IF i = note'[n].invoice THEN CreditedBy(note, i) + note'[n].qty ELSE CreditedBy(note, i)
    BY <1>1, <1>7, <2>1, NoteJoins
  <2> QED BY <1>6, <2>2
<1>9. /\ d.qty \in Nat /\ d.invoice \in Invoices
      /\ \A ex : Worth(d, ex) \in Nat /\ Worth(d, ex) = Worth(note[n], ex)
  BY <1>4, NoteTypes DEF Worth
<1>10. account' \in Int /\ account' = account - Worth(d, exempt)
  <2>1. credit_note_total[n] = Gross(note[n].qty * note[n].price)
    BY DEF credit_note_total
  <2>2. credit_note_total[n] = Worth(d, exempt)
    BY <1>9, <2>1 DEF Gross, Worth
  <2> QED BY <1>1, <1>2, <1>9, <2>2
<1>11. Protocol'
  BY <1>2, <1>10, AccountAlone DEF RInv
<1>12. TypeOK'
  <2>1. stock' \in Nat
    BY <1>1, <1>2, <1>4, <1>9 DEF post_restock
  <2> QED BY <1>1, <1>2, <1>6, <1>11, <2>1 DEF TypeOK, NoteStates, Protocol
<1>13. NotesFit'
  <2>1. CreditedBy(note, d.invoice) + d.qty <= Billed[d.invoice]
    BY <1>2, <1>4, CreditedView DEF Creditable
  <2> QED BY <1>8, <2>1 DEF RInv, NotesFit
<1>14. NotesStand'
  BY <1>2, <1>4, <1>6, <1>7 DEF RInv, NotesStand, Creditable
<1>15. Ties'
  <2>1. account' - account = CreditsBy(note, exempt) - CreditsBy(note', exempt)
    <3>1. CreditsBy(note, exempt) \in Nat /\ Worth(d, exempt) \in Nat
      BY <1>1, <1>9, CreditsType
    <3>2. CreditsBy(note', exempt) = CreditsBy(note, exempt) + Worth(d, exempt)
      BY <1>8
    <3> QED BY <1>1, <1>10, <3>1, <3>2
  <2> QED BY <1>2, <1>6, <1>10, <2>1, TiesMove
<1> QED BY <1>11, <1>12, <1>13, <1>14, <1>15 DEF RInv

LEMMA CancelNoteKeeps ==
    ASSUME RInv, NEW n \in Notes, cancel_note(n)
    PROVE  RInv'
<1>1. note \in NoteStates /\ account \in Int /\ exempt \in BOOLEAN /\ revalued \in Int /\ stock \in Nat
  BY DEF RInv, TypeOK, NoteStates, SettlementTypeOK
<1>2. /\ note[n].status = "posted" /\ note' = [note EXCEPT ![n].status = "cancelled"]
      /\ account' = account + credit_note_total[n]
      /\ UNCHANGED << invoice, payment, posting, overlap, exempt, revalued >>
      /\ reverse_restock(n)
  BY DEF cancel_note
<1>3. note[n] \in NoteDocs /\ n \in PostedNotesOf(note)
  BY <1>1, <1>2, PostedNoteDocs DEF PostedNotesOf
<1> DEFINE d == [note[n] EXCEPT !.status = "cancelled"]
<1>4. d \in NoteDocs /\ d.status = "cancelled"
  BY <1>3 DEF NoteDocs
<1>5. note' = [note EXCEPT ![n] = d]
  BY <1>2
<1> HIDE DEF d
<1>6. note' \in NoteStates /\ note'[n] = d /\ \A m \in Notes \ {n} : note'[m] = note[m]
  BY <1>1, <1>4, <1>5 DEF NoteStates
<1>7. /\ n \notin PostedNotesOf(note') /\ PostedNotesOf(note) = PostedNotesOf(note') \cup {n}
      /\ \A m \in PostedNotesOf(note') : note[m] = note'[m]
  BY <1>3, <1>4, <1>6 DEF PostedNotesOf
<1>8. /\ \A ex : CreditsBy(note, ex) = CreditsBy(note', ex) + Worth(note[n], ex)
      /\ \A i \in Invoices :
           CreditedBy(note, i)
             = IF i = note[n].invoice THEN CreditedBy(note', i) + note[n].qty ELSE CreditedBy(note', i)
  BY <1>3, <1>6, <1>7, NoteJoins
<1>9. /\ \A ex : Worth(note[n], ex) \in Nat /\ CreditsBy(note', ex) \in Nat
      /\ note[n].qty \in Nat /\ note[n].price \in Nat
      /\ \A i \in Invoices : CreditedBy(note', i) \in Nat
  <2>1. note[n].price \in Nat
    BY <1>3, ReceivablesAssumption DEF NoteDocs
  <2> QED BY <1>3, <1>6, <2>1, NoteTypes, CreditsType
<1>10. account' \in Int /\ account' = account + Worth(note[n], exempt)
  <2>1. credit_note_total[n] = Gross(note[n].qty * note[n].price)
    BY DEF credit_note_total
  <2>2. credit_note_total[n] = Worth(note[n], exempt)
    BY <2>1 DEF Gross, Worth
  <2> QED BY <1>1, <1>2, <1>9, <2>2
<1>11. Protocol'
  BY <1>2, <1>10, AccountAlone DEF RInv
<1>12. TypeOK'
  <2>1. stock' \in Nat
    BY <1>1, <1>2, <1>9 DEF reverse_restock
  <2> QED BY <1>1, <1>2, <1>6, <1>11, <2>1 DEF TypeOK, NoteStates, Protocol
<1>13. NotesFit'
  <2> SUFFICES ASSUME NEW i \in Invoices PROVE CreditedBy(note', i) <= Billed[i]
    BY DEF NotesFit
  <2>1. CreditedBy(note, i) <= Billed[i] /\ CreditedBy(note', i) \in Nat
    BY <1>9 DEF RInv, NotesFit
  <2>2. Billed[i] \in Nat
    BY ReceivablesAssumption, MaxQtyAssumption DEF Qtys
  <2>3. CASE i = note[n].invoice
    BY <1>8, <1>9, <2>1, <2>2, <2>3
  <2>4. CASE i # note[n].invoice
    BY <1>8, <2>1, <2>4
  <2> QED BY <2>3, <2>4
<1>14. NotesStand'
  BY <1>2, <1>7 DEF RInv, NotesStand
<1>15. Ties'
  <2>1. account' - account = CreditsBy(note, exempt) - CreditsBy(note', exempt)
    <3>1. CreditsBy(note', exempt) \in Nat /\ Worth(note[n], exempt) \in Nat
      BY <1>9
    <3>2. CreditsBy(note, exempt) = CreditsBy(note', exempt) + Worth(note[n], exempt)
      BY <1>8
    <3> QED BY <1>1, <1>10, <3>1, <3>2
  <2> QED BY <1>2, <1>6, <1>10, <2>1, TiesMove
<1> QED BY <1>11, <1>12, <1>13, <1>14, <1>15 DEF RInv

\* Every step of the receivables keeps them.
LEMMA ReceivablesKeep ==
    ASSUME RInv, Next
    PROVE  RInv'
<1>1. CASE InvoiceStep
  <2>1. PICK i \in Invoices :
          /\ \/ create_invoice(i) \/ delete_invoice(i) \/ post_invoice(i, invoice_total)
             \/ ~has_credit_notes(i) /\ cancel_invoice(i, paid_amounts, invoice_total)
          /\ UNCHANGED rest
    BY <1>1 DEF InvoiceStep
  <2>2. Steps(paid_amounts, invoice_total)
    BY <2>1 DEF Steps
  <2>3. ASSUME NEW j \in Invoices, cancel_invoice(j, paid_amounts, invoice_total), has_credit_notes(j)
        PROVE  FALSE
    <3>1. invoice \in [Invoices -> {"none", "draft", "posted", "cancelled"}]
      BY DEF RInv, Protocol, SettlementTypeOK
    <3>2. invoice[j] = "posted" /\ invoice'[j] = "cancelled"
      BY <2>3, <3>1 DEF cancel_invoice
    <3>3. CASE i = j
      BY <2>1, <2>3, <3>1, <3>2, <3>3 DEF create_invoice, delete_invoice, post_invoice
    <3>4. CASE i # j
      BY <2>1, <3>1, <3>2, <3>4 DEF create_invoice, delete_invoice, post_invoice, cancel_invoice
    <3> QED BY <3>3, <3>4
  <2> QED BY <2>1, <2>2, <2>3, ProtocolStep
<1>2. ASSUME PaymentStep \/ \E p \in Payments : post_payment(p)
      PROVE  RInv'
  <2>1. Steps(paid_amounts, invoice_total) /\ UNCHANGED rest
    BY <1>2 DEF PaymentStep, post_payment, Steps
  <2>2. invoice' = invoice
    BY <1>2 DEF PaymentStep, post_payment, create_draft, update_draft, delete_draft, reverse, post, post_begin,
                post_lock, post_refuse, post_deadlock, post_commit
  <2>3. ASSUME NEW j \in Invoices, cancel_invoice(j, paid_amounts, invoice_total) PROVE FALSE
    <3>1. invoice \in [Invoices -> {"none", "draft", "posted", "cancelled"}]
      BY DEF RInv, Protocol, SettlementTypeOK
    <3> QED BY <2>2, <2>3, <3>1 DEF cancel_invoice
  <2> QED BY <2>1, <2>3, ProtocolStep
<1>3. CASE NoteStep
  <2>1. ASSUME NEW n \in Notes, NEW doc \in NoteDocs, doc.status = "draft", create_note(n, doc) \/ update_note(n, doc)
        PROVE  RInv'
    BY <2>1, DraftNotes
  <2>2. ASSUME NEW n \in Notes, delete_note(n) PROVE RInv'
    <3>1. n \in Notes /\ note[n] \in NoteDocs /\ note[n].status = "draft"
      <4>1. note[n] \in NoteDocs \cup {None} /\ note[n].status = "draft"
        BY <2>2 DEF delete_note, RInv, TypeOK
      <4> QED BY <4>1 DEF None
    <3> QED BY <2>2, <3>1, DraftNotes
  <2>3. ASSUME NEW n \in Notes, post_note(n) \/ cancel_note(n) PROVE RInv'
    BY <2>3, PostNoteKeeps, CancelNoteKeeps
  <2> QED BY <1>3, <2>1, <2>2, <2>3 DEF NoteStep
<1>4. CASE set_exempt
  <2>1. /\ UNCHANGED << invoice, account, payment, posting, overlap, note, stock >>
        /\ ~exempt /\ exempt' = TRUE /\ revalued' = revalued + Owed - Owed'
    BY <1>4 DEF set_exempt, settlement
  <2>2. account \in Int /\ TypeOK /\ note \in NoteStates
    BY DEF RInv, TypeOK, SettlementTypeOK, NoteStates
  <2>3. Protocol' /\ Posted' = Posted /\ \A total : Book(total)' = Book(total)
    BY <2>1, <2>2, AccountAlone DEF RInv
  <2>4. exempt = FALSE
    BY <2>1, <2>2 DEF TypeOK
  <2>5. Owed = Sum(Taxed, Posted) - CreditsBy(note, FALSE)
    BY <2>2, <2>4, OwedView DEF TotalFor
  <2>6. Owed' = Sum(Billed, Posted) - CreditsBy(note, TRUE)
    <3>1. invoice_total' = Billed
      BY <2>1, ReceivablesAssumption DEF invoice_total, Gross
    <3>2. credit_note_total' = [n \in Notes |-> Worth(note[n], TRUE)]
      BY <2>1 DEF credit_note_total, Gross, Worth
    <3>3. { n \in Notes : note'[n].status = "posted" } = PostedNotesOf(note)
      BY <2>1 DEF PostedNotesOf
    <3>4. Owed' = Sum(invoice_total', Posted')
                    - Sum(credit_note_total', { n \in Notes : note'[n].status = "posted" })
      BY DEF Owed
    <3> QED BY <2>3, <3>1, <3>2, <3>3, <3>4 DEF CreditsBy
  <2>7. /\ Sum(Taxed, Posted) \in Nat /\ Sum(Billed, Posted) \in Nat /\ PaidBy(payment) \in Nat
        /\ CreditsBy(note, FALSE) \in Nat /\ CreditsBy(note, TRUE) \in Nat
    BY <2>2, ProtocolTypes, CreditsType DEF RInv
  <2>8. account = Sum(Taxed, Posted) - PaidBy(payment) - CreditsBy(note, FALSE) + revalued /\ revalued \in Int
    BY <2>2, <2>4 DEF RInv, Ties, TotalFor, Book, TypeOK
  <2>9. /\ revalued' \in Int
        /\ account = Sum(Billed, Posted) - PaidBy(payment) - CreditsBy(note, TRUE) + revalued'
    <3>1. PICK taxed \in Nat, net \in Nat, paid \in Nat, gave \in Nat, gives \in Nat :
            /\ taxed = Sum(Taxed, Posted) /\ net = Sum(Billed, Posted) /\ paid = PaidBy(payment)
            /\ gave = CreditsBy(note, FALSE) /\ gives = CreditsBy(note, TRUE)
      BY <2>7
    <3>2. revalued' = revalued + (taxed - gave) - (net - gives)
      BY <2>1, <2>5, <2>6, <3>1
    <3>3. account = taxed - paid - gave + revalued /\ revalued \in Int
      BY <2>8, <3>1
    <3>4. PICK r \in Int : r = revalued
      BY <3>3
    <3>5. revalued' = r + (taxed - gave) - (net - gives) /\ account = taxed - paid - gave + r
      BY <3>2, <3>3, <3>4
    <3>6. revalued' \in Int /\ account = net - paid - gives + revalued'
      BY <3>5
    <3> QED BY <3>1, <3>6
  <2>10. TypeOK'
    <3>1. SettlementTypeOK' /\ note' \in [Notes -> NoteDocs \cup {None}] /\ stock' \in Nat
      BY <2>1, <2>2, <2>3 DEF Protocol, TypeOK
    <3>2. exempt' \in BOOLEAN
      BY <2>1
    <3> QED BY <2>9, <3>1, <3>2 DEF TypeOK
  <2>11. NotesFit' /\ NotesStand'
    BY <2>1 DEF RInv, NotesFit, NotesStand
  <2>12. Ties'
    <3>1. Book(TotalFor(exempt))' = Sum(Billed, Posted) - PaidBy(payment)
      BY <2>1, <2>3 DEF Book, TotalFor
    <3>2. CreditsBy(note, exempt)' = CreditsBy(note, TRUE)
      BY <2>1 DEF CreditsBy, PostedNotesOf, Worth
    <3>3. account' = Sum(Billed, Posted) - PaidBy(payment) - CreditsBy(note, TRUE) + revalued'
      BY <2>1, <2>9
    <3> QED BY <2>1, <3>1, <3>2, <3>3 DEF Ties
  <2> QED BY <2>3, <2>10, <2>11, <2>12 DEF RInv
<1>5. ASSUME NEW q \in CreditQtys, issue_stock(q)
      PROVE  RInv'
  <2>1. UNCHANGED << invoice, account, payment, posting, overlap, note, exempt, revalued >>
    BY <1>5 DEF issue_stock, settlement
  <2>2. account \in Int /\ TypeOK /\ note \in NoteStates
    BY DEF RInv, TypeOK, SettlementTypeOK, NoteStates
  <2>3. Protocol'
    BY <2>1, <2>2, AccountAlone DEF RInv
  <2>4. stock' \in Nat
    <3>1. q \in Nat
      BY ReceivablesAssumption, MaxQtyAssumption DEF Qtys
    <3> QED BY <1>5, <2>2, <3>1 DEF issue_stock, TypeOK
  <2>5. TypeOK'
    BY <2>1, <2>2, <2>3, <2>4 DEF TypeOK, Protocol
  <2>6. NotesFit' /\ NotesStand'
    BY <2>1 DEF RInv, NotesFit, NotesStand
  <2>7. Ties'
    <3>1. CreditsBy(note, exempt) \in Nat
      BY <2>2, CreditsType
    <3>2. account' - account = CreditsBy(note, exempt) - CreditsBy(note', exempt)
      BY <2>1, <2>2, <3>1
    <3> QED BY <2>1, <2>2, <3>2, TiesMove
  <2> QED BY <2>3, <2>5, <2>6, <2>7 DEF RInv
<1> QED BY <1>1, <1>2, <1>3, <1>4, <1>5 DEF Next

----------------------------------------------------------------------------
(* The payables.                                                           *)

\* The sums of the payables are those of the receivables.
LEMMA SameSum == ASSUME NEW f, NEW S PROVE P!Sum(f, S) = Sum(f, S)
<1>1. P!Units(f, S) = Units(f, S)
  BY DEF P!Units, Units
<1>2. P!Cardinality(Units(f, S)) = Cardinality(Units(f, S))
  BY Zenon DEF P!Cardinality, Cardinality
<1> QED BY <1>1, <1>2 DEF P!Sum, Sum

LEMMA PayablesTerms ==
    ASSUME Protocol
    PROVE  /\ P!None = None /\ P!Posted = Posted /\ P!PostedPayments = PostedOf(payment)
           /\ \A p : P!Named(p) = Named(p) /\ P!Awaited(p) = Awaited(p) /\ P!Amount(p) = Amount(p)
           /\ \A i : P!Free(i) <=> Free(i)
           /\ \A i \in Invoices : P!Allocated(i) = SettledBy(payment, i)
           /\ P!Allocations = Allocations
<1>1. P!None = None /\ P!Posted = Posted /\ P!PostedPayments = PostedOf(payment) /\ P!Allocations = Allocations
  BY DEF P!None, None, P!Posted, Posted, P!PostedPayments, PostedOf, P!Allocations, Allocations
<1>2. \A p : P!Named(p) = Named(p) /\ P!Awaited(p) = Awaited(p)
  BY DEF P!Named, Named, P!Awaited, Awaited
<1>3. \A p : P!Amount(p) = Amount(p)
  BY <1>2, SameSum DEF P!Amount, Amount
<1>4. \A i : P!Free(i) <=> Free(i)
  BY <1>1 DEF P!Free, Free
<1>5. ASSUME NEW i \in Invoices PROVE P!Allocated(i) = SettledBy(payment, i)
  <2>1. payment \in Documents
    BY ProtocolTypes
  <2> DEFINE f == [p \in Payments |-> payment[p].alloc[i]]
             T == { p \in PostedOf(payment) : payment[p].alloc[i] > 0 }
  <2>2. P!Allocated(i) = P!Sum(f, T)
    BY <1>1 DEF P!Allocated
  <2>3. Sum(f, T) = SettledBy(payment, i)
    BY <2>1, SettledView
  <2> QED BY <2>2, <2>3, SameSum
<1> QED BY <1>1, <1>2, <1>3, <1>4, <1>5

\* A step of the payables is one of the protocol's, with what payments have
\* settled as what is read.
LEMMA PayablesStep ==
    ASSUME Protocol, P!Next
    PROVE  /\ P!paid_amounts \in [Invoices -> Int] /\ \A i \in Invoices : SettledBy(payment, i) <= P!paid_amounts[i]
           /\ Steps(P!paid_amounts, Bills)
<1>1. P!paid_amounts \in [Invoices -> Int] /\ \A i \in Invoices : SettledBy(payment, i) <= P!paid_amounts[i]
  BY PayablesTerms, ProtocolTypes DEF P!paid_amounts
<1>2. CASE P!InvoiceStep
  <2>1. PICK i \in Invoices : \/ P!create_invoice(i) \/ P!delete_invoice(i) \/ P!post_invoice(i, Bills)
                             \/ P!cancel_invoice(i, P!paid_amounts, Bills)
    BY <1>2 DEF P!InvoiceStep
  <2>2. P!create_invoice(i) => create_invoice(i)
    BY DEF P!create_invoice, create_invoice
  <2>3. P!delete_invoice(i) => delete_invoice(i)
    BY DEF P!delete_invoice, delete_invoice
  <2>4. P!post_invoice(i, Bills) => post_invoice(i, Bills)
    BY DEF P!post_invoice, post_invoice
  <2>5. P!cancel_invoice(i, P!paid_amounts, Bills) => cancel_invoice(i, P!paid_amounts, Bills)
    BY PayablesTerms DEF P!cancel_invoice, cancel_invoice
  <2>6. \/ create_invoice(i) \/ delete_invoice(i) \/ post_invoice(i, Bills)
        \/ cancel_invoice(i, P!paid_amounts, Bills)
    BY <2>1, <2>2, <2>3, <2>4, <2>5
  <2> QED BY <1>1, <2>6 DEF Steps
<1>3. CASE P!PaymentStep
  <2>1. PICK p \in Payments : \/ \E alloc \in Allocations : P!create_draft(p, alloc) \/ P!update_draft(p, alloc)
                             \/ P!delete_draft(p) \/ P!reverse(p)
    BY <1>3, PayablesTerms DEF P!PaymentStep
  <2>2. ASSUME NEW alloc \in Allocations, P!create_draft(p, alloc) \/ P!update_draft(p, alloc)
        PROVE  create_draft(p, alloc) \/ update_draft(p, alloc)
    BY <2>2, PayablesTerms DEF P!create_draft, P!update_draft, P!Editable, create_draft, update_draft, Editable
  <2>3. P!delete_draft(p) => delete_draft(p)
    BY PayablesTerms DEF P!delete_draft, P!Editable, delete_draft, Editable
  <2>4. P!reverse(p) => reverse(p)
    BY PayablesTerms DEF P!reverse, reverse
  <2>5. \/ \E alloc \in Allocations : create_draft(p, alloc) \/ update_draft(p, alloc)
        \/ delete_draft(p) \/ reverse(p)
    BY <2>1, <2>2, <2>3, <2>4
  <2> QED BY <1>1, <2>5 DEF Steps
<1>4. ASSUME NEW p \in Payments, P!post_payment(p)
      PROVE  Steps(P!paid_amounts, Bills)
  <2>1. P!post_begin(p, P!paid_amounts) => post_begin(p, P!paid_amounts)
    BY PayablesTerms DEF P!post_begin, P!Editable, post_begin, Editable
  <2>2. ASSUME NEW i \in Invoices, P!post_lock(p, i, Bills) PROVE post_lock(p, i, Bills)
    BY <2>2, PayablesTerms DEF P!post_lock, P!Fits, post_lock, Fits
  <2>3. P!post_refuse(p, Bills) => post_refuse(p, Bills)
    BY PayablesTerms DEF P!post_refuse, P!Fits, post_refuse, Fits
  <2>4. P!post_deadlock(p) => post_deadlock(p)
    BY PayablesTerms DEF P!post_deadlock, post_deadlock
  <2>5. P!post_commit(p) => post_commit(p)
    BY PayablesTerms DEF P!post_commit, post_commit
  <2>6. post(p, P!paid_amounts, Bills)
    BY <1>4, <2>1, <2>2, <2>3, <2>4, <2>5 DEF P!post_payment, P!post, post
  <2> QED BY <2>6 DEF Steps
<1> QED BY <1>1, <1>2, <1>3, <1>4 DEF P!Next

----------------------------------------------------------------------------
(* Both ledgers.                                                           *)

\* The invariant of a behaviour, which is that of one of the ledgers.
SettlementInv ==
    /\ Protocol /\ TypeOK /\ NotesFit
    /\ ledger = "payable" => Fit(Bills) /\ account = Book(Bills)
    /\ ledger # "payable" => NotesStand /\ Ties

LEMMA SettlementInitially == MCInit => SettlementInv
<1> SUFFICES ASSUME MCInit PROVE SettlementInv
  OBVIOUS
<1>1. /\ invoice = [i \in Invoices |-> "none"] /\ account = 0
      /\ payment = [p \in Payments |-> None] /\ posting = [p \in Payments |-> None]
      /\ note = [n \in Notes |-> None] /\ exempt = FALSE /\ revalued = 0 /\ stock = 0
      /\ overlap \in BOOLEAN
  BY SettlementAssumption DEF MCInit, Init, SettlementInit
<1>2. None.status = "none"
  BY DEF None
<1>3. PostedOf(payment) = {} /\ Posted = {} /\ PostedNotesOf(note) = {} /\ \A i : NotesFor(note, i) = {}
  BY <1>1, <1>2 DEF PostedOf, Posted, PostedNotesOf, NotesFor
<1>4. \A f : Sum(f, {}) = 0
  <2> SUFFICES ASSUME NEW f PROVE Sum(f, {}) = 0
    OBVIOUS
  <2>1. \A l \in {} : f[l] = 0
    OBVIOUS
  <2> QED BY <2>1, SumZero
<1>5. /\ \A i \in Invoices : SettledBy(payment, i) = 0
      /\ PaidBy(payment) = 0 /\ \A ex : CreditsBy(note, ex) = 0
      /\ \A i : CreditedBy(note, i) = 0
      /\ \A total : Book(total) = 0
  <2>1. /\ \A i \in Invoices : SettledBy(payment, i) = 0
        /\ PaidBy(payment) = 0 /\ \A ex : CreditsBy(note, ex) = 0
        /\ \A i : CreditedBy(note, i) = 0
    BY <1>3, <1>4 DEF SettledBy, PaidBy, CreditsBy, CreditedBy
  <2>2. ASSUME NEW total PROVE Book(total) = 0
    <3>1. Sum(total, Posted) = 0
      BY <1>3, <1>4
    <3> QED BY <2>1, <3>1 DEF Book
  <2> QED BY <2>1, <2>2
<1>6. SettlementTypeOK /\ TypeOK
  <2>1. /\ invoice \in [Invoices -> {"none", "draft", "posted", "cancelled"}]
        /\ payment \in [Payments -> PaymentDocs \cup {None}] /\ posting \in [Payments -> Postings \cup {None}]
        /\ note \in [Notes -> NoteDocs \cup {None}]
    BY <1>1
  <2>2. account \in Int /\ revalued \in Int /\ stock \in Nat
    BY <1>1
  <2>3. exempt \in BOOLEAN /\ overlap \in BOOLEAN
    BY <1>1, Zenon
  <2>4. SettlementTypeOK
    BY <2>1, <2>2, <2>3 DEF SettlementTypeOK
  <2> QED BY <2>1, <2>2, <2>3, <2>4 DEF TypeOK
<1>7. Protocol
  BY <1>1, <1>3, <1>6 DEF Protocol, PostingsHold, SettledStand, Alone, SeenCovers
<1>8. \A i \in Invoices : Billed[i] \in Nat /\ Taxed[i] \in Nat /\ Bills[i] \in Nat
  BY <1>6, Totals, BillsAssumption, MaxQtyAssumption DEF Qtys
<1>9. NotesFit /\ NotesStand
  BY <1>3, <1>5, <1>8 DEF NotesFit, NotesStand
<1>10. Fit(Bills) /\ Fit(Taxed)
  BY <1>1, <1>5, <1>8 DEF Fit
<1>11. account = Book(Bills) /\ account = Book(TotalFor(exempt)) - CreditsBy(note, exempt) + revalued
  <2>1. Book(Bills) = 0 /\ Book(TotalFor(exempt)) = 0 /\ CreditsBy(note, exempt) = 0
    BY <1>5
  <2> QED BY <1>1, <2>1
<1> QED BY <1>6, <1>7, <1>9, <1>10, <1>11 DEF SettlementInv, Ties

LEMMA SettlementKept == SettlementInv /\ [MCNext]_<< vars, ledger >> => SettlementInv'
<1> SUFFICES ASSUME SettlementInv, [MCNext]_<< vars, ledger >> PROVE SettlementInv'
  OBVIOUS
<1>1. ASSUME UNCHANGED << vars, ledger >> PROVE SettlementInv'
  <2>1. UNCHANGED << invoice, account, payment, posting, overlap, note, exempt, revalued, stock, ledger >>
    BY <1>1 DEF vars, settlement
  <2>2. Protocol' /\ TypeOK' /\ NotesFit' /\ (NotesStand => NotesStand') /\ (Ties => Ties')
    BY <2>1 DEF SettlementInv, Protocol, SettlementTypeOK, PostingsHold, SettledStand, Alone, SeenCovers, TypeOK,
                NotesFit, NotesStand, Ties, Fit, Book, Posted, TotalFor, CreditsBy, PostedNotesOf
  <2>3. (Fit(Bills) => Fit(Bills)') /\ Book(Bills)' = Book(Bills)
    BY <2>1 DEF Fit, Book, Posted
  <2> QED BY <2>1, <2>2, <2>3 DEF SettlementInv
<1>2. ASSUME ledger # "payable", Next, UNCHANGED ledger PROVE SettlementInv'
  <2>1. RInv
    BY <1>2 DEF SettlementInv, RInv
  <2>2. RInv'
    BY <1>2, <2>1, ReceivablesKeep
  <2> QED BY <1>2, <2>2 DEF SettlementInv, RInv
<1>3. ASSUME ledger = "payable", P!Next, UNCHANGED rest, UNCHANGED ledger PROVE SettlementInv'
  <2>1. PICK s : s = P!paid_amounts
    OBVIOUS
  <2>2. /\ s \in [Invoices -> Int] /\ \A i \in Invoices : SettledBy(payment, i) <= s[i]
        /\ Steps(s, Bills)
    BY <1>3, <2>1, PayablesStep DEF SettlementInv
  <2>3. Keeps(Bills)
    BY <2>2, StepsKeep, BillsAssumption DEF SettlementInv
  <2>4. /\ Protocol' /\ (Fit(Bills) => Fit(Bills)')
        /\ account' - account = Book(Bills)' - Book(Bills)
    BY <2>3 DEF Keeps
  <2>5. Book(Bills) \in Int /\ Book(Bills)' \in Int /\ account' \in Int
    <3>1. payment' \in Documents /\ account' \in Int
      BY <2>4 DEF Protocol, SettlementTypeOK, Documents
    <3>2. IsFiniteSet(Posted')
      BY SettlementAssumption, FS_Subset DEF Posted
    <3>3. PaidBy(payment') \in Nat /\ Sum(Bills, Posted') \in Nat
      BY <3>1, <3>2, SettledType, SumType
    <3>4. Book(Bills)' = Sum(Bills, Posted') - PaidBy(payment')
      BY DEF Book
    <3>5. Book(Bills) \in Int
      BY ProtocolTypes DEF SettlementInv, Book
    <3> QED BY <3>1, <3>3, <3>4, <3>5
  <2>6. Fit(Bills)' /\ account' = Book(Bills)'
    BY <1>3, <2>4, <2>5 DEF SettlementInv
  <2>7. TypeOK' /\ NotesFit'
    BY <1>3, <2>4 DEF SettlementInv, rest, TypeOK, Protocol, NotesFit
  <2> QED BY <1>3, <2>4, <2>6, <2>7 DEF SettlementInv
<1> QED BY <1>1, <1>2, <1>3 DEF MCNext

\* In either ledger the control account is what the documents say.
LEMMA InvTies == SettlementInv => AccountsTie
<1> SUFFICES ASSUME SettlementInv PROVE AccountsTie
  OBVIOUS
<1>1. Protocol /\ TypeOK
  BY DEF SettlementInv
<1>2. Sum([p \in Payments |-> Amount(p)], PostedPayments) = PaidBy(payment)
  <2> DEFINE f == [p \in Payments |-> Amount(p)]
             g == [p \in Payments |-> AmountOf(payment[p].alloc)]
  <2>1. PostedPayments = PostedOf(payment) /\ f = g
    BY DEF PostedPayments, PostedOf, Amount, AmountOf, Named
  <2> HIDE DEF f, g
  <2>2. Sum(f, PostedPayments) = Sum(g, PostedOf(payment))
    BY <2>1
  <2> QED BY <2>2 DEF PaidBy, f, g
<1>3. CASE ledger = "payable"
  <2>1. account = Sum(Bills, Posted) - PaidBy(payment)
    BY <1>3 DEF SettlementInv, Book
  <2>2. P!Sum(Bills, P!Posted) = Sum(Bills, Posted)
    BY <1>1, PayablesTerms, SameSum
  <2>3. P!Sum([p \in Payments |-> P!Amount(p)], P!PostedPayments) = PaidBy(payment)
    <3>1. [p \in Payments |-> P!Amount(p)] = [p \in Payments |-> Amount(p)]
      BY <1>1, PayablesTerms
    <3>2. P!PostedPayments = PostedPayments
      BY <1>1, PayablesTerms DEF PostedPayments, PostedOf
    <3>3. P!Sum([p \in Payments |-> P!Amount(p)], P!PostedPayments)
            = Sum([p \in Payments |-> Amount(p)], PostedPayments)
      BY <3>1, <3>2, SameSum
    <3> QED BY <1>2, <3>3
  <2> QED BY <1>3, <2>1, <2>2, <2>3 DEF AccountsTie, P!AccountTies
<1>4. CASE ledger # "payable"
  <2>1. account = Sum(TotalFor(exempt), Posted) - PaidBy(payment) - CreditsBy(note, exempt) + revalued
    BY <1>4 DEF SettlementInv, Ties, Book
  <2>2. Owed = Sum(TotalFor(exempt), Posted) - CreditsBy(note, exempt)
    BY <1>1, OwedView
  <2>3. /\ Sum(TotalFor(exempt), Posted) \in Nat /\ PaidBy(payment) \in Nat
        /\ CreditsBy(note, exempt) \in Nat /\ revalued \in Int
    BY <1>1, ProtocolTypes, CreditsType DEF TypeOK, NoteStates
  <2>4. account = Owed + revalued - PaidBy(payment)
    BY <2>1, <2>2, <2>3
  <2> QED BY <1>2, <1>4, <2>4 DEF AccountsTie, AccountTies
<1> QED BY <1>3, <1>4

\* What settles an invoice fits it.
LEMMA InvFits == SettlementInv => SettlementsFit
<1> SUFFICES ASSUME SettlementInv PROVE SettlementsFit
  OBVIOUS
<1>1. Protocol /\ TypeOK
  BY DEF SettlementInv
<1>2. CreditedWithinBilled
  BY CreditedView DEF SettlementInv, NotesFit, CreditedWithinBilled
<1>3. PostedPayments = PostedOf(payment) /\ \A i \in Invoices : Allocated(i) = SettledBy(payment, i)
  BY <1>1, ProtocolTypes, SettledView DEF Allocated, PostedPayments, PostedOf
<1>4. SettledWithinTotal
  <2>1. CASE ledger = "payable"
    BY <1>1, <2>1, PayablesTerms DEF SettlementInv, Fit, SettledWithinTotal, P!NeverOverPaid
  <2>2. CASE ledger # "payable"
    BY <1>1, <1>3, <2>2, Totals DEF SettlementInv, Ties, TotalFor, Fit, SettledWithinTotal, NeverOverPaid
  <2> QED BY <2>1, <2>2
<1>5. SettledInvoicesStand
  <2>1. CASE ledger = "payable"
    BY <1>1, <2>1, PayablesTerms DEF Protocol, SettledStand, SettledInvoicesStand, P!PaidInvoicesStand
  <2>2. CASE ledger # "payable"
    <3>1. NotesStand /\ SettledStand
      BY <2>2 DEF SettlementInv, Protocol
    <3>2. \A i : PostedNotes(i) = { n \in PostedNotesOf(note) : note[n].invoice = i }
      BY DEF PostedNotes, PostedNotesOf
    <3> QED BY <1>3, <2>2, <3>1, <3>2 DEF NotesStand, SettledStand, SettledInvoicesStand, PaidInvoicesStand
  <2> QED BY <2>1, <2>2
<1> QED BY <1>1, <1>2, <1>4, <1>5 DEF SettlementsFit

\* The account of either ledger says what its documents say: posted invoices
\* less what posted payments and posted credit notes settle of them, whatever
\* is posted, reversed and cancelled in whatever order.  Where the customer was
\* made exempt, which books nothing, it differs by what the documents posted by
\* then came to less from that moment, and never by more.
THEOREM AccountsAreTied == MCSpec => []AccountsTie
<1> QED BY SettlementInitially, SettlementKept, InvTies, PTL DEF MCSpec

\* What settles an invoice fits it: payments whose postings do not overlap
\* settle no more than its total, credit notes no more than was billed, and
\* nothing settles an invoice that was cancelled, overlap or not.
THEOREM SettlementsAreFit == MCSpec => []SettlementsFit
<1> QED BY SettlementInitially, SettlementKept, InvFits, PTL DEF MCSpec
=============================================================================
