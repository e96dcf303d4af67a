---------------------------- MODULE Settlement -----------------------------
(***************************************************************************)
(* How a payment is posted against the invoices it is allocated to: the    *)
(* protocol customer and supplier payments share                           *)
(* (crates/nebula-apps/src/scm/sales/payment.rs and                        *)
(* procurement/payment.rs).                                                *)
(*                                                                         *)
(* A payment locks its own row, reads what is settled of its invoices,     *)
(* then locks them one after the other, in the order a hash map gives, and *)
(* checks each against what it read before.  Two postings that wait for    *)
(* each other are told apart by the database, which makes one fail.  The   *)
(* three queries that add up what is settled are one read.                 *)
(***************************************************************************)
EXTENDS LineSums, Integers

CONSTANTS
    Invoices,
    Payments,
    Amounts,        \* what a payment may allocate to an invoice
    Overlaps        \* may postings overlap: a subset of BOOLEAN

ASSUME SettlementAssumption ==
    /\ IsFiniteSet(Invoices) /\ IsFiniteSet(Payments)
    /\ Amounts \subseteq Qtys \ {0}
    /\ Overlaps \subseteq BOOLEAN
    \* what a payment comes to fits its column
    /\ \A alloc \in [Invoices -> Amounts \cup {0}] : Sum(alloc, Invoices) <= MaxQty

VARIABLES
    invoice,    \* invoice[i]: its status
    account,    \* the balance of the control account in the general ledger
    payment,    \* payment[p]: its status and its allocations
    posting,    \* posting[p]: what a posting has read and which invoices it holds
    overlap     \* whether a posting may begin before another has ended

settlement == << invoice, account, payment, posting, overlap >>

None == [status |-> "none"]
Allocations == [Invoices -> Amounts \cup {0}]
PaymentDocs == [status : {"draft", "posted", "reversed"}, alloc : Allocations]
Postings == [status : {"posting"}, seen : [Invoices -> Int], held : SUBSET Invoices]

SettlementTypeOK ==
    /\ invoice \in [Invoices -> {"none", "draft", "posted", "cancelled"}]
    /\ account \in Int
    /\ payment \in [Payments -> PaymentDocs \cup {None}]
    /\ posting \in [Payments -> Postings \cup {None}]
    /\ overlap \in BOOLEAN

SettlementInit ==
    /\ invoice = [i \in Invoices |-> "none"]
    /\ account = 0
    /\ payment = [p \in Payments |-> None]
    /\ posting = [p \in Payments |-> None]
    /\ overlap \in Overlaps

Named(p) == { i \in Invoices : payment[p].alloc[i] > 0 }
Awaited(p) == Named(p) \ posting[p].held

\* Nobody holds the row of an invoice.
Free(i) == \A p \in Payments : posting[p] # None => i \notin posting[p].held

Posted == { i \in Invoices : invoice[i] = "posted" }
PostedPayments == { p \in Payments : payment[p].status = "posted" }

\* What posted payments have settled of an invoice.
Allocated(i) == Sum([p \in Payments |-> payment[p].alloc[i]], { p \in PostedPayments : payment[p].alloc[i] > 0 })

\* The amount of a payment is the sum of its allocations.
Amount(p) == Sum(payment[p].alloc, Named(p))

----------------------------------------------------------------------------
(* Invoices, as far as settling them goes.                                 *)

create_invoice(i) ==
    /\ invoice[i] = "none"
    /\ invoice' = [invoice EXCEPT ![i] = "draft"]
    /\ UNCHANGED << account, payment, posting, overlap >>

delete_invoice(i) ==
    /\ invoice[i] = "draft"
    /\ invoice' = [invoice EXCEPT ![i] = "none"]
    /\ UNCHANGED << account, payment, posting, overlap >>

post_invoice(i, total) ==
    /\ invoice[i] = "draft"
    /\ invoice' = [invoice EXCEPT ![i] = "posted"]
    /\ account' = account + total[i]
    /\ UNCHANGED << payment, posting, overlap >>

\* The row is locked, then the sums are read.
cancel_invoice(i, settled, total) ==
    /\ invoice[i] = "posted" /\ Free(i)
    /\ settled[i] = 0
    /\ invoice' = [invoice EXCEPT ![i] = "cancelled"]
    /\ account' = account - total[i]
    /\ UNCHANGED << payment, posting, overlap >>

----------------------------------------------------------------------------
(* Payments.                                                               *)

\* The draft editors refuse an allocation that does not fit what is open now.
validate_payment(alloc, settled, total) ==
    /\ \E i \in Invoices : alloc[i] > 0
    /\ \A i \in Invoices : alloc[i] > 0 => i \in Posted /\ settled[i] + alloc[i] <= total[i]

create_draft(p, alloc) ==
    /\ payment[p] = None
    /\ payment' = [payment EXCEPT ![p] = [status |-> "draft", alloc |-> alloc]]
    /\ UNCHANGED << invoice, account, posting, overlap >>

Editable(p) == payment[p].status = "draft" /\ posting[p] = None

update_draft(p, alloc) ==
    /\ Editable(p)
    /\ payment' = [payment EXCEPT ![p].alloc = alloc]
    /\ UNCHANGED << invoice, account, posting, overlap >>

delete_draft(p) ==
    /\ Editable(p)
    /\ payment' = [payment EXCEPT ![p] = None]
    /\ UNCHANGED << invoice, account, posting, overlap >>

\* The sums are read before any invoice is locked.
post_begin(p, settled) ==
    /\ Editable(p)
    /\ overlap \/ \A q \in Payments : posting[q] = None
    /\ posting' = [posting EXCEPT ![p] = [status |-> "posting", seen |-> settled, held |-> {}]]
    /\ UNCHANGED << invoice, account, payment, overlap >>

\* MUTANT of Fits: earlier payments are forgotten.
Fits_Alone(p, i, total) == i \in Posted /\ payment[p].alloc[i] <= total[i]

\* The check under the lock of an invoice is against the sum read before.
Fits(p, i, total) == i \in Posted /\ posting[p].seen[i] + payment[p].alloc[i] <= total[i]

post_lock(p, i, total) ==
    /\ posting[p] # None
    /\ i \in Awaited(p) /\ Free(i)
    /\ Fits(p, i, total)
    /\ posting' = [posting EXCEPT ![p].held = @ \cup {i}]
    /\ UNCHANGED << invoice, account, payment, overlap >>

\* MUTANT of post_refuse: an invoice that is not posted any more is skipped.
post_refuse_Skip(p, total) ==
    /\ posting[p] # None
    /\ \E i \in Awaited(p) \cap Posted : Free(i) /\ ~Fits(p, i, total)
    /\ posting' = [posting EXCEPT ![p] = None]
    /\ UNCHANGED << invoice, account, payment, overlap >>

\* An invoice that does not fit ends the transaction.
post_refuse(p, total) ==
    /\ posting[p] # None
    /\ \E i \in Awaited(p) : Free(i) /\ ~Fits(p, i, total)
    /\ posting' = [posting EXCEPT ![p] = None]
    /\ UNCHANGED << invoice, account, payment, overlap >>

\* The database fails one of two postings that wait for each other.
post_deadlock(p) ==
    /\ posting[p] # None
    /\ \E q \in Payments \ {p} :
         /\ posting[q] # None
         /\ Awaited(p) \cap posting[q].held # {} /\ Awaited(q) \cap posting[p].held # {}
    /\ posting' = [posting EXCEPT ![p] = None]
    /\ UNCHANGED << invoice, account, payment, overlap >>

post_commit(p) ==
    /\ posting[p] # None
    /\ Awaited(p) = {}
    /\ payment' = [payment EXCEPT ![p].status = "posted"]
    /\ posting' = [posting EXCEPT ![p] = None]
    /\ account' = account - Amount(p)
    /\ UNCHANGED << invoice, overlap >>

post(p, settled, total) ==
    \/ post_begin(p, settled)
    \/ \E i \in Invoices : post_lock(p, i, total)
    \/ post_refuse(p, total)
    \/ post_deadlock(p)
    \/ post_commit(p)

reverse(p) ==
    /\ payment[p].status = "posted"
    /\ payment' = [payment EXCEPT ![p].status = "reversed"]
    /\ account' = account + Amount(p)
    /\ UNCHANGED << invoice, posting, overlap >>

=============================================================================
