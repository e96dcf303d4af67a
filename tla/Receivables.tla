---------------------------- MODULE Receivables ----------------------------
(***************************************************************************)
(* What customers owe: sales invoices, the credit notes against them and   *)
(* the payments that settle them                                           *)
(* (crates/nebula-apps/src/scm/sales/invoice.rs, credit_note.rs and        *)
(* payment.rs), with the receivable account the general ledger keeps.      *)
(*                                                                         *)
(* Totals are never stored: every read computes them from the lines, the   *)
(* tax rates and the tax status of the customer as they are now.  Posting  *)
(* and cancelling an invoice and posting a credit note lock the invoice    *)
(* row and read after it; what an invoice may bill is SalesFulfilment's.   *)
(* Goods a credit note takes back enter stock, and leave it when the note  *)
(* is cancelled; lots, units and costs are StockMoves' and StockEngine's.  *)
(* All documents are one customer's, in one currency, at a rate of one.    *)
(***************************************************************************)
EXTENDS Settlement

CONSTANTS
    Notes,
    Billed,     \* the quantity an invoice bills, at a price of one
    CreditQtys, \* the quantities a credit note may give
    Prices,     \* the prices a credit note may give for a unit
    Tax         \* the tax on a price of one

ASSUME ReceivablesAssumption ==
    /\ IsFiniteSet(Notes)
    /\ Billed \in [Invoices -> Qtys \ {0}]
    /\ CreditQtys \subseteq Qtys \ {0}
    /\ Prices \subseteq Nat /\ Tax \in Nat
    \* the totals with tax fit their columns
    /\ \A i \in Invoices : Billed[i] * (1 + Tax) <= MaxQty
    /\ \A q \in CreditQtys, price \in Prices : q * price * (1 + Tax) <= MaxQty

VARIABLES
    note,       \* note[n]: a credit note
    exempt,     \* the customer is exempt from tax
    revalued,   \* what the posted documents came to less when it became so
    stock       \* what is on hand of the goods

vars == << settlement, note, exempt, revalued, stock >>

NoteDocs == [status : {"draft", "posted", "cancelled"}, invoice : Invoices,
             qty : CreditQtys, price : Prices, restock : BOOLEAN]

TypeOK ==
    /\ SettlementTypeOK
    /\ note \in [Notes -> NoteDocs \cup {None}]
    /\ exempt \in BOOLEAN /\ revalued \in Int
    /\ stock \in Nat

Init ==
    /\ SettlementInit
    /\ note = [n \in Notes |-> None]
    /\ exempt = FALSE /\ revalued = 0
    /\ stock = 0

----------------------------------------------------------------------------
(* What a document is worth, and what is settled of an invoice.            *)

Gross(net) == IF exempt THEN net ELSE net * (1 + Tax)

invoice_total == [i \in Invoices |-> Gross(Billed[i])]
credit_note_total == [n \in Notes |-> Gross(note[n].qty * note[n].price)]

PostedNotes(i) == { n \in Notes : note[n].status = "posted" /\ note[n].invoice = i }

paid_amounts == [i \in Invoices |-> Allocated(i) + Sum(credit_note_total, PostedNotes(i))]

credited_qty(i) == Sum([n \in Notes |-> note[n].qty], PostedNotes(i))

----------------------------------------------------------------------------
(* Invoices.                                                               *)

rest == << note, exempt, revalued, stock >>

\* A draft blocks the cancellation as a posted note does.
has_credit_notes(i) == \E n \in Notes : note[n].status \in {"draft", "posted"} /\ note[n].invoice = i

InvoiceStep == \E i \in Invoices :
    /\ \/ create_invoice(i)
       \/ delete_invoice(i)
       \/ post_invoice(i, invoice_total)
       \/ ~has_credit_notes(i) /\ cancel_invoice(i, paid_amounts, invoice_total)
    /\ UNCHANGED rest

----------------------------------------------------------------------------
(* Credit notes.                                                           *)

\* No more than was billed can be credited.
Creditable(doc) ==
    /\ invoice[doc.invoice] = "posted"
    /\ credited_qty(doc.invoice) + doc.qty <= Billed[doc.invoice]

create_note(n, doc) ==
    /\ note[n] = None
    /\ Creditable(doc)
    /\ note' = [note EXCEPT ![n] = doc]
    /\ UNCHANGED << settlement, exempt, revalued, stock >>

update_note(n, doc) ==
    /\ note[n].status = "draft" /\ note[n].invoice = doc.invoice
    /\ Creditable(doc)
    /\ note' = [note EXCEPT ![n] = doc]
    /\ UNCHANGED << settlement, exempt, revalued, stock >>

delete_note(n) ==
    /\ note[n].status = "draft"
    /\ note' = [note EXCEPT ![n] = None]
    /\ UNCHANGED << settlement, exempt, revalued, stock >>

\* Returned goods come back in.
post_restock(n) == stock' = IF note[n].restock THEN stock + note[n].qty ELSE stock

post_note(n) ==
    /\ note[n].status = "draft"
    /\ Free(note[n].invoice)
    /\ Creditable(note[n])
    /\ post_restock(n)
    /\ note' = [note EXCEPT ![n].status = "posted"]
    /\ account' = account - credit_note_total[n]
    /\ UNCHANGED << invoice, payment, posting, overlap, exempt, revalued >>

\* They leave again, if they are still there.
reverse_restock(n) ==
    IF note[n].restock THEN stock >= note[n].qty /\ stock' = stock - note[n].qty ELSE UNCHANGED stock

\* MUTANT of cancel_note: the receivable is not booked back.
cancel_note_KeepCredit(n) ==
    /\ note[n].status = "posted"
    /\ reverse_restock(n)
    /\ note' = [note EXCEPT ![n].status = "cancelled"]
    /\ UNCHANGED << settlement, exempt, revalued >>

cancel_note(n) ==
    /\ note[n].status = "posted"
    /\ reverse_restock(n)
    /\ note' = [note EXCEPT ![n].status = "cancelled"]
    /\ account' = account + credit_note_total[n]
    /\ UNCHANGED << invoice, payment, posting, overlap, exempt, revalued >>

----------------------------------------------------------------------------
(* Customer payments.                                                      *)

PaymentStep ==
    /\ \E p \in Payments :
         \/ \E alloc \in Allocations :
              /\ validate_payment(alloc, paid_amounts, invoice_total)
              /\ create_draft(p, alloc) \/ update_draft(p, alloc)
         \/ delete_draft(p)
         \/ reverse(p)
    /\ UNCHANGED rest

post_payment(p) == post(p, paid_amounts, invoice_total) /\ UNCHANGED rest

----------------------------------------------------------------------------

\* What posted invoices and credit notes come to.
Owed == Sum(invoice_total, Posted) - Sum(credit_note_total, { n \in Notes : note[n].status = "posted" })

\* The editor of customers: invoices and notes are taxed anew at once, and
\* nothing is booked.  Going back is left out, which bounds the behaviours.
set_exempt ==
    /\ ~exempt
    /\ exempt' = TRUE
    /\ UNCHANGED << settlement, note, stock >>
    /\ revalued' = revalued + Owed - Owed'

\* The other users of the stock.
issue_stock(q) == q <= stock /\ stock' = stock - q /\ UNCHANGED << settlement, note, exempt, revalued >>

NoteStep ==
    \/ \E n \in Notes, doc \in { d \in NoteDocs : d.status = "draft" } : create_note(n, doc) \/ update_note(n, doc)
    \/ \E n \in Notes : delete_note(n) \/ post_note(n) \/ cancel_note(n)

Next ==
    \/ InvoiceStep \/ NoteStep \/ PaymentStep
    \/ \E p \in Payments : post_payment(p)
    \/ set_exempt
    \/ \E q \in CreditQtys : issue_stock(q)

\* A posting that has begun goes on: the database answers every statement, and
\* grants the lock of a row to those that wait for it in turn.
Fairness == \A p \in Payments : SF_vars(posting[p] # None /\ post_payment(p))

Spec == Init /\ [][Next]_vars /\ Fairness

----------------------------------------------------------------------------

\* The account says what the documents say, posted invoices less posted credit
\* notes less posted payments, and what they came to more when the tax on them
\* changed: a later cancellation books back what its document comes to by then.
AccountTies == account = Owed + revalued - Sum([p \in Payments |-> Amount(p)], PostedPayments)

\* Nothing settles an invoice that was cancelled: no posted payment and no
\* posted credit note names an invoice that is not posted, however postings
\* and cancellations interleave.
PaidInvoicesStand ==
    \A i \in Invoices :
        (\E p \in PostedPayments : payment[p].alloc[i] > 0) \/ PostedNotes(i) # {} => invoice[i] = "posted"

\* Payments settle no more of an invoice than its total, if their postings do
\* not overlap and the tax on it never changed.
NeverOverPaid == ~overlap /\ ~exempt => \A i \in Invoices : Allocated(i) <= invoice_total[i]

\* However many credit notes are drafted and posted against an invoice,
\* together they credit no more than it billed.
CreditedWithinBilled == \A i \in Invoices : credited_qty(i) <= Billed[i]

=============================================================================
