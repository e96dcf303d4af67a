------------------------------ MODULE Payables -----------------------------
(***************************************************************************)
(* What the tenant owes its suppliers: purchase invoices and the payments  *)
(* that settle them                                                        *)
(* (crates/nebula-apps/src/scm/procurement/invoice.rs and payment.rs),     *)
(* with the payable account of the general ledger, credits counted         *)
(* positive.  The total of a bill is fixed by its lines and its header.    *)
(* Its match against what was received is Procurement's.                   *)
(***************************************************************************)
EXTENDS Settlement

CONSTANT Billed     \* what each bill comes to

vars == settlement

TypeOK == SettlementTypeOK

Init == SettlementInit

\* Purchase credit notes do not exist: payments are all that settles a bill.
paid_amounts == [i \in Invoices |-> Allocated(i)]

InvoiceStep == \E i \in Invoices :
    \/ create_invoice(i)
    \/ delete_invoice(i)
    \/ post_invoice(i, Billed)
    \/ cancel_invoice(i, paid_amounts, Billed)

PaymentStep == \E p \in Payments :
    \/ \E alloc \in Allocations :
         /\ validate_payment(alloc, paid_amounts, Billed)
         /\ create_draft(p, alloc) \/ update_draft(p, alloc)
    \/ delete_draft(p)
    \/ reverse(p)

post_payment(p) == post(p, paid_amounts, Billed)

Next == InvoiceStep \/ PaymentStep \/ \E p \in Payments : post_payment(p)

----------------------------------------------------------------------------

\* The account says what the documents say: posted bills less posted payments.
AccountTies == account = Sum(Billed, Posted) - Sum([p \in Payments |-> Amount(p)], PostedPayments)

\* No posted payment names a bill that is not posted, however the posting and
\* the cancellation interleave.
PaidInvoicesStand == \A i \in Invoices : (\E p \in PostedPayments : payment[p].alloc[i] > 0) => invoice[i] = "posted"

\* Payments settle no more of a bill than its total, if their postings do not
\* overlap.
NeverOverPaid == ~overlap => \A i \in Invoices : Allocated(i) <= Billed[i]

=============================================================================
