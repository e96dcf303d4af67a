---------------------------- MODULE MCSettlement ---------------------------
(***************************************************************************)
(* A behaviour is that of one of the two ledgers, chosen at the start: they *)
(* share the protocol of their payments and no state.  Two payments meet    *)
(* one credit note, and two credit notes one payment.                       *)
(***************************************************************************)
EXTENDS Receivables, TLC

CONSTANTS
    Bills,      \* what each supplier invoice comes to
    i1, i2, p2, n2

ASSUME BillsAssumption == Bills \in [Invoices -> Qtys]

VARIABLE ledger

MCBills == (i1 :> 4) @@ (i2 :> 2)

P == INSTANCE Payables WITH Billed <- Bills

MCBilled == (i1 :> 2) @@ (i2 :> 1)
MCAmounts == {2, 4}

MCInit == Init /\ ledger \in {"payments", "credits", "payable"}

MCNext ==
    /\ UNCHANGED ledger
    /\ \/ ledger = "payments" /\ Next /\ note'[n2] = None
       \/ ledger = "credits" /\ Next /\ payment'[p2] = None
       \/ ledger = "payable" /\ P!Next /\ UNCHANGED rest

Goes(p) ==
    /\ posting[p] # None
    /\ IF ledger = "payable" THEN P!post_payment(p) /\ UNCHANGED rest ELSE post_payment(p)
    /\ UNCHANGED ledger

MCFairness == \A p \in Payments : SF_<< vars, ledger >>(Goes(p))

MCSpec == MCInit /\ [][MCNext]_<< vars, ledger >> /\ MCFairness

----------------------------------------------------------------------------

\* In either ledger the control account is what the documents say, and in the
\* receivables the tax that was on them when the customer became exempt.
AccountsTie == IF ledger = "payable" THEN P!AccountTies ELSE AccountTies

\* In either ledger, nothing settles an invoice that was cancelled.
SettledInvoicesStand == IF ledger = "payable" THEN P!PaidInvoicesStand ELSE PaidInvoicesStand

\* In either ledger, postings that do not overlap never settle more of an
\* invoice than its total.
SettledWithinTotal == IF ledger = "payable" THEN P!NeverOverPaid ELSE NeverOverPaid

\* What settles an invoice fits it: no more is paid than its total, no more is
\* credited than was billed, and nothing settles what was cancelled.
SettlementsFit == TypeOK /\ SettledWithinTotal /\ CreditedWithinBilled /\ SettledInvoicesStand

\* A posting ends, committed, refused or made to fail, whatever invoices two
\* postings lock in opposite orders and whatever is cancelled meanwhile.
PostingEnds == \A p \in Payments : posting[p] # None ~> posting[p] = None

\* What the comments of both services promise (sales/payment.rs and
\* procurement/payment.rs): two postings together do not over-settle.
NeverOverSettled == ~exempt => \A i \in Invoices :
    Allocated(i) <= (IF ledger = "payable" THEN Bills ELSE invoice_total)[i]

=============================================================================
