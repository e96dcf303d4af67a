------------------------------ MODULE Takings -------------------------------
(***************************************************************************)
(* The money of one till session, from the price of a line to the entry    *)
(* its close books (crates/nebula-apps/src/scm/pos: sale.rs, session.rs).  *)
(*                                                                         *)
(* Amounts are tenths of a cent, so that rounding to the cent happens.     *)
(* Prices include the tax.                                                 *)
(***************************************************************************)
EXTENDS Integers, Sequences, FiniteSets, FiniteSetsExt

CONSTANTS
    Baskets,        \* what is sold at once: sequences of [qty, discount_pct, rate]
    Prices,         \* prices a till shows and the server resolves
    Splits,         \* [cash, mpesa]: how the tenders depart from all cash
    Variances,      \* what a drawer counts over what is expected
    MaxReceipts     \* bound: the sales and refunds of the session

VARIABLES
    price,          \* the price the server resolves now
    receipts,       \* the sales and refunds, as they were stored
    entry           \* the lines the close of the session books

till == << price, receipts, entry >>

\* The cent nearest to n / d tenths, the even one of two (Decimal::round_dp).
Money(n, d) ==
    LET q == n \div (10 * d)
        r == 2 * (n - 10 * d * q) IN
    10 * (IF r > 10 * d \/ (r = 10 * d /\ q % 2 = 1) THEN q + 1 ELSE q)

Tally(f, S) == MapThenSumSet(LAMBDA x : f[x], S)

Column(rows, field, S) == Tally([i \in S |-> rows[i][field]], S)

Sum(lines, field) == Column(lines, field, DOMAIN lines)

Sales == { n \in DOMAIN receipts : receipts[n].kind = "sale" /\ receipts[n].status = "captured" }
Refunds == { n \in DOMAIN receipts : receipts[n].kind = "refund" /\ receipts[n].status = "captured" }
RefundsOf(n) == { r \in Refunds : receipts[r].refund_of = n }

----------------------------------------------------------------------------

effective_gross(line, unit_price) == Money(line.qty * unit_price * (100 - line.discount_pct), 100)

\* The tax is extracted from the gross.
tax_inside(gross, rate) == Money(gross * rate, 100 + rate)

compute_totals(basket, unit_price) ==
    [i \in DOMAIN basket |->
        LET gross == effective_gross(basket[i], unit_price) IN
        [qty |-> basket[i].qty, net |-> gross, tax |-> tax_inside(gross, basket[i].rate)]]

\* Only the sum is compared to the total, and rounded.
validate_tenders(tenders, total) ==
    /\ tenders.cash >= 0 /\ tenders.mpesa >= 0 /\ tenders.cash + tenders.mpesa > 0
    /\ Money(tenders.cash + tenders.mpesa, 1) = Money(total, 1)

\* The order is stored with its totals and payments rounded, one for one.
insert_order(kind, lines, tenders, refund_of, drift) ==
    receipts' = Append(receipts,
        [kind |-> kind, status |-> "captured", lines |-> lines, drift |-> drift, refund_of |-> refund_of,
         total |-> Money(Sum(lines, "net"), 1), tax |-> Money(Sum(lines, "tax"), 1),
         cash |-> Money(tenders.cash, 1), mpesa |-> Money(tenders.mpesa, 1)])

\* A price that is not the server's is refused, but of a sale that has already
\* happened offline: it stands, and its drift is flagged.
capture ==
    \E basket \in Baskets, shown \in Prices, offline \in BOOLEAN, split \in Splits :
        /\ entry = << >> /\ Len(receipts) < MaxReceipts
        /\ shown = price \/ offline
        /\ \E lines \in { compute_totals(basket, shown) } :
            LET total == Sum(lines, "net")
                tenders == [cash |-> total - split.cash, mpesa |-> split.mpesa] IN
            /\ validate_tenders(tenders, total)
            /\ insert_order("sale", lines, tenders, 0, shown # price)
        /\ UNCHANGED << price, entry >>

\* What the refunds of a sale add up to, on one of its lines.
Back(n, i, field) == Tally([r \in RefundsOf(n) |-> receipts[r].lines[i][field]], RefundsOf(n))

refunded_qty(n, i) == Back(n, i, "qty")

\* MUTANT of share: the share is of what was sold at the price of today.
share_Today(line, qty, v) == Money(qty * price, 1)

\* The share of the line's money, not a price of today.
share(line, qty, v) == Money(v * qty, line.qty)

refunded_lines(n, qtys) ==
    [i \in DOMAIN qtys |->
        LET l == receipts[n].lines[i] IN
        [qty |-> qtys[i], net |-> share(l, qtys[i], l.net), tax |-> share(l, qtys[i], l.tax)]]

Sold(n) == { receipts[n].lines[i].qty : i \in DOMAIN receipts[n].lines }

refund ==
    \E n \in Sales, tender \in {"cash", "mpesa"} :
        \E qtys \in [DOMAIN receipts[n].lines -> UNION { 0..q : q \in Sold(n) }] :
            /\ entry = << >> /\ Len(receipts) < MaxReceipts
            /\ \E i \in DOMAIN qtys : qtys[i] > 0
            /\ \A i \in DOMAIN qtys : refunded_qty(n, i) + qtys[i] <= receipts[n].lines[i].qty
            /\ \E lines \in { refunded_lines(n, qtys) } :
                LET total == Sum(lines, "net") IN
                insert_order("refund", lines,
                    [cash |-> IF tender = "cash" THEN total ELSE 0, mpesa |-> IF tender = "mpesa" THEN total ELSE 0],
                    n, FALSE)
            /\ UNCHANGED << price, entry >>

\* A sale that a captured refund refers to is not voided.
void ==
    \E n \in Sales \cup Refunds :
        /\ entry = << >>
        /\ RefundsOf(n) = {}
        /\ receipts' = [receipts EXCEPT ![n].status = "voided"]
        /\ UNCHANGED << price, entry >>

----------------------------------------------------------------------------

Taken(field) == Column(receipts, field, Sales)
Refunded(field) == Column(receipts, field, Refunds)

tender_net(tender) == Taken(tender) - Refunded(tender)
net_sales == (Taken("total") - Taken("tax")) - (Refunded("total") - Refunded("tax"))
tax_net == Taken("tax") - Refunded("tax")

\* The lines of the revenue entry, debits less credits, and what was counted.
pos_session_request(variance) ==
    [cash |-> tender_net("cash") + variance, mpesa_clearing |-> tender_net("mpesa"), sales |-> -net_sales,
     vat_output |-> -tax_net, cash_over_short |-> -variance]

consolidate ==
    \E variance \in Variances :
        /\ entry = << >>
        /\ entry' = pos_session_request(variance)
        /\ UNCHANGED << price, receipts >>

reprice == \E p \in Prices : p # price /\ price' = p /\ UNCHANGED << receipts, entry >>

Init == price \in Prices /\ receipts = << >> /\ entry = << >>

Next == capture \/ refund \/ void \/ consolidate \/ reprice

Spec == Init /\ [][Next]_till

----------------------------------------------------------------------------

Abs(x) == IF x < 0 THEN -x ELSE x

\* Tenders in whole cents are what the sale totals; a sale whose tenders carry
\* fractions of a cent need not be.
WholeCents == \A n \in Sales : receipts[n].cash + receipts[n].mpesa = receipts[n].total

\* The entry of a closed session balances, whatever was sold, refunded, voided
\* and counted, and however lines, taxes and shares were rounded; the tax of a
\* line lies inside its price; and what a line was refunded in parts is its
\* share of what it sold for, to half a cent a part.
TakingsTie ==
    /\ entry # << >> /\ WholeCents => Tally(entry, DOMAIN entry) = 0
    /\ \A n \in Sales : \A i \in DOMAIN receipts[n].lines :
        LET line == receipts[n].lines[i] IN
        /\ 0 <= line.tax /\ line.tax <= line.net
        /\ Back(n, i, "qty") <= line.qty
        /\ \A f \in {"net", "tax"} :
              Abs(Back(n, i, f) * line.qty - line[f] * Back(n, i, "qty")) <= 5 * line.qty * Cardinality(RefundsOf(n))
=============================================================================
