----------------------------- MODULE GlEntries ------------------------------
(***************************************************************************)
(* What the documents of stock, purchasing and sales book into the ledger  *)
(* (crates/nebula-apps/src/scm/gl.rs, the posting matrix), against the     *)
(* value the stock ledger holds.                                           *)
(*                                                                         *)
(* Amounts are tenths of a cent, debits less credits, so that rounding to  *)
(* the cent happens; one purchase order per item, at Price in a currency   *)
(* worth RateNum / RateDen of the base, and one warehouse, so a transfer   *)
(* is known by what the rounding of its two halves changes.                *)
(***************************************************************************)
EXTENDS Integers, Sequences, FiniteSets, FiniteSetsExt

CONSTANTS
    Items,          \* the items, each with a purchase order of its own
    StockRoles,     \* the roles an item's stock is booked under
    Price,          \* the price of the order lines, after their discount
    RateNum, RateDen,   \* the exchange rate of the orders
    Qtys,           \* quantities of a document
    Headers,        \* [discount, charges]: headers of purchase invoices
    Sales,          \* [net, tax]: sales invoices
    Amounts,        \* amounts of payments
    Costs,          \* unit costs a caller enters
    Drifts,         \* by how much the two halves of a transfer differ
    MaxPapers,      \* bound: the documents of a behaviour
    MaxPurchases    \* bound: where all of them are of purchases

VARIABLES
    role,           \* role[i]: the role the stock of an item is booked under
    account,        \* account[r]: the balance of the account with a role
    stock,          \* stock[i]: quantity and value of the level of an item
    drifted,        \* what transfers gained or lost by rounding
    papers          \* the posted documents, with what they booked

books == << role, account, stock, drifted, papers >>

MoneyRoles == {"ap", "ar", "opex", "rounding", "sales", "vat_output", "bank"}
Roles == StockRoles \cup MoneyRoles \cup {"cogs", "stock_adjustment", "grni", "purchase_price_variance"}

\* The cent nearest to n / d tenths, the even one of two (Decimal::round_dp).
Money(n, d) ==
    LET q == n \div (10 * d)
        r == 2 * (n - 10 * d * q) IN
    10 * (IF r > 10 * d \/ (r = 10 * d /\ q % 2 = 1) THEN q + 1 ELSE q)

InBase(amount) == Money(amount * RateNum, RateDen)

\* round_cost keeps six decimals: the cost of a unit is exact here.
GoodsValue(qty) == Money(qty * Price * RateNum, RateDen)

----------------------------------------------------------------------------
(* Entries.                                                                *)

Line(r, amount) == [x \in Roles |-> IF x = r THEN amount ELSE 0]
a ++ b == [r \in Roles |-> a[r] + b[r]]
Booking(dr, cr, amount) == Line(dr, amount) ++ Line(cr, -amount)
Flipped(entry) == [r \in Roles |-> -entry[r]]

\* EntryBuilder::lines: the net of each role, each rounded for itself.
Rounded(net) == [r \in Roles |-> Money(net[r], 1)]

SumOf(values) == MapThenSumSet(LAMBDA i : values[i], Items)

\* The rows of a movement: the stock account of each item follows its value.
PerItem(F(_)) == [r \in Roles |-> MapThenSumSet(LAMBDA i : F(i)[r], Items)]

stock_move_request(type, deltas) ==
    PerItem(LAMBDA i : Booking(role[i], IF type = "issue" THEN "cogs" ELSE "stock_adjustment", deltas[i]))

goods_receipt_request(deltas) == PerItem(LAMBDA i : Booking(role[i], "grni", deltas[i]))

cogs_move_request(deltas) == PerItem(LAMBDA i : Booking("cogs", role[i], -deltas[i]))

\* The direction follows the value of the movement; zero counts as goods out.
purchase_return_request(deltas, grni_value) ==
    LET relief == IF SumOf(deltas) <= 0 THEN grni_value ELSE -grni_value IN
    PerItem(LAMBDA i : Line(role[i], deltas[i]))
        ++ Line("grni", relief) ++ Line("purchase_price_variance", -(SumOf(deltas) + relief))

\* MUTANT of purchase_invoice_request: the gap of the conversions is not booked.
purchase_invoice_request_NoGap(qty, header) ==
    Line("grni", GoodsValue(qty)) ++ Line("opex", InBase(header.charges))
        ++ Line("purchase_price_variance", -InBase(header.discount))
        ++ Line("ap", -InBase(Money(Money(qty * Price, 1) - header.discount + header.charges, 1)))

purchase_invoice_request(qty, header) ==
    LET total == Money(Money(qty * Price, 1) - header.discount + header.charges, 1)
        gap == GoodsValue(qty) + InBase(header.charges) - InBase(header.discount) - InBase(total) IN
    Line("grni", GoodsValue(qty)) ++ Line("opex", InBase(header.charges))
        ++ Line("purchase_price_variance", -InBase(header.discount))
        ++ Line("ap", -InBase(total)) ++ Line("rounding", -gap)

purchase_payment_request(amount) == Booking("ap", "bank", InBase(amount))

ar_payment_request(amount) == Booking("bank", "ar", InBase(amount))

ar_invoice_request(sale) ==
    LET net == InBase(sale.net)
        tax == InBase(sale.tax)
        gross == InBase(sale.net + sale.tax) IN
    Line("ar", gross) ++ Line("sales", -net) ++ Line("vat_output", -tax)
        ++ Line("rounding", -(gross - net - tax))

----------------------------------------------------------------------------
(* The documents.                                                          *)

Live(kind) == { n \in DOMAIN papers : papers[n].kind = kind /\ papers[n].status = "posted" }

PurchaseKinds == {"goods_receipt", "purchase_return", "purchase_invoice"}
Purchasing == { n \in DOMAIN papers : papers[n].kind \in PurchaseKinds }

\* The quantity of an item on the posted documents of a kind.
Billed(i) == MapThenSumSet(LAMBDA n : papers[n].qty[i], Live("purchase_invoice"))
Received(i) == MapThenSumSet(LAMBDA n : papers[n].qty[i], Live("goods_receipt") \cup Live("purchase_return"))
Unbilled(i) == Received(i) - Billed(i)

Nothing == [i \in Items |-> 0]
Of(i, v) == [Nothing EXCEPT ![i] = v]
Free == [i \in Items |-> << 0, 1 >>]

\* The engine: goods come in at a cost, << num, den >>, and go out at the
\* average of the level, the last of them with all the value that is left.
Average(i) == IF stock[i].on_hand = 0 THEN << 0, 1 >> ELSE << stock[i].value, stock[i].on_hand >>

Value(i, q, cost) ==
    IF q >= 0 THEN Money(q * cost[1], cost[2])
    ELSE IF -q = stock[i].on_hand THEN -stock[i].value
    ELSE -Money(-q * stock[i].value, stock[i].on_hand)

Deltas(moved, costs) == [i \in Items |-> Value(i, moved[i], costs[i])]

Issuable(moved) == \A i \in Items : stock[i].on_hand + moved[i] >= 0

Move(moved, deltas) ==
    stock' = [i \in Items |-> [on_hand |-> stock[i].on_hand + moved[i], value |-> stock[i].value + deltas[i]]]

Room(kind) ==
    Len(papers) < IF kind \in PurchaseKinds \cup {"adjustment"}
                     /\ \A n \in DOMAIN papers : papers[n].kind \in PurchaseKinds \cup {"adjustment"}
                  THEN MaxPurchases ELSE MaxPapers

\* A document is posted: its goods move, and Request of their values is booked.
Post(kind, qty, moved, costs, Request(_)) ==
    /\ Room(kind) /\ Issuable(moved)
    /\ \E deltas \in { Deltas(moved, costs) } : \E lines \in { Rounded(Request(deltas)) } :
        /\ papers' = Append(papers,
              [kind |-> kind, status |-> "posted", qty |-> qty, moved |-> moved, deltas |-> deltas, back |-> Nothing,
               unit_cost |-> [i \in Items |-> IF moved[i] < 0 THEN Average(i) ELSE << 0, 1 >>], lines |-> lines])
        /\ account' = account ++ lines
        /\ Move(moved, deltas)
    /\ UNCHANGED << role, drifted >>

\* A document is reversed: what went out comes back at the cost it left at,
\* what came in goes out at the average of the day.
Reverse(n, Request(_)) ==
    /\ Issuable([i \in Items |-> -papers[n].moved[i]])
    /\ \E back \in { Deltas([i \in Items |-> -papers[n].moved[i]], papers[n].unit_cost) } :
        /\ papers' = [papers EXCEPT ![n].status = "reversed", ![n].back = back]
        /\ account' = account ++ Rounded(Request(back))
        /\ Move([i \in Items |-> -papers[n].moved[i]], back)
    /\ UNCHANGED << role, drifted >>

stock_move ==
    \E type \in {"receipt", "issue", "adjustment"}, cost \in Costs :
        \E moved \in [Items -> Qtys \cup { -q : q \in Qtys } \cup {0}] :
            /\ \A i \in Items : IF type = "receipt" THEN moved[i] >= 0 ELSE type = "issue" => moved[i] <= 0
            /\ moved # Nothing
            /\ Post(type, Nothing, moved, [i \in Items |-> << cost, 1 >>], LAMBDA deltas : stock_move_request(type, deltas))

\* A transfer books nothing, and its two halves may round apart.
transfer ==
    \E i \in Items, d \in Drifts :
        /\ stock[i].on_hand > 0 /\ stock[i].value + d >= 0
        /\ drifted + d \in Drifts
        /\ drifted' = drifted + d
        /\ Move(Nothing, Of(i, d))
        /\ UNCHANGED << role, account, papers >>

goods_receipt ==
    \E i \in Items, q \in Qtys :
        Post("goods_receipt", Of(i, q), Of(i, q), [x \in Items |-> << Price * RateNum, RateDen >>], goods_receipt_request)

purchase_return ==
    \E i \in Items, q \in Qtys :
        /\ q <= Unbilled(i)
        /\ Post("purchase_return", Of(i, -q), Of(i, -q), Free,
                LAMBDA deltas : purchase_return_request(deltas, GoodsValue(q)))

purchase_invoice ==
    \E i \in Items, q \in Qtys, header \in Headers :
        /\ q <= Unbilled(i)
        /\ Post("purchase_invoice", Of(i, q), Nothing, Free, LAMBDA deltas : purchase_invoice_request(q, header))

\* A delivery, the sales of a till session, or the goods of a credit note.
cogs_move ==
    \E i \in Items, q \in Qtys, type \in {"delivery", "restock"}, cost \in Costs :
        Post(type, Nothing, Of(i, IF type = "delivery" THEN -q ELSE q), [x \in Items |-> << cost, 1 >>], cogs_move_request)

Papers(kind, lines) == Post(kind, Nothing, Nothing, Free, LAMBDA deltas : lines)

sales_invoice == \E sale \in Sales : Papers("sales_invoice", ar_invoice_request(sale))
credit_note == \E sale \in Sales : Papers("credit_note", Flipped(ar_invoice_request(sale)))
supplier_payment == \E amount \in Amounts : Papers("supplier_payment", purchase_payment_request(amount))
customer_payment == \E amount \in Amounts : Papers("customer_payment", ar_payment_request(amount))

----------------------------------------------------------------------------
(* Their reversals.                                                        *)

\* A document without goods is cancelled by the mirror of its entry, recomputed:
\* the tax rates are those of its posting (Receivables has them change).
mirror(n) == Reverse(n, LAMBDA back : Flipped(papers[n].lines))

cancel ==
    \E n \in DOMAIN papers :
        /\ papers[n].kind \in {"purchase_invoice", "sales_invoice", "credit_note",
                               "supplier_payment", "customer_payment"}
        /\ papers[n].status = "posted"
        /\ mirror(n)

reverse_move ==
    \E n \in Live("receipt") \cup Live("issue") \cup Live("adjustment") :
        Reverse(n, LAMBDA back : stock_move_request(papers[n].kind, back))

\* Only what is not billed can be taken back.
reverse_receipt ==
    \E n \in Live("goods_receipt") :
        /\ \A i \in Items : papers[n].qty[i] <= Unbilled(i)
        /\ Reverse(n, goods_receipt_request)

reverse_return ==
    \E n \in Live("purchase_return") :
        Reverse(n, LAMBDA back : purchase_return_request(back, GoodsValue(-SumOf(papers[n].qty))))

reverse_cogs == \E n \in Live("delivery") \cup Live("restock") : Reverse(n, cogs_move_request)

\* An item, or its category, is given another role.
update_item ==
    \E i \in Items, r \in StockRoles :
        /\ r # role[i]
        /\ role' = [role EXCEPT ![i] = r]
        /\ UNCHANGED << account, stock, drifted, papers >>

----------------------------------------------------------------------------

Init ==
    /\ role = [i \in Items |-> "inventory"]
    /\ account = [r \in Roles |-> 0]
    /\ stock = [i \in Items |-> [on_hand |-> 0, value |-> 0]]
    /\ drifted = 0
    /\ papers = << >>

Next ==
    \/ stock_move \/ transfer \/ goods_receipt \/ purchase_return \/ purchase_invoice \/ cogs_move
    \/ sales_invoice \/ credit_note \/ supplier_payment \/ customer_payment
    \/ cancel \/ reverse_move \/ reverse_receipt \/ reverse_return \/ reverse_cogs \/ update_item

Spec == Init /\ [][Next]_books

----------------------------------------------------------------------------

stock_value == MapThenSumSet(LAMBDA i : stock[i].value, Items)

\* Goods received, not returned and not billed, at the price of the order.
grni_open == MapThenSumSet(Unbilled, Items) * Price * RateNum

Abs(x) == IF x < 0 THEN -x ELSE x

\* The interim account is the goods received and not billed, to half a cent
\* for every document (and for every reversal) that rounded its value: "the
\* same computation yields the mirror entry", "a reversal re-accrues it with a
\* credit" (goods_receipt_request, purchase_return_request).
InterimClears == Abs(account["grni"] * RateDen + grni_open) <= 10 * RateDen * Cardinality(Purchasing)

\* Receipts taken back at another value than they came in at, and returns of
\* goods worth nothing that were taken back.
Strands ==
    { n \in Purchasing : /\ papers[n].status = "reversed"
                         /\ \/ papers[n].kind = "goods_receipt" /\ papers[n].back # [i \in Items |-> -papers[n].deltas[i]]
                            \/ papers[n].kind = "purchase_return" /\ SumOf(papers[n].back) = 0 }

\* Every entry balances after each of its lines was rounded; the accounts that
\* carry stock hold the value of the stock levels, but for the rounding of
\* transfers, whichever role an item had when a document was posted and when
\* it was reversed; and a document that was cancelled leaves nothing on the
\* accounts of customers, suppliers, money, revenue and tax.
EntriesTie ==
    /\ \A n \in DOMAIN papers : MapThenSumSet(LAMBDA r : papers[n].lines[r], Roles) = 0
    /\ MapThenSumSet(LAMBDA r : account[r], Roles) = 0
    /\ MapThenSumSet(LAMBDA r : account[r], StockRoles) = stock_value - drifted
    /\ \A r \in MoneyRoles :
          account[r] = MapThenSumSet(LAMBDA n : papers[n].lines[r], { n \in DOMAIN papers : papers[n].status = "posted" })
    /\ Strands = {} => InterimClears
=============================================================================
