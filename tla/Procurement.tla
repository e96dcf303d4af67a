---------------------------- MODULE Procurement ----------------------------
(***************************************************************************)
(* Purchase orders, goods receipts, purchase returns and supplier invoices *)
(* (crates/nebula-apps/src/scm/procurement/order.rs, receipt.rs,           *)
(* returns.rs, invoice.rs) over the stock levels they deliver to.          *)
(*                                                                         *)
(* Posting, reversing and cancelling lock the document, then the order,    *)
(* then the levels in ascending order, and read only what they locked, so  *)
(* each handler is an atomic step.  The draft editors validate on an       *)
(* unlocked read; posting validates again.  The lines of a document on one *)
(* level move together, which may round the value by a cent.               *)
(*                                                                         *)
(* A document is the quantity it names of each order line: several of its  *)
(* lines on one order line add up in the code before they are checked.     *)
(* Prices, dates, lots and serial units are left out: the price match may  *)
(* refuse an invoice, a lot or a unit may refuse a receipt or a return,    *)
(* and payments may refuse the cancellation of an invoice.                 *)
(***************************************************************************)
EXTENDS StockEngine, LineSums

CONSTANTS
    Orders,
    Lines,          \* the order lines
    OrderOf,        \* the order of a line
    GateOf,         \* the level (item x warehouse) a line is delivered to
    OrderQtys,      \* the quantities a draft may order of a line
    Services,       \* the lines whose item is not stockable
    Gates,
    Receipts, Returns, Invoices,
    Costs,          \* the unit costs stock comes in at
    MaxStock        \* bound on the stock of a level

ASSUME ProcurementAssumption ==
    /\ IsFiniteSet(Lines) /\ Services \subseteq Lines
    /\ OrderOf \in [Lines -> Orders]
    /\ GateOf \in [Lines -> Gates]
    /\ OrderQtys \subseteq Qtys \ {0}
    /\ IsFiniteSet(Receipts) /\ IsFiniteSet(Returns) /\ IsFiniteSet(Invoices)
    /\ Costs \subseteq Nat
    /\ MaxStock \in Nat

VARIABLES
    order,                      \* order[o]: the status of an order
    ordered, received, billed,  \* the quantities on each order line
    level,                      \* level[g]: the stock level rows
    receipt, preturn, invoice   \* the documents against the orders

quantities == << ordered, received, billed >>
documents == << receipt, preturn, invoice >>
vars == << order, ordered, received, billed, level, receipt, preturn, invoice >>

receivable == {"approved", "partially_received"}
Open == receivable \cup {"received"}
Statuses == Open \cup {"none", "draft", "submitted", "closed", "cancelled"}

None == [status |-> "none"]

\* A receipt brings goods in; the document of its reversal takes them out.
ReceiptDocs == [status : {"draft", "posted", "reversed"}, order : Orders,
                qty : [Lines -> Qtys], into : BOOLEAN, reversal : BOOLEAN]
ReturnDocs == [status : {"draft", "posted", "reversed"}, order : Orders, qty : [Lines -> Qtys]]
InvoiceDocs == [status : {"draft", "posted", "cancelled"}, order : Orders, qty : [Lines -> Qtys]]

TypeOK ==
    /\ order \in [Orders -> Statuses]
    /\ ordered \in [Lines -> Qtys]
    /\ received \in [Lines -> Qtys]
    /\ billed \in [Lines -> Qtys]
    /\ level \in [Gates -> Level]
    /\ receipt \in [Receipts -> ReceiptDocs \cup {None}]
    /\ preturn \in [Returns -> ReturnDocs \cup {None}]
    /\ invoice \in [Invoices -> InvoiceDocs \cup {None}]

Init ==
    /\ order = [o \in Orders |-> "none"]
    /\ ordered = [l \in Lines |-> 0]
    /\ received = [l \in Lines |-> 0]
    /\ billed = [l \in Lines |-> 0]
    /\ level = [g \in Gates |-> EmptyLevel]
    /\ receipt = [r \in Receipts |-> None]
    /\ preturn = [r \in Returns |-> None]
    /\ invoice = [i \in Invoices |-> None]

LinesOf(o) == { l \in Lines : OrderOf[l] = o }
Into(o, g) == { l \in LinesOf(o) : GateOf[l] = g }

----------------------------------------------------------------------------
(* The order.                                                              *)

\* The lines of a draft are written whole, at quantities above zero.
Drafted(o, qty) ==
    /\ \A l \in LinesOf(o) : qty[l] \in OrderQtys
    /\ ordered' = [l \in Lines |-> IF OrderOf[l] = o THEN qty[l] ELSE ordered[l]]

create_order(o, qty) ==
    /\ order[o] = "none"
    /\ LinesOf(o) # {}
    /\ Drafted(o, qty)
    /\ order' = [order EXCEPT ![o] = "draft"]
    /\ UNCHANGED << received, billed, level, documents >>

\* The lines of a draft invoice hold on to the order lines they name.
Referenced(o) == \E i \in Invoices : invoice[i] # None /\ invoice[i].order = o

update_order(o, qty) ==
    /\ order[o] = "draft" /\ ~Referenced(o)
    /\ Drafted(o, qty)
    /\ UNCHANGED << order, received, billed, level, documents >>

delete_order(o) ==
    /\ order[o] = "draft" /\ ~Referenced(o)
    /\ order' = [order EXCEPT ![o] = "none"]
    /\ ordered' = [l \in Lines |-> IF OrderOf[l] = o THEN 0 ELSE ordered[l]]
    /\ UNCHANGED << received, billed, level, documents >>

submit(o) ==
    /\ order[o] = "draft"
    /\ order' = [order EXCEPT ![o] = "submitted"]
    /\ UNCHANGED << quantities, level, documents >>

\* Approval commits the demand of the order to the levels.
approve(o) ==
    /\ order[o] = "submitted"
    /\ level' = [g \in Gates |-> adjust_on_order(level[g], Sum(ordered, Into(o, g)))]
    /\ order' = [order EXCEPT ![o] = "approved"]
    /\ UNCHANGED << quantities, documents >>

\* What is still to come of each line.
Remaining == [l \in Lines |-> Greatest(ordered[l] - received[l], 0)]

release_on_order(o) ==
    level' = [g \in Gates |-> adjust_on_order(level[g], -Sum(Remaining, Into(o, g)))]

\* MUTANT of cancel: only drafted and submitted orders were meant.
cancel_KeepDemand(o) ==
    /\ order[o] \in {"draft", "submitted", "approved"}
    /\ \A r \in Receipts : receipt[r].status \in {"posted", "reversed"} => receipt[r].order # o
    /\ \A i \in Invoices : invoice[i].status = "posted" => invoice[i].order # o
    /\ order' = [order EXCEPT ![o] = "cancelled"]
    /\ UNCHANGED << quantities, level, documents >>

\* Nothing that was ever posted may refer to a cancelled order.
cancel(o) ==
    /\ order[o] \in {"draft", "submitted", "approved"}
    /\ \A r \in Receipts : receipt[r].status \in {"posted", "reversed"} => receipt[r].order # o
    /\ \A i \in Invoices : invoice[i].status = "posted" => invoice[i].order # o
    /\ IF order[o] = "approved" THEN release_on_order(o) ELSE UNCHANGED level
    /\ order' = [order EXCEPT ![o] = "cancelled"]
    /\ UNCHANGED << quantities, documents >>

close(o) ==
    /\ order[o] \in Open
    /\ release_on_order(o)
    /\ order' = [order EXCEPT ![o] = "closed"]
    /\ UNCHANGED << quantities, documents >>

\* The status of an order once its lines have received the quantities rec.
recompute_status(o, rec) ==
    IF order[o] \notin Open THEN order[o]
    ELSE IF \A l \in LinesOf(o) : rec[l] >= ordered[l] THEN "received"
    ELSE IF \E l \in LinesOf(o) : rec[l] > 0 THEN "partially_received"
    ELSE "approved"

----------------------------------------------------------------------------
(* What a document does to the order and to the levels.                    *)

\* A document names lines of its order, each with a quantity.
Names(o, qty) ==
    /\ order[o] # "none"
    /\ \E l \in Lines : qty[l] > 0
    /\ \A l \in Lines : qty[l] > 0 => OrderOf[l] = o

QtyAt(doc, g) == Sum(doc.qty, Into(doc.order, g))

\* The stock engine refuses items that are not stockable.
Stockable(doc) == \A l \in Services : doc.qty[l] = 0

CanBring(doc, cost) == Stockable(doc) /\ \A g \in Gates : QtyAt(doc, g) > 0 => CanReceive(level[g], QtyAt(doc, g), cost)
CanTake(doc) == Stockable(doc) /\ \A g \in Gates : QtyAt(doc, g) > 0 => CanIssue(level[g], QtyAt(doc, g), 0)

Brought(doc, cost) ==
    [g \in Gates |-> IF QtyAt(doc, g) = 0 THEN level[g] ELSE Received(level[g], QtyAt(doc, g), cost)]
Taken(doc) ==
    [g \in Gates |-> IF QtyAt(doc, g) = 0 THEN level[g] ELSE Issued(level[g], QtyAt(doc, g), 0)]

\* The levels after the goods moved, with the open demand adjusted.
Levels(moved, doc, sign) == level' = [g \in Gates |-> adjust_on_order(moved[g], sign * QtyAt(doc, g))]

\* The counters of the lines after the document, which must fit their column.
Counted(doc, sign) ==
    LET rec == [l \in Lines |-> received[l] + sign * doc.qty[l]]
    IN  /\ \A l \in Lines : rec[l] <= MaxQty
        /\ received' = rec
        /\ order' = [order EXCEPT ![doc.order] = recompute_status(doc.order, rec)]

\* Documents reopen the demand of an order only while it expects goods.
Reopening(doc) == IF order[doc.order] \in Open THEN 1 ELSE 0

----------------------------------------------------------------------------
(* Goods receipts.                                                         *)

validate_receipt(o, qty) == order[o] \in receivable /\ Names(o, qty)

create_receipt(r, o, qty) ==
    /\ receipt[r] = None
    /\ validate_receipt(o, qty)
    /\ receipt' = [receipt EXCEPT ![r] =
                     [status |-> "draft", order |-> o, qty |-> qty, into |-> TRUE, reversal |-> FALSE]]
    /\ UNCHANGED << order, quantities, level, preturn, invoice >>

update_receipt(r, qty) ==
    /\ receipt[r].status = "draft"
    /\ validate_receipt(receipt[r].order, qty)
    /\ receipt' = [receipt EXCEPT ![r].qty = qty]
    /\ UNCHANGED << order, quantities, level, preturn, invoice >>

delete_receipt(r) ==
    /\ receipt[r].status = "draft"
    /\ receipt' = [receipt EXCEPT ![r] = None]
    /\ UNCHANGED << order, quantities, level, preturn, invoice >>

\* The over-receipt guard, made again under the lock of the order.
FitsOrder(doc) ==
    /\ order[doc.order] \in receivable
    /\ \A l \in Lines : doc.qty[l] > 0 => received[l] + doc.qty[l] <= ordered[l]

post_receipt(r, cost) ==
    /\ receipt[r].status = "draft"
    /\ FitsOrder(receipt[r]) /\ CanBring(receipt[r], cost)
    /\ Levels(Brought(receipt[r], cost), receipt[r], -1)
    /\ Counted(receipt[r], 1)
    /\ receipt' = [receipt EXCEPT ![r].status = "posted"]
    /\ UNCHANGED << ordered, billed, preturn, invoice >>

\* MUTANT of UnbilledReceipt: goods that were billed may go back.
UnbilledReceipt_Skip(doc) == TRUE

\* What has been billed cannot be silently un-received.
UnbilledReceipt(doc) == \A l \in Lines : doc.qty[l] > 0 => billed[l] <= received[l] - doc.qty[l]

\* The rows of the movement are mirrored and the demand comes back.
Mirrored(doc, cost) ==
    IF doc.into THEN CanTake(doc) /\ Levels(Taken(doc), doc, Reopening(doc))
    ELSE CanBring(doc, cost) /\ Levels(Brought(doc, cost), doc, Reopening(doc))

\* The document of the reversal is itself a posted receipt.
reversal(doc) == [doc EXCEPT !.into = ~@, !.reversal = TRUE]

reverse_receipt(r, n, cost) ==
    /\ receipt[r].status = "posted" /\ receipt[n] = None
    /\ UnbilledReceipt(receipt[r])
    /\ Mirrored(receipt[r], cost)
    /\ Counted(receipt[r], -1)
    /\ receipt' = [receipt EXCEPT ![r].status = "reversed", ![n] = reversal(receipt[r])]
    /\ UNCHANGED << ordered, billed, preturn, invoice >>

----------------------------------------------------------------------------
(* Purchase returns.                                                       *)

Returnable(o, qty) == \A l \in LinesOf(o) : qty[l] > 0 => qty[l] <= received[l] - billed[l]

validate_return(o, qty) == Names(o, qty) /\ Returnable(o, qty)

create_return(r, o, qty) ==
    /\ preturn[r] = None
    /\ validate_return(o, qty)
    /\ preturn' = [preturn EXCEPT ![r] = [status |-> "draft", order |-> o, qty |-> qty]]
    /\ UNCHANGED << order, quantities, level, receipt, invoice >>

update_return(r, qty) ==
    /\ preturn[r].status = "draft"
    /\ validate_return(preturn[r].order, qty)
    /\ preturn' = [preturn EXCEPT ![r].qty = qty]
    /\ UNCHANGED << order, quantities, level, receipt, invoice >>

delete_return(r) ==
    /\ preturn[r].status = "draft"
    /\ preturn' = [preturn EXCEPT ![r] = None]
    /\ UNCHANGED << order, quantities, level, receipt, invoice >>

\* MUTANT of post_return: the goods go back, the lines still count them.
post_return_KeepCount(r) ==
    /\ preturn[r].status = "draft"
    /\ order[preturn[r].order] \in Open \cup {"closed"}
    /\ Returnable(preturn[r].order, preturn[r].qty)
    /\ CanTake(preturn[r])
    /\ Levels(Taken(preturn[r]), preturn[r], Reopening(preturn[r]))
    /\ preturn' = [preturn EXCEPT ![r].status = "posted"]
    /\ UNCHANGED << order, quantities, receipt, invoice >>

post_return(r) ==
    /\ preturn[r].status = "draft"
    /\ order[preturn[r].order] \in Open \cup {"closed"}
    /\ Returnable(preturn[r].order, preturn[r].qty)
    /\ CanTake(preturn[r])
    /\ Levels(Taken(preturn[r]), preturn[r], Reopening(preturn[r]))
    /\ Counted(preturn[r], -1)
    /\ preturn' = [preturn EXCEPT ![r].status = "posted"]
    /\ UNCHANGED << ordered, billed, receipt, invoice >>

\* The goods come home whatever has been received since.
ComesHome(doc, cost) ==
    /\ CanBring(doc, cost)
    /\ Levels(Brought(doc, cost), doc, -Reopening(doc))

\* The reversal is a posted return too, but reversing it would receive a
\* negative quantity, which the engine refuses: nothing changes it again.
reverse_return(r, cost) ==
    /\ preturn[r].status = "posted"
    /\ ComesHome(preturn[r], cost)
    /\ Counted(preturn[r], 1)
    /\ preturn' = [preturn EXCEPT ![r].status = "reversed"]
    /\ UNCHANGED << ordered, billed, receipt, invoice >>

----------------------------------------------------------------------------
(* Supplier invoices.  An invoice stands for a document of the supplier,   *)
(* which cannot be entered twice.                                          *)

\* Any order may be named; posting asks whether it was approved.
validate_invoice(o, qty) == Names(o, qty)

create_invoice(i, o, qty) ==
    /\ invoice[i] = None
    /\ validate_invoice(o, qty)
    /\ invoice' = [invoice EXCEPT ![i] = [status |-> "draft", order |-> o, qty |-> qty]]
    /\ UNCHANGED << order, quantities, level, receipt, preturn >>

update_invoice(i, qty) ==
    /\ invoice[i].status = "draft"
    /\ validate_invoice(invoice[i].order, qty)
    /\ invoice' = [invoice EXCEPT ![i].qty = qty]
    /\ UNCHANGED << order, quantities, level, receipt, preturn >>

delete_invoice(i) ==
    /\ invoice[i].status = "draft"
    /\ invoice' = [invoice EXCEPT ![i] = None]
    /\ UNCHANGED << order, quantities, level, receipt, preturn >>

\* Only what has arrived of an approved order can be billed.
ThreeWayMatch(doc) ==
    /\ order[doc.order] \in Open \cup {"closed"}
    /\ \A l \in Lines : doc.qty[l] > 0 => billed[l] + doc.qty[l] <= received[l]

post_invoice(i) ==
    /\ invoice[i].status = "draft"
    /\ ThreeWayMatch(invoice[i])
    /\ billed' = [l \in Lines |-> billed[l] + invoice[i].qty[l]]
    /\ invoice' = [invoice EXCEPT ![i].status = "posted"]
    /\ UNCHANGED << order, ordered, received, level, receipt, preturn >>

cancel_invoice(i) ==
    /\ invoice[i].status = "posted"
    /\ billed' = [l \in Lines |-> billed[l] - invoice[i].qty[l]]
    /\ invoice' = [invoice EXCEPT ![i].status = "cancelled"]
    /\ UNCHANGED << order, ordered, received, level, receipt, preturn >>

----------------------------------------------------------------------------
(* The other users of the same levels.                                     *)

issue_stock(g, q) ==
    /\ CanIssue(level[g], q, 0)
    /\ level' = [level EXCEPT ![g] = Issued(@, q, 0)]
    /\ UNCHANGED << order, quantities, documents >>

receive_stock(g, q, cost) ==
    /\ CanReceive(level[g], q, cost)
    /\ level[g].on_hand + q <= MaxStock
    /\ level' = [level EXCEPT ![g] = Received(@, q, cost)]
    /\ UNCHANGED << order, quantities, documents >>

OrderStep ==
    \/ \E o \in Orders, qty \in [Lines -> Qtys] : create_order(o, qty) \/ update_order(o, qty)
    \/ \E o \in Orders : delete_order(o) \/ submit(o) \/ approve(o) \/ cancel(o) \/ close(o)

ReceiptStep ==
    \/ \E r \in Receipts, o \in Orders, qty \in [Lines -> Qtys] : create_receipt(r, o, qty)
    \/ \E r \in Receipts, qty \in [Lines -> Qtys] : update_receipt(r, qty)
    \/ \E r \in Receipts : delete_receipt(r)
    \/ \E r \in Receipts, cost \in Costs : post_receipt(r, cost)
    \/ \E r, n \in Receipts, cost \in Costs : reverse_receipt(r, n, cost)

ReturnStep ==
    \/ \E r \in Returns, o \in Orders, qty \in [Lines -> Qtys] : create_return(r, o, qty)
    \/ \E r \in Returns, qty \in [Lines -> Qtys] : update_return(r, qty)
    \/ \E r \in Returns : delete_return(r) \/ post_return(r)
    \/ \E r \in Returns, cost \in Costs : reverse_return(r, cost)

InvoiceStep ==
    \/ \E i \in Invoices, o \in Orders, qty \in [Lines -> Qtys] : create_invoice(i, o, qty)
    \/ \E i \in Invoices, qty \in [Lines -> Qtys] : update_invoice(i, qty)
    \/ \E i \in Invoices : delete_invoice(i) \/ post_invoice(i) \/ cancel_invoice(i)

StockStep ==
    \/ \E g \in Gates, q \in Qtys : issue_stock(g, q)
    \/ \E g \in Gates, q \in Qtys, c \in Costs : receive_stock(g, q, c)

Next == OrderStep \/ ReceiptStep \/ ReturnStep \/ InvoiceStep \/ StockStep

Spec == Init /\ [][Next]_vars

----------------------------------------------------------------------------

\* The open demand of the orders that expect goods at a level.
OpenDemand(g) ==
    Sum(Remaining, { l \in Lines : GateOf[l] = g /\ order[OrderOf[l]] \in Open })

\* The level a return was taken back to knows no more what is on order.
TakenBack(g) == \E r \in Returns : preturn[r].status = "reversed" /\ QtyAt(preturn[r], g) > 0

\* What a level says is on order is exactly what its open orders still expect,
\* whatever was received, returned, reversed, cancelled or closed, as long as
\* no posted return has been reversed.
OnOrderIsOpenDemand == \A g \in Gates : ~TakenBack(g) => level[g].on_order = OpenDemand(g)

\* The same without the exception.
OnOrderIsOpenQty == \A g \in Gates : level[g].on_order = OpenDemand(g)

\* A line was never received beyond its order, unless a return came home.
OverReceiptGuard == \A l \in Lines : ~TakenBack(GateOf[l]) => received[l] <= ordered[l]

\* What the posted invoices bill of a line.
InvoicedQty(l) == Sum([i \in Invoices |-> invoice[i].qty[l]], { i \in Invoices : invoice[i].status = "posted" })

\* The supplier is never owed for goods that are not here: the posted invoices
\* of a line add up to what it says is billed, which never exceeds what was
\* received and not sent back, whichever of them came first.
PaidGoodsArrived ==
    \A l \in Lines :
        /\ billed[l] = InvoicedQty(l)
        /\ billed[l] <= received[l]

Done == { r \in Receipts : receipt[r].status \in {"posted", "reversed"} }

\* What the receipts brought in of a line, what their reversals took out of it,
\* and what the posted returns took back.
InQty(l) == Sum([r \in Receipts |-> receipt[r].qty[l]], { r \in Done : receipt[r].into })
OutQty(l) == Sum([r \in Receipts |-> receipt[r].qty[l]], { r \in Done : ~receipt[r].into })
ReturnedQty(l) == Sum([r \in Returns |-> preturn[r].qty[l]], { r \in Returns : preturn[r].status = "posted" })

\* A reversal of a receipt was itself reversed.
Unreversed(l) == \E r \in Receipts : receipt[r].status = "reversed" /\ receipt[r].reversal /\ receipt[r].qty[l] > 0

\* What a line says it received is what its receipts brought into stock, less
\* what their reversals and the posted returns took out again, as long as no
\* reversal was itself reversed.
ReceivedIsDocumented ==
    \A l \in Lines : ~Unreversed(l) => received[l] + OutQty(l) + ReturnedQty(l) = InQty(l)

\* The status of an order says what its lines say, also after returns and
\* reversals, and an order nobody approved or that was cancelled owes nothing.
StatusFollowsLines ==
    \A o \in Orders :
        /\ order[o] = "received" => \A l \in LinesOf(o) : received[l] >= ordered[l]
        /\ order[o] = "partially_received" =>
             /\ \E l \in LinesOf(o) : received[l] > 0
             /\ \E l \in LinesOf(o) : received[l] < ordered[l]
        /\ order[o] \in {"none", "draft", "submitted", "approved", "cancelled"} =>
             \A l \in LinesOf(o) : received[l] = 0 /\ billed[l] = 0

\* The received counters are what receipts and returns on record brought, never
\* more than was ordered, and the status of an order follows its lines.
ReceiptsAddUp == TypeOK /\ ReceivedIsDocumented /\ OverReceiptGuard /\ StatusFollowsLines

=============================================================================
