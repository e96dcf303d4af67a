-------------------------- MODULE ProcurementProofs --------------------------
(***************************************************************************)
(* What the counters of the order lines, the levels and the documents say  *)
(* of each other, for any number of orders, lines, documents and levels.   *)
(*                                                                         *)
(* The inductive invariant adds to the three properties what ties them     *)
(* together: a document names lines of its own order, goods were received  *)
(* only behind a posted receipt, and an order with one is never cancelled. *)
(*                                                                         *)
(* The second half is about the documents that move stock (StockMoves):    *)
(* the level, the lots, the units and the rows of the ledger agree, and a  *)
(* reversed document leaves nothing behind.                                *)
(***************************************************************************)
EXTENDS MCProcurement, StockProofs, Sequences

\* A document has a line, and its lines are lines of its order.
NamesLines(doc) ==
    /\ \E l \in Lines : doc.qty[l] > 0
    /\ \A l \in Lines : doc.qty[l] > 0 => OrderOf[l] = doc.order

DocumentsName ==
    /\ \A r \in Receipts : receipt[r] # None => NamesLines(receipt[r])
    /\ \A t \in Returns : preturn[t] # None => NamesLines(preturn[t])
    /\ \A i \in Invoices : invoice[i] # None => NamesLines(invoice[i])

\* A receipt brings goods in; only a reversal takes them out, and it is posted
\* at once.
ReceiptsBring ==
    \A r \in Receipts : receipt[r] # None =>
        /\ ~receipt[r].reversal => receipt[r].into
        /\ receipt[r].reversal => receipt[r].status # "draft"

\* A receipt of the order was posted, and it may have been reversed since.
ReceiptBehind(o) ==
    \E r \in Receipts : receipt[r].status \in {"posted", "reversed"} /\ receipt[r].order = o

OrdersBehind ==
    /\ \A l \in Lines : received[l] > 0 => ReceiptBehind(OrderOf[l])
    /\ \A t \in Returns : preturn[t].status \in {"posted", "reversed"} => ReceiptBehind(preturn[t].order)
    /\ \A o \in Orders : ReceiptBehind(o) => order[o] \in Open \cup {"closed"}

LevelsSound == \A g \in Gates : SoundLevel(level[g])

\* The inductive invariant.
Standing ==
    /\ TypeOK /\ LevelsSound
    /\ DocumentsName /\ ReceiptsBring /\ OrdersBehind

Tallies ==
    /\ PaidGoodsArrived /\ OnOrderIsOpenDemand
    /\ ReceivedIsDocumented /\ OverReceiptGuard /\ StatusFollowsLines

----------------------------------------------------------------------------
(* The documents.                                                           *)

\* A document on record has the fields of its kind.
LEMMA Documents ==
    ASSUME TypeOK
    PROVE  /\ \A r \in Receipts :
                 /\ receipt[r].status \in {"draft", "posted", "reversed"} <=> receipt[r] # None
                 /\ receipt[r] # None => receipt[r] \in ReceiptDocs
           /\ \A t \in Returns :
                 /\ preturn[t].status \in {"draft", "posted", "reversed"} <=> preturn[t] # None
                 /\ preturn[t] # None => preturn[t] \in ReturnDocs
           /\ \A i \in Invoices :
                 /\ invoice[i].status \in {"draft", "posted", "cancelled"} <=> invoice[i] # None
                 /\ invoice[i] # None => invoice[i] \in InvoiceDocs
<1>1. None.status = "none"
  BY DEF None
<1>2. ASSUME NEW r \in Receipts
      PROVE  /\ receipt[r].status \in {"draft", "posted", "reversed"} <=> receipt[r] # None
             /\ receipt[r] # None => receipt[r] \in ReceiptDocs
  <2>1. receipt[r] \in ReceiptDocs \cup {None}
    BY DEF TypeOK
  <2> QED BY <1>1, <2>1 DEF ReceiptDocs
<1>3. ASSUME NEW t \in Returns
      PROVE  /\ preturn[t].status \in {"draft", "posted", "reversed"} <=> preturn[t] # None
             /\ preturn[t] # None => preturn[t] \in ReturnDocs
  <2>1. preturn[t] \in ReturnDocs \cup {None}
    BY DEF TypeOK
  <2> QED BY <1>1, <2>1 DEF ReturnDocs
<1>4. ASSUME NEW i \in Invoices
      PROVE  /\ invoice[i].status \in {"draft", "posted", "cancelled"} <=> invoice[i] # None
             /\ invoice[i] # None => invoice[i] \in InvoiceDocs
  <2>1. invoice[i] \in InvoiceDocs \cup {None}
    BY DEF TypeOK
  <2> QED BY <1>1, <2>1 DEF InvoiceDocs
<1> QED BY <1>2, <1>3, <1>4

\* The receipts that are done stay as they are, and no others come.
DoneKept ==
    \A r \in Receipts : receipt[r].status \in {"posted", "reversed"} \/ receipt'[r].status \in {"posted", "reversed"}
        => receipt'[r] = receipt[r]
ReturnsKept ==
    \A t \in Returns : preturn[t].status \in {"posted", "reversed"} \/ preturn'[t].status \in {"posted", "reversed"}
        => preturn'[t] = preturn[t]
InvoicesKept ==
    \A i \in Invoices : invoice[i].status = "posted" \/ invoice'[i].status = "posted"
        => invoice'[i] = invoice[i]

LEMMA DoneTally ==
    ASSUME DoneKept
    PROVE  /\ \A l \in Lines : /\ InQty(l)' = InQty(l) /\ OutQty(l)' = OutQty(l)
                               /\ Unreversed(l)' <=> Unreversed(l)
           /\ \A o \in Orders : ReceiptBehind(o)' <=> ReceiptBehind(o)
<1>1. Done' = Done /\ \A r \in Done : receipt'[r] = receipt[r]
  BY DEF Done, DoneKept
<1>2. ASSUME NEW l \in Lines PROVE InQty(l)' = InQty(l) /\ OutQty(l)' = OutQty(l)
  <2> DEFINE f == [r \in Receipts |-> receipt[r].qty[l]]
             ins == { r \in Done : receipt[r].into }
             outs == { r \in Done : ~receipt[r].into }
  <2>1. ins' = ins /\ outs' = outs
    BY <1>1
  <2>2. \A r \in Done : f'[r] = f[r]
    BY <1>1 DEF Done
  <2>3. Sum(f', ins) = Sum(f, ins) /\ Sum(f', outs) = Sum(f, outs)
    <3>1. ins \subseteq Done /\ outs \subseteq Done
      OBVIOUS
    <3>2. (\A r \in ins : f'[r] = f[r]) /\ \A r \in outs : f'[r] = f[r]
      BY <2>2, <3>1
    <3> HIDE DEF f, ins, outs
    <3> QED BY <3>2, SumSame
  <2> QED BY <2>1, <2>3 DEF InQty, OutQty
<1>3. \A l \in Lines : Unreversed(l)' <=> Unreversed(l)
  BY DEF Unreversed, DoneKept
<1>4. \A o \in Orders : ReceiptBehind(o)' <=> ReceiptBehind(o)
  BY DEF ReceiptBehind, DoneKept
<1> QED BY <1>2, <1>3, <1>4

LEMMA ReturnsTally ==
    ASSUME ReturnsKept
    PROVE  /\ \A l \in Lines : ReturnedQty(l)' = ReturnedQty(l)
           /\ \A g \in Gates : TakenBack(g)' <=> TakenBack(g)
<1>1. ASSUME NEW l \in Lines PROVE ReturnedQty(l)' = ReturnedQty(l)
  <2> DEFINE f == [r \in Returns |-> preturn[r].qty[l]]
             S == { r \in Returns : preturn[r].status = "posted" }
  <2>1. S' = S
    BY DEF ReturnsKept
  <2>2. \A r \in S : f'[r] = f[r]
    BY DEF ReturnsKept
  <2>3. Sum(f', S) = Sum(f, S)
    BY <2>2, SumSame
  <2> QED BY <2>1, <2>3 DEF ReturnedQty
<1>2. \A g \in Gates : TakenBack(g)' <=> TakenBack(g)
  BY DEF TakenBack, QtyAt, ReturnsKept
<1> QED BY <1>1, <1>2

LEMMA InvoicesTally ==
    ASSUME InvoicesKept
    PROVE  \A l \in Lines : InvoicedQty(l)' = InvoicedQty(l)
<1> SUFFICES ASSUME NEW l \in Lines PROVE InvoicedQty(l)' = InvoicedQty(l)
  OBVIOUS
<1> DEFINE f == [i \in Invoices |-> invoice[i].qty[l]]
           S == { i \in Invoices : invoice[i].status = "posted" }
<1>1. S' = S
  BY DEF InvoicesKept
<1>2. \A i \in S : f'[i] = f[i]
  BY DEF InvoicesKept
<1>3. Sum(f', S) = Sum(f, S)
  BY <1>2, SumSame
<1> QED BY <1>1, <1>3 DEF InvoicedQty

\* The order, the lines and the levels as they were keep the open demand.
LEMMA DemandKept ==
    ASSUME order' = order, ordered' = ordered, received' = received, NEW g
    PROVE  OpenDemand(g)' = OpenDemand(g)
BY DEF OpenDemand, Remaining

----------------------------------------------------------------------------
(* Editing a draft.                                                         *)

\* Documents change among drafts only, and name lines of their order.
LEMMA DraftsKeep ==
    ASSUME Standing, Tallies,
           receipt' \in [Receipts -> ReceiptDocs \cup {None}],
           preturn' \in [Returns -> ReturnDocs \cup {None}],
           invoice' \in [Invoices -> InvoiceDocs \cup {None}],
           DocumentsName', ReceiptsBring', DoneKept, ReturnsKept, InvoicesKept,
           UNCHANGED << order, quantities, level >>
    PROVE  Standing' /\ Tallies'
<1> USE DEF quantities
<1>1. /\ \A l \in Lines : /\ InQty(l)' = InQty(l) /\ OutQty(l)' = OutQty(l) /\ (Unreversed(l)' <=> Unreversed(l))
                          /\ ReturnedQty(l)' = ReturnedQty(l) /\ InvoicedQty(l)' = InvoicedQty(l)
      /\ \A o \in Orders : ReceiptBehind(o)' <=> ReceiptBehind(o)
      /\ \A g \in Gates : TakenBack(g)' <=> TakenBack(g)
  BY DoneTally, ReturnsTally, InvoicesTally
<1>2. TypeOK' /\ LevelsSound'
  BY DEF Standing, TypeOK, LevelsSound
<1>3. \A l \in Lines : OrderOf[l] \in Orders
  BY ProcurementAssumption
<1>4. OrdersBehind'
  <2>1. \A t \in Returns : preturn'[t].status \in {"posted", "reversed"} => ReceiptBehind(preturn'[t].order)
    BY DEF Standing, OrdersBehind, ReturnsKept
  <2>2. \A t \in Returns : preturn'[t].status \in {"posted", "reversed"} => preturn'[t].order \in Orders
    BY Documents DEF Standing, ReturnsKept, ReturnDocs
  <2>3. \A t \in Returns : preturn'[t].status \in {"posted", "reversed"} => ReceiptBehind(preturn[t].order)'
    BY <1>1, <2>1, <2>2 DEF ReceiptBehind, ReturnsKept
  <2> QED BY <1>1, <1>3, <2>1, <2>2 DEF Standing, OrdersBehind, ReceiptBehind
<1>5. PaidGoodsArrived' /\ ReceivedIsDocumented'
  BY <1>1 DEF Tallies, PaidGoodsArrived, ReceivedIsDocumented
<1>6. OnOrderIsOpenDemand'
  BY <1>1, DemandKept DEF Tallies, OnOrderIsOpenDemand
<1>7. OverReceiptGuard'
  <2>1. \A l \in Lines : TakenBack(GateOf[l])' <=> TakenBack(GateOf[l])
    BY <1>1, ProcurementAssumption
  <2> QED BY <2>1 DEF Tallies, OverReceiptGuard
<1>8. StatusFollowsLines'
  BY DEF Tallies, StatusFollowsLines, LinesOf
<1> QED BY <1>2, <1>4, <1>5, <1>6, <1>7, <1>8 DEF Standing, Tallies

\* A receipt is drafted, edited or deleted.
LEMMA ReceiptDrafts ==
    ASSUME Standing, Tallies, NEW r \in Receipts,
           \/ \E o \in Orders, qty \in [Lines -> Qtys] : create_receipt(r, o, qty)
           \/ \E qty \in [Lines -> Qtys] : update_receipt(r, qty)
           \/ delete_receipt(r)
    PROVE  Standing' /\ Tallies'
<1>1. PICK doc : /\ receipt' = [receipt EXCEPT ![r] = doc]
                 /\ doc # None => /\ doc \in ReceiptDocs /\ doc.status = "draft"
                                  /\ doc.into /\ ~doc.reversal /\ NamesLines(doc)
                 /\ receipt[r].status \notin {"posted", "reversed"}
  <2>1. CASE \E o \in Orders, qty \in [Lines -> Qtys] : create_receipt(r, o, qty)
    <3>1. PICK o \in Orders, qty \in [Lines -> Qtys] : create_receipt(r, o, qty)
      BY <2>1
    <3> DEFINE doc == [status |-> "draft", order |-> o, qty |-> qty, into |-> TRUE, reversal |-> FALSE]
    <3>2. doc \in ReceiptDocs
      BY DEF ReceiptDocs
    <3>3. NamesLines(doc)
      BY <3>1 DEF create_receipt, validate_receipt, Names, NamesLines
    <3>4. receipt[r].status = "none"
      BY <3>1 DEF create_receipt, None
    <3> QED BY <3>1, <3>2, <3>3, <3>4 DEF create_receipt
  <2>2. CASE \E qty \in [Lines -> Qtys] : update_receipt(r, qty)
    <3>1. PICK qty \in [Lines -> Qtys] : update_receipt(r, qty)
      BY <2>2
    <3>2. receipt[r].status = "draft" /\ receipt[r] \in ReceiptDocs /\ receipt[r] # None
      BY <3>1, Documents DEF update_receipt, Standing
    <3> DEFINE doc == [receipt[r] EXCEPT !.qty = qty]
    <3>3. doc \in ReceiptDocs /\ doc.status = "draft" /\ doc.into = receipt[r].into
          /\ doc.reversal = receipt[r].reversal /\ doc.qty = qty /\ doc.order = receipt[r].order
      BY <3>2 DEF ReceiptDocs
    <3>4. receipt' = [receipt EXCEPT ![r] = doc]
      BY <3>1, <3>2 DEF update_receipt, Standing, TypeOK
    <3>5. doc.into /\ ~doc.reversal
      BY <3>2, <3>3 DEF Standing, ReceiptsBring
    <3>6. NamesLines(doc)
      BY <3>1, <3>3 DEF update_receipt, validate_receipt, Names, NamesLines
    <3> HIDE DEF doc
    <3> QED BY <3>2, <3>3, <3>4, <3>5, <3>6
  <2>3. CASE delete_receipt(r)
    BY <2>3 DEF delete_receipt
  <2> QED BY <2>1, <2>2, <2>3
<1>2. UNCHANGED << order, quantities, level, preturn, invoice >>
  BY DEF create_receipt, update_receipt, delete_receipt, quantities
<1>3. receipt'[r] = doc /\ \A x \in Receipts : x # r => receipt'[x] = receipt[x]
  BY <1>1 DEF Standing, TypeOK
<1>4. receipt' \in [Receipts -> ReceiptDocs \cup {None}]
  BY <1>1 DEF Standing, TypeOK
<1>5. doc.status \notin {"posted", "reversed"}
  BY <1>1 DEF None
<1>6. DoneKept
  BY <1>1, <1>3, <1>5 DEF DoneKept
<1>7. ReturnsKept /\ InvoicesKept
  BY <1>2 DEF ReturnsKept, InvoicesKept
<1>8. DocumentsName'
  BY <1>1, <1>2, <1>3 DEF Standing, DocumentsName, NamesLines
<1>9. ReceiptsBring'
  BY <1>1, <1>3 DEF Standing, ReceiptsBring
<1> QED BY <1>2, <1>4, <1>6, <1>7, <1>8, <1>9, DraftsKeep DEF Standing, TypeOK

\* A return is drafted, edited or deleted.
LEMMA ReturnDrafts ==
    ASSUME Standing, Tallies, NEW r \in Returns,
           \/ \E o \in Orders, qty \in [Lines -> Qtys] : create_return(r, o, qty)
           \/ \E qty \in [Lines -> Qtys] : update_return(r, qty)
           \/ delete_return(r)
    PROVE  Standing' /\ Tallies'
<1>1. PICK doc : /\ preturn' = [preturn EXCEPT ![r] = doc]
                 /\ doc # None => doc \in ReturnDocs /\ doc.status = "draft" /\ NamesLines(doc)
                 /\ preturn[r].status \notin {"posted", "reversed"}
  <2>1. CASE \E o \in Orders, qty \in [Lines -> Qtys] : create_return(r, o, qty)
    <3>1. PICK o \in Orders, qty \in [Lines -> Qtys] : create_return(r, o, qty)
      BY <2>1
    <3> DEFINE doc == [status |-> "draft", order |-> o, qty |-> qty]
    <3>2. doc \in ReturnDocs
      BY DEF ReturnDocs
    <3>3. NamesLines(doc)
      BY <3>1 DEF create_return, validate_return, Names, NamesLines
    <3>4. preturn[r].status = "none"
      BY <3>1 DEF create_return, None
    <3> QED BY <3>1, <3>2, <3>3, <3>4 DEF create_return
  <2>2. CASE \E qty \in [Lines -> Qtys] : update_return(r, qty)
    <3>1. PICK qty \in [Lines -> Qtys] : update_return(r, qty)
      BY <2>2
    <3>2. preturn[r].status = "draft" /\ preturn[r] \in ReturnDocs
      BY <3>1, Documents DEF update_return, Standing
    <3> DEFINE doc == [preturn[r] EXCEPT !.qty = qty]
    <3>3. doc \in ReturnDocs /\ doc.status = "draft" /\ doc.qty = qty /\ doc.order = preturn[r].order
      BY <3>2 DEF ReturnDocs
    <3>4. preturn' = [preturn EXCEPT ![r] = doc]
      BY <3>1, <3>2 DEF update_return, Standing, TypeOK
    <3>5. NamesLines(doc)
      BY <3>1, <3>3 DEF update_return, validate_return, Names, NamesLines
    <3> HIDE DEF doc
    <3> QED BY <3>2, <3>3, <3>4, <3>5
  <2>3. CASE delete_return(r)
    BY <2>3 DEF delete_return
  <2> QED BY <2>1, <2>2, <2>3
<1>2. UNCHANGED << order, quantities, level, receipt, invoice >>
  BY DEF create_return, update_return, delete_return, quantities
<1>3. preturn'[r] = doc /\ \A x \in Returns : x # r => preturn'[x] = preturn[x]
  BY <1>1 DEF Standing, TypeOK
<1>4. preturn' \in [Returns -> ReturnDocs \cup {None}]
  BY <1>1 DEF Standing, TypeOK
<1>5. doc.status \notin {"posted", "reversed"}
  BY <1>1 DEF None
<1>6. ReturnsKept
  BY <1>1, <1>3, <1>5 DEF ReturnsKept
<1>7. DoneKept /\ InvoicesKept /\ ReceiptsBring'
  BY <1>2 DEF DoneKept, InvoicesKept, Standing, ReceiptsBring
<1>8. DocumentsName'
  BY <1>1, <1>2, <1>3 DEF Standing, DocumentsName, NamesLines
<1> QED BY <1>2, <1>4, <1>6, <1>7, <1>8, DraftsKeep DEF Standing, TypeOK

\* An invoice is drafted, edited or deleted.
LEMMA InvoiceDrafts ==
    ASSUME Standing, Tallies, NEW r \in Invoices,
           \/ \E o \in Orders, qty \in [Lines -> Qtys] : create_invoice(r, o, qty)
           \/ \E qty \in [Lines -> Qtys] : update_invoice(r, qty)
           \/ delete_invoice(r)
    PROVE  Standing' /\ Tallies'
<1>1. PICK doc : /\ invoice' = [invoice EXCEPT ![r] = doc]
                 /\ doc # None => doc \in InvoiceDocs /\ doc.status = "draft" /\ NamesLines(doc)
                 /\ invoice[r].status # "posted"
  <2>1. CASE \E o \in Orders, qty \in [Lines -> Qtys] : create_invoice(r, o, qty)
    <3>1. PICK o \in Orders, qty \in [Lines -> Qtys] : create_invoice(r, o, qty)
      BY <2>1
    <3> DEFINE doc == [status |-> "draft", order |-> o, qty |-> qty]
    <3>2. doc \in InvoiceDocs
      BY DEF InvoiceDocs
    <3>3. NamesLines(doc)
      BY <3>1 DEF create_invoice, validate_invoice, Names, NamesLines
    <3>4. invoice[r].status = "none"
      BY <3>1 DEF create_invoice, None
    <3> QED BY <3>1, <3>2, <3>3, <3>4 DEF create_invoice
  <2>2. CASE \E qty \in [Lines -> Qtys] : update_invoice(r, qty)
    <3>1. PICK qty \in [Lines -> Qtys] : update_invoice(r, qty)
      BY <2>2
    <3>2. invoice[r].status = "draft" /\ invoice[r] \in InvoiceDocs
      BY <3>1, Documents DEF update_invoice, Standing
    <3> DEFINE doc == [invoice[r] EXCEPT !.qty = qty]
    <3>3. doc \in InvoiceDocs /\ doc.status = "draft" /\ doc.qty = qty /\ doc.order = invoice[r].order
      BY <3>2 DEF InvoiceDocs
    <3>4. invoice' = [invoice EXCEPT ![r] = doc]
      BY <3>1, <3>2 DEF update_invoice, Standing, TypeOK
    <3>5. NamesLines(doc)
      BY <3>1, <3>3 DEF update_invoice, validate_invoice, Names, NamesLines
    <3> HIDE DEF doc
    <3> QED BY <3>2, <3>3, <3>4, <3>5
  <2>3. CASE delete_invoice(r)
    BY <2>3 DEF delete_invoice
  <2> QED BY <2>1, <2>2, <2>3
<1>2. UNCHANGED << order, quantities, level, receipt, preturn >>
  BY DEF create_invoice, update_invoice, delete_invoice, quantities
<1>3. invoice'[r] = doc /\ \A x \in Invoices : x # r => invoice'[x] = invoice[x]
  BY <1>1 DEF Standing, TypeOK
<1>4. invoice' \in [Invoices -> InvoiceDocs \cup {None}]
  BY <1>1 DEF Standing, TypeOK
<1>5. doc.status # "posted"
  BY <1>1 DEF None
<1>6. InvoicesKept
  BY <1>1, <1>3, <1>5 DEF InvoicesKept
<1>7. DoneKept /\ ReturnsKept /\ ReceiptsBring'
  BY <1>2 DEF DoneKept, ReturnsKept, Standing, ReceiptsBring
<1>8. DocumentsName'
  BY <1>1, <1>2, <1>3 DEF Standing, DocumentsName, NamesLines
<1> QED BY <1>2, <1>4, <1>6, <1>7, <1>8, DraftsKeep DEF Standing, TypeOK

----------------------------------------------------------------------------
(* Steps that touch one level, and steps that bill.                         *)

\* Stock that other documents bring or take leaves the demand alone.
LEMMA StockKeeps == ASSUME Standing, Tallies, StockStep PROVE Standing' /\ Tallies'
<1>1. UNCHANGED << order, ordered, received, billed, receipt, preturn, invoice >>
  BY DEF StockStep, issue_stock, receive_stock, quantities, documents
<1>0. PICK g \in Gates, q \in Qtys, c \in Costs \cup {0} :
          \E new : /\ level' = [level EXCEPT ![g] = new]
                  /\ \/ CanIssue(level[g], q, 0) /\ new = Issued(level[g], q, 0)
                     \/ CanReceive(level[g], q, c) /\ new = Received(level[g], q, c)
  BY DEF StockStep, issue_stock, receive_stock
<1>2. PICK new : /\ level' = [level EXCEPT ![g] = new]
                 /\ \/ CanIssue(level[g], q, 0) /\ new = Issued(level[g], q, 0)
                    \/ CanReceive(level[g], q, c) /\ new = Received(level[g], q, c)
  BY <1>0
<1>3. level[g] \in Level /\ SoundLevel(level[g]) /\ q \in Int /\ c \in Int
  BY ProcurementAssumption, MaxQtyAssumption DEF Standing, TypeOK, LevelsSound, Qtys
<1>4. new \in Level /\ SoundLevel(new)
  BY <1>2, <1>3, IssueKeepsSound, ReceiptKeepsSound
<1>5. new.on_order = level[g].on_order
  BY <1>2, <1>3 DEF Issued, Received, Level
<1>6. level'[g] = new /\ \A h \in Gates : h # g => level'[h] = level[h]
  BY <1>2 DEF Standing, TypeOK
<1>7. Standing'
  <2>1. TypeOK' /\ LevelsSound'
    BY <1>1, <1>2, <1>4, <1>6 DEF Standing, TypeOK, LevelsSound
  <2>2. DocumentsName' /\ ReceiptsBring' /\ OrdersBehind'
    BY <1>1 DEF Standing, DocumentsName, ReceiptsBring, OrdersBehind, ReceiptBehind, NamesLines
  <2> QED BY <2>1, <2>2 DEF Standing
<1>8. Tallies'
  <2>1. PaidGoodsArrived' /\ ReceivedIsDocumented' /\ OverReceiptGuard' /\ StatusFollowsLines'
    BY <1>1 DEF Tallies, PaidGoodsArrived, InvoicedQty, ReceivedIsDocumented, InQty, OutQty, ReturnedQty,
       Done, Unreversed, OverReceiptGuard, TakenBack, QtyAt, StatusFollowsLines
  <2>2. \A h \in Gates : level'[h].on_order = level[h].on_order
    BY <1>5, <1>6
  <2>3. OnOrderIsOpenDemand'
    BY <1>1, <2>2, DemandKept DEF Tallies, OnOrderIsOpenDemand, TakenBack, QtyAt
  <2> QED BY <2>1, <2>3 DEF Tallies
<1> QED BY <1>7, <1>8

\* An invoice is posted or cancelled.
LEMMA BillingKeeps ==
    ASSUME Standing, Tallies, NEW i \in Invoices, post_invoice(i) \/ cancel_invoice(i)
    PROVE  Standing' /\ Tallies'
<1>1. UNCHANGED << order, ordered, received, level, receipt, preturn >>
  BY DEF post_invoice, cancel_invoice
<1>2. PICK status \in {"posted", "cancelled"} : invoice' = [invoice EXCEPT ![i].status = status]
  BY DEF post_invoice, cancel_invoice
<1>3. invoice[i] # None /\ invoice[i] \in InvoiceDocs
  BY Documents DEF Standing, post_invoice, cancel_invoice
<1> DEFINE doc == [invoice[i] EXCEPT !.status = status]
<1>4. /\ doc \in InvoiceDocs /\ doc.status = status /\ doc.qty = invoice[i].qty
      /\ doc.order = invoice[i].order
  BY <1>3 DEF InvoiceDocs
<1>5. invoice'[i] = doc /\ \A j \in Invoices : j # i => invoice'[j] = invoice[j]
  BY <1>2 DEF Standing, TypeOK
<1>6. invoice' \in [Invoices -> InvoiceDocs \cup {None}]
  <2>1. invoice' = [invoice EXCEPT ![i] = doc]
    BY <1>2 DEF Standing, TypeOK
  <2> HIDE DEF doc
  <2> QED BY <1>4, <2>1 DEF Standing, TypeOK
<1> HIDE DEF doc
<1>7. invoice[i].qty \in [Lines -> Qtys] /\ \A l \in Lines : invoice[i].qty[l] \in Nat /\ received[l] \in Qtys /\ billed[l] \in Qtys
  BY <1>3, MaxQtyAssumption DEF InvoiceDocs, Standing, TypeOK, Qtys
<1>8. ASSUME NEW l \in Lines PROVE billed'[l] = InvoicedQty(l)' /\ billed'[l] \in Qtys /\ billed'[l] <= received[l]
  <2> DEFINE f == [j \in Invoices |-> invoice[j].qty[l]]
             S == { j \in Invoices : invoice[j].status = "posted" }
             others == S \ {i}
  <2>1. billed[l] = Sum(f, S) /\ billed[l] <= received[l]
    BY DEF Tallies, PaidGoodsArrived, InvoicedQty
  <2>2. IsFiniteSet(S) /\ IsFiniteSet(others)
    BY ProcurementAssumption, FS_Subset
  <2>3. f[i] \in Qtys /\ f'[i] = f[i] /\ \A j \in Invoices : f'[j] = f[j]
    BY <1>4, <1>5, <1>7
  <2>4. i \notin others /\ \A j \in others : f'[j] = f[j]
    BY <2>3
  <2>5. Sum(f, others) \in Nat
    BY <2>2, SumType
  <2>6. Sum(f', others) = Sum(f, others) /\ Sum(f, others \cup {i}) = Sum(f, others) + f[i]
        /\ Sum(f', others \cup {i}) = Sum(f, others) + f[i]
    <3> HIDE DEF f, others
    <3>1. Sum(f', others) = Sum(f, others)
      BY <2>4, SumSame
    <3>2. Sum(f, others \cup {i}) = Sum(f, others) + f[i]
      BY <2>2, <2>3, <2>4, SumInsert
    <3>3. Sum(f', others \cup {i}) = Sum(f, others) + f'[i]
      BY <2>2, <2>3, <2>4, SumJoin
    <3> QED BY <2>3, <3>1, <3>2, <3>3
  <2>7. CASE post_invoice(i)
    <3>1. others = S
      BY <2>7 DEF post_invoice
    <3>2. S' = others \cup {i}
      <4>1. invoice'[i].status = "posted"
        BY <1>3, <2>7 DEF post_invoice, Standing, TypeOK, InvoiceDocs
      <4> QED BY <1>5, <4>1
    <3>3. billed'[l] = billed[l] + invoice[i].qty[l] /\ f[i] = invoice[i].qty[l]
      BY <2>7 DEF post_invoice
    <3>4. invoice[i].qty[l] > 0 => billed[l] + invoice[i].qty[l] <= received[l]
      BY <2>7 DEF post_invoice, ThreeWayMatch
    <3>5. InvoicedQty(l)' = Sum(f, others) + f[i]
      BY <2>6, <3>2 DEF InvoicedQty
    <3>6. billed[l] = Sum(f, others)
      BY <2>1, <3>1
    <3> HIDE DEF f, others, S
    <3>7. invoice[i].qty[l] \in Nat /\ billed[l] \in Nat /\ received[l] \in 0..MaxQty /\ billed[l] <= received[l]
      BY <1>7, <2>1, MaxQtyAssumption DEF Qtys
    <3> QED BY <3>3, <3>4, <3>5, <3>6, <3>7, MaxQtyAssumption DEF Qtys
  <2>8. CASE cancel_invoice(i)
    <3>1. S = others \cup {i}
      BY <2>8 DEF cancel_invoice
    <3>2. S' = others
      <4>1. invoice'[i].status = "cancelled"
        BY <1>3, <2>8 DEF cancel_invoice, Standing, TypeOK, InvoiceDocs
      <4> QED BY <1>5, <4>1
    <3>3. billed'[l] = billed[l] - f[i]
      BY <2>8 DEF cancel_invoice
    <3>4. InvoicedQty(l)' = Sum(f, others)
      BY <2>6, <3>2 DEF InvoicedQty
    <3>5. billed[l] = Sum(f, others) + f[i]
      BY <2>1, <2>6, <3>1
    <3> HIDE DEF f, others
    <3> QED BY <1>7, <2>1, <2>3, <2>5, <3>3, <3>4, <3>5, MaxQtyAssumption DEF Qtys
  <2> QED BY <2>7, <2>8
<1>9. billed' \in [Lines -> Qtys]
  <2>1. billed' = [l \in Lines |-> billed'[l]]
    BY DEF post_invoice, cancel_invoice
  <2> QED BY <1>8, <2>1
<1>10. Standing'
  <2>1. TypeOK' /\ LevelsSound'
    BY <1>1, <1>6, <1>9 DEF Standing, TypeOK, LevelsSound
  <2>2. DocumentsName'
    BY <1>1, <1>3, <1>4, <1>5 DEF Standing, DocumentsName, NamesLines
  <2>3. ReceiptsBring' /\ OrdersBehind'
    BY <1>1 DEF Standing, ReceiptsBring, OrdersBehind, ReceiptBehind
  <2> QED BY <2>1, <2>2, <2>3 DEF Standing
<1>11. Tallies'
  <2>1. PaidGoodsArrived'
    BY <1>1, <1>8 DEF PaidGoodsArrived
  <2>2. ReceivedIsDocumented' /\ OverReceiptGuard'
    BY <1>1 DEF Tallies, ReceivedIsDocumented, InQty, OutQty, ReturnedQty,
       Done, Unreversed, OverReceiptGuard, TakenBack, QtyAt
  <2>3. OnOrderIsOpenDemand'
    BY <1>1, DemandKept DEF Tallies, OnOrderIsOpenDemand, TakenBack, QtyAt
  <2>4. StatusFollowsLines'
    <3>1. \A l \in Lines : received[l] = 0 => billed'[l] = 0
      BY <1>7, <1>8, MaxQtyAssumption DEF Qtys
    <3> QED BY <1>1, <3>1 DEF Tallies, StatusFollowsLines, LinesOf
  <2> QED BY <2>1, <2>2, <2>3, <2>4 DEF Tallies
<1> QED BY <1>10, <1>11

----------------------------------------------------------------------------
(* The open demand.                                                         *)

DemandSet(g) == { l \in Lines : GateOf[l] = g /\ order[OrderOf[l]] \in Open }

LEMMA DemandType ==
    ASSUME TypeOK
    PROVE  /\ \A l \in Lines : Remaining[l] \in Qtys /\ Remaining[l] = Greatest(ordered[l] - received[l], 0)
           /\ \A S \in SUBSET Lines : IsFiniteSet(S) /\ Sum(Remaining, S) \in Nat
           /\ \A g : OpenDemand(g) = Sum(Remaining, DemandSet(g))
<1>1. \A l \in Lines : Remaining[l] = Greatest(ordered[l] - received[l], 0)
  BY DEF Remaining
<1>2. \A l \in Lines : ordered[l] \in Qtys /\ received[l] \in Qtys
  BY DEF TypeOK
<1>3. \A l \in Lines : Remaining[l] \in Qtys
  BY <1>1, <1>2, MaxQtyAssumption DEF Greatest, Qtys
<1>4. \A S \in SUBSET Lines : IsFiniteSet(S) /\ Sum(Remaining, S) \in Nat
  BY ProcurementAssumption, FS_Subset, SumType
<1>5. \A g : OpenDemand(g) = Sum(Remaining, DemandSet(g))
  BY DEF OpenDemand, DemandSet
<1> QED BY <1>1, <1>3, <1>4, <1>5

\* The lines of an order at a level are in its open demand, or none is.
LEMMA DemandParts ==
    ASSUME NEW o \in Orders, NEW g
    PROVE  /\ Into(o, g) \subseteq Lines /\ \A l \in Into(o, g) : OrderOf[l] = o /\ GateOf[l] = g
           /\ order[o] \in Open => Into(o, g) \subseteq DemandSet(g)
           /\ order[o] \notin Open => Into(o, g) \cap DemandSet(g) = {}
           /\ \A l \in DemandSet(g) \ Into(o, g) : OrderOf[l] # o
BY DEF Into, LinesOf, DemandSet

----------------------------------------------------------------------------
(* The order.                                                               *)

\* An order that no receipt stands behind received and was billed nothing.
LEMMA NothingReceived ==
    ASSUME Standing, Tallies, NEW o \in Orders, ~ReceiptBehind(o)
    PROVE  \A l \in LinesOf(o) : received[l] = 0 /\ billed[l] = 0
<1> SUFFICES ASSUME NEW l \in LinesOf(o) PROVE received[l] = 0 /\ billed[l] = 0
  OBVIOUS
<1>1. l \in Lines /\ OrderOf[l] = o
  BY DEF LinesOf
<1>2. ~(received[l] > 0)
  BY <1>1 DEF Standing, OrdersBehind
<1>3. received[l] \in Nat /\ billed[l] \in Nat /\ billed[l] <= received[l]
  BY <1>1, MaxQtyAssumption DEF Standing, TypeOK, Qtys, Tallies, PaidGoodsArrived
<1> QED BY <1>2, <1>3

LEMMA OrderKeeps ==
    ASSUME Standing, Tallies, NEW o \in Orders, NEW s \in Statuses,
           order' = [order EXCEPT ![o] = s],
           UNCHANGED << received, billed, receipt, preturn, invoice >>,
           ordered' \in [Lines -> Qtys],
           \A l \in Lines : ordered'[l] # ordered[l] => OrderOf[l] = o /\ order[o] \in {"none", "draft"},
           ReceiptBehind(o) => s \in Open \cup {"closed"},
           s \notin {"received", "partially_received"},
           s = "approved" => order[o] = "submitted",
           level' \in [Gates -> Level], LevelsSound',
           \A g \in Gates : level[g].on_order = OpenDemand(g) => level'[g].on_order = OpenDemand(g)'
    PROVE  Standing' /\ Tallies'
<1>1. order'[o] = s /\ \A x \in Orders : x # o => order'[x] = order[x]
  BY DEF Standing, TypeOK
<1>2. TypeOK'
  BY DEF Standing, TypeOK
<1>3. \A x : ReceiptBehind(x)' <=> ReceiptBehind(x)
  BY DEF ReceiptBehind
<1>4. OrdersBehind'
  BY <1>1, <1>3 DEF Standing, OrdersBehind, ReceiptBehind
<1>5. DocumentsName' /\ ReceiptsBring'
  BY DEF Standing, DocumentsName, ReceiptsBring, NamesLines
<1>6. PaidGoodsArrived' /\ ReceivedIsDocumented'
  BY DEF Tallies, PaidGoodsArrived, InvoicedQty, ReceivedIsDocumented, InQty, OutQty, ReturnedQty,
       Done, Unreversed
<1>7. \A g : TakenBack(g)' <=> TakenBack(g)
  BY DEF TakenBack, QtyAt
<1>8. OnOrderIsOpenDemand'
  BY <1>7 DEF Tallies, OnOrderIsOpenDemand
<1>9. order[o] \in {"none", "draft", "submitted"} => ~ReceiptBehind(o)
  BY DEF Standing, OrdersBehind, Open, receivable
<1>10. OverReceiptGuard'
  <2> SUFFICES ASSUME NEW l \in Lines, ~TakenBack(GateOf[l]) PROVE received[l] <= ordered'[l]
    BY <1>7 DEF OverReceiptGuard
  <2>1. CASE ordered'[l] = ordered[l]
    BY <2>1 DEF Tallies, OverReceiptGuard
  <2>2. CASE ordered'[l] # ordered[l]
    <3>1. OrderOf[l] = o /\ received[l] = 0
      BY <1>9, <2>2, NothingReceived DEF LinesOf
    <3>2. ordered'[l] \in Nat
      BY MaxQtyAssumption DEF Qtys
    <3> QED BY <3>1, <3>2
  <2> QED BY <2>1, <2>2
<1>11. StatusFollowsLines'
  <2>1. s \in {"none", "draft", "submitted", "approved", "cancelled"} => ~ReceiptBehind(o)
    BY <1>9 DEF Open, receivable
  <2>2. s \in {"none", "draft", "submitted", "approved", "cancelled"} =>
          \A l \in LinesOf(o) : received[l] = 0 /\ billed[l] = 0
    BY <2>1, NothingReceived
  <2>3. \A x \in Orders : x # o => \A l \in LinesOf(x) : ordered'[l] = ordered[l]
    BY DEF LinesOf
  <2> QED BY <1>1, <2>2, <2>3 DEF Tallies, StatusFollowsLines, LinesOf
<1> QED BY <1>2, <1>4, <1>5, <1>6, <1>8, <1>10, <1>11 DEF Standing, Tallies

\* An order that does not expect goods, before and after, adds nothing.
LEMMA DemandOfDraft ==
    ASSUME Standing, NEW o \in Orders, NEW s, order[o] \notin Open, s \notin Open,
           order' = [order EXCEPT ![o] = s], received' = received,
           \A l \in Lines : ordered'[l] # ordered[l] => OrderOf[l] = o,
           NEW g \in Gates
    PROVE  OpenDemand(g)' = OpenDemand(g)
<1>1. order'[o] = s /\ \A x \in Orders : x # o => order'[x] = order[x]
  BY DEF Standing, TypeOK
<1>2. DemandSet(g)' = DemandSet(g)
  BY <1>1, ProcurementAssumption DEF DemandSet
<1>3. \A l \in DemandSet(g) : Remaining'[l] = Remaining[l]
  BY DEF DemandSet, Remaining
<1>4. Sum(Remaining', DemandSet(g)) = Sum(Remaining, DemandSet(g))
  BY <1>3, SumSame
<1>5. OpenDemand(g)' = Sum(Remaining', DemandSet(g)')
  BY DEF OpenDemand, DemandSet
<1>6. OpenDemand(g) = Sum(Remaining, DemandSet(g))
  BY DEF OpenDemand, DemandSet
<1> QED BY <1>2, <1>4, <1>5, <1>6

\* The demand of an order that comes to expect goods, or ceases to.
LEMMA DemandOfOrder ==
    ASSUME Standing, NEW o \in Orders, NEW s, order' = [order EXCEPT ![o] = s],
           received' = received, ordered' = ordered, NEW g \in Gates
    PROVE  /\ order[o] \notin Open /\ s \in Open =>
                OpenDemand(g)' = OpenDemand(g) + Sum(Remaining, Into(o, g))
           /\ order[o] \in Open /\ s \notin Open =>
                OpenDemand(g) = OpenDemand(g)' + Sum(Remaining, Into(o, g))
<1> DEFINE S == DemandSet(g)
           I == Into(o, g)
<1>1. order'[o] = s /\ \A x \in Orders : x # o => order'[x] = order[x]
  BY DEF Standing, TypeOK
<1>2. IsFiniteSet(S) /\ IsFiniteSet(I) /\ IsFiniteSet(S \ I)
  BY ProcurementAssumption, FS_Subset DEF DemandSet, Into, LinesOf
<1>3. Remaining' = Remaining
  BY DEF Remaining
<1>4. OpenDemand(g) = Sum(Remaining, S)
  BY DEF OpenDemand, DemandSet
<1>5. OpenDemand(g)' = Sum(Remaining, S')
  BY <1>3 DEF OpenDemand, DemandSet
<1>6. ASSUME order[o] \notin Open, s \in Open
      PROVE  S' = S \cup I /\ S \cap I = {}
  BY <1>1, <1>6, ProcurementAssumption DEF DemandSet, Into, LinesOf
<1>7. ASSUME order[o] \in Open, s \notin Open
      PROVE  S' = S \ I /\ S = (S \ I) \cup I
  BY <1>1, <1>7, ProcurementAssumption DEF DemandSet, Into, LinesOf
<1>8. (S \ I) \cap I = {}
  OBVIOUS
<1> HIDE DEF S, I
<1>9. S \cap I = {} => Sum(Remaining, S \cup I) = Sum(Remaining, S) + Sum(Remaining, I)
  BY <1>2, SumUnion
<1>10. Sum(Remaining, (S \ I) \cup I) = Sum(Remaining, S \ I) + Sum(Remaining, I)
  BY <1>2, <1>8, SumUnion
<1>11. ASSUME order[o] \notin Open, s \in Open
       PROVE  OpenDemand(g)' = OpenDemand(g) + Sum(Remaining, I)
  BY <1>4, <1>5, <1>6, <1>9, <1>11
<1>12. ASSUME order[o] \in Open, s \notin Open
       PROVE  OpenDemand(g) = OpenDemand(g)' + Sum(Remaining, I)
  BY <1>4, <1>5, <1>7, <1>10, <1>12
<1> QED BY <1>11, <1>12 DEF I

\* A change of the open demand leaves a level sound.
LEMMA DemandLevel ==
    ASSUME NEW l \in Level, SoundLevel(l), NEW delta \in Int
    PROVE  /\ adjust_on_order(l, delta) \in Level /\ SoundLevel(adjust_on_order(l, delta))
           /\ adjust_on_order(l, delta).on_order = Greatest(l.on_order + delta, 0)
<1>1. adjust_on_order(l, delta) \in Level /\ SoundLevel(adjust_on_order(l, delta))
  BY ReleaseKeepsSound
<1>2. adjust_on_order(l, delta).on_order = Greatest(l.on_order + delta, 0)
  BY DEF adjust_on_order, Level
<1> QED BY <1>1, <1>2

\* The order is drafted, submitted, approved, cancelled or closed.
LEMMA OrderStepKeeps == ASSUME Standing, Tallies, OrderStep PROVE Standing' /\ Tallies'
<1>0. /\ order \in [Orders -> Statuses] /\ ordered \in [Lines -> Qtys] /\ received \in [Lines -> Qtys]
      /\ level \in [Gates -> Level] /\ TypeOK
  BY DEF Standing, TypeOK
<1>a. \A o \in Orders : ReceiptBehind(o) => order[o] \in Open \cup {"closed"}
  BY DEF Standing, OrdersBehind
<1>b. {"none", "draft", "submitted", "approved", "closed", "cancelled"} \subseteq Statuses
  BY DEF Statuses, Open, receivable
<1> DEFINE demand(o, g) == Sum(Remaining, Into(o, g))
<1>c. \A o, g : demand(o, g) \in Nat
  BY ProcurementAssumption, FS_Subset, SumType DEF Into, LinesOf
<1>d. \A g \in Gates : /\ OpenDemand(g) \in Nat /\ OpenDemand(g)' \in Nat
                       /\ level[g].on_order \in Nat /\ level[g] \in Level /\ SoundLevel(level[g])
  <2>1. \A g \in Gates : OpenDemand(g) \in Nat
    BY <1>0, DemandType DEF DemandSet
  <2>2. ASSUME NEW g \in Gates PROVE OpenDemand(g)' \in Nat
    <3>1. IsFiniteSet(DemandSet(g)')
      BY ProcurementAssumption, FS_Subset DEF DemandSet
    <3>2. Sum(Remaining', DemandSet(g)') \in Nat
      BY <3>1, SumType
    <3> QED BY <3>2 DEF OpenDemand, DemandSet
  <2>3. \A g \in Gates : level[g].on_order \in Nat /\ level[g] \in Level /\ SoundLevel(level[g])
    BY <1>0 DEF Level, Standing, LevelsSound
  <2> QED BY <2>1, <2>2, <2>3
<1> HIDE DEF demand
\* Drafting.
<1>1. ASSUME NEW o \in Orders, NEW s \in {"none", "draft", "submitted", "cancelled"},
             order[o] \in {"none", "draft", "submitted"}, order' = [order EXCEPT ![o] = s],
             ordered' \in [Lines -> Qtys],
             \A l \in Lines : ordered'[l] # ordered[l] => OrderOf[l] = o /\ order[o] \in {"none", "draft"},
             UNCHANGED << received, billed, level, receipt, preturn, invoice >>
      PROVE  Standing' /\ Tallies'
  <2>1. order[o] \notin Open /\ s \notin Open /\ ~ReceiptBehind(o) /\ s \in Statuses
    BY <1>1, <1>a, <1>b DEF Open, receivable
  <2>2. \A g \in Gates : OpenDemand(g)' = OpenDemand(g)
    BY <1>1, <2>1, DemandOfDraft
  <2>3. LevelsSound' /\ level' \in [Gates -> Level]
    BY <1>0, <1>1 DEF Standing, LevelsSound
  <2> QED BY <1>1, <2>1, <2>2, <2>3, OrderKeeps
\* Coming to expect goods.
<1>2. ASSUME NEW o \in Orders, approve(o) PROVE Standing' /\ Tallies'
  <2>1. order' = [order EXCEPT ![o] = "approved"] /\ order[o] = "submitted"
        /\ UNCHANGED << ordered, received, billed, receipt, preturn, invoice >>
    BY <1>2 DEF approve, quantities, documents
  <2>2. ~ReceiptBehind(o) /\ order[o] \notin Open /\ "approved" \in Open
    BY <1>a, <2>1 DEF Open, receivable
  <2>3. \A g \in Gates : Sum(ordered, Into(o, g)) = demand(o, g)
    <3>1. \A l \in LinesOf(o) : received[l] = 0
      BY <2>2, NothingReceived
    <3>2. \A l \in LinesOf(o) : Remaining[l] = ordered[l]
      BY <1>0, <3>1, MaxQtyAssumption DEF Remaining, Greatest, Qtys, LinesOf
    <3>3. \A g \in Gates : \A l \in Into(o, g) : ordered[l] = Remaining[l]
      BY <3>2 DEF Into
    <3> QED BY <3>3, SumSame DEF demand
  <2>4. \A g \in Gates : OpenDemand(g)' = OpenDemand(g) + demand(o, g)
    BY <2>1, <2>2, DemandOfOrder DEF demand
  <2>5. ASSUME NEW g \in Gates
        PROVE  /\ level'[g] \in Level /\ SoundLevel(level'[g])
               /\ level'[g].on_order = Greatest(level[g].on_order + demand(o, g), 0)
    <3>1. level'[g] = adjust_on_order(level[g], demand(o, g))
      BY <1>2, <2>3 DEF approve
    <3>2. demand(o, g) \in Int
      BY <1>c
    <3> QED BY <1>d, <3>1, <3>2, DemandLevel
  <2>6. \A g \in Gates : level[g].on_order = OpenDemand(g) => level'[g].on_order = OpenDemand(g)'
    BY <1>c, <1>d, <2>4, <2>5 DEF Greatest
  <2>7. LevelsSound' /\ level' \in [Gates -> Level]
    BY <1>2, <2>5 DEF approve, LevelsSound
  <2> QED BY <1>0, <1>b, <2>1, <2>2, <2>6, <2>7, OrderKeeps
\* Ceasing to expect goods.
<1>3. ASSUME NEW o \in Orders, NEW s \in {"cancelled", "closed"}, order[o] \in Open, release_on_order(o),
             s = "cancelled" => ~ReceiptBehind(o),
             order' = [order EXCEPT ![o] = s], UNCHANGED << quantities, documents >>
      PROVE  Standing' /\ Tallies'
  <2>1. UNCHANGED << ordered, received, billed, receipt, preturn, invoice >>
    BY <1>3 DEF quantities, documents
  <2>2. s \notin Open /\ s \in Statuses
    BY <1>b DEF Open, receivable
  <2>3. \A g \in Gates : OpenDemand(g) = OpenDemand(g)' + demand(o, g)
    BY <1>3, <2>1, <2>2, DemandOfOrder DEF demand
  <2>4. ASSUME NEW g \in Gates
        PROVE  /\ level'[g] \in Level /\ SoundLevel(level'[g])
               /\ level'[g].on_order = Greatest(level[g].on_order + (-demand(o, g)), 0)
    <3>1. level'[g] = adjust_on_order(level[g], -demand(o, g))
      BY <1>3 DEF release_on_order, demand
    <3>2. -demand(o, g) \in Int
      BY <1>c
    <3> QED BY <1>d, <3>1, <3>2, DemandLevel
  <2>5. \A g \in Gates : level[g].on_order = OpenDemand(g) => level'[g].on_order = OpenDemand(g)'
    BY <1>c, <1>d, <2>3, <2>4 DEF Greatest
  <2>6. LevelsSound' /\ level' \in [Gates -> Level]
    BY <1>3, <2>4 DEF release_on_order, LevelsSound
  <2>7. s \notin {"received", "partially_received", "approved"}
    OBVIOUS
  <2> QED BY <1>0, <1>3, <2>1, <2>2, <2>5, <2>6, <2>7, OrderKeeps
<1>4. ASSUME NEW o \in Orders, NEW qty \in [Lines -> Qtys], create_order(o, qty) \/ update_order(o, qty)
      PROVE  Standing' /\ Tallies'
  <2>1. order' = [order EXCEPT ![o] = "draft"] /\ order[o] \in {"none", "draft"}
        /\ UNCHANGED << received, billed, level, receipt, preturn, invoice >>
    BY <1>0, <1>4 DEF create_order, update_order, documents
  <2>2. ordered' = [l \in Lines |-> IF OrderOf[l] = o THEN qty[l] ELSE ordered[l]]
    BY <1>4 DEF create_order, update_order, Drafted
  <2>3. ordered' \in [Lines -> Qtys] /\ \A l \in Lines : ordered'[l] # ordered[l] => OrderOf[l] = o
    BY <1>0, <2>2
  <2> QED BY <1>1, <2>1, <2>3
<1>5. ASSUME NEW o \in Orders, delete_order(o) PROVE Standing' /\ Tallies'
  <2>1. order' = [order EXCEPT ![o] = "none"] /\ order[o] = "draft"
        /\ UNCHANGED << received, billed, level, receipt, preturn, invoice >>
    BY <1>5 DEF delete_order, documents
  <2>2. ordered' = [l \in Lines |-> IF OrderOf[l] = o THEN 0 ELSE ordered[l]]
    BY <1>5 DEF delete_order
  <2>3. ordered' \in [Lines -> Qtys] /\ \A l \in Lines : ordered'[l] # ordered[l] => OrderOf[l] = o
    BY <1>0, <2>2, MaxQtyAssumption DEF Qtys
  <2> QED BY <1>1, <2>1, <2>3
<1>6. ASSUME NEW o \in Orders, submit(o) PROVE Standing' /\ Tallies'
  <2>1. order' = [order EXCEPT ![o] = "submitted"] /\ order[o] = "draft"
        /\ UNCHANGED << ordered, received, billed, level, receipt, preturn, invoice >>
    BY <1>6 DEF submit, quantities, documents
  <2> QED BY <1>0, <1>1, <2>1
<1>7. ASSUME NEW o \in Orders, cancel(o) PROVE Standing' /\ Tallies'
  <2>1. order' = [order EXCEPT ![o] = "cancelled"] /\ order[o] \in {"draft", "submitted", "approved"}
        /\ UNCHANGED << ordered, received, billed, receipt, preturn, invoice >>
        /\ UNCHANGED << quantities, documents >>
    BY <1>7 DEF cancel, quantities, documents
  <2>2. ~ReceiptBehind(o)
    BY <1>7 DEF cancel, ReceiptBehind
  <2>3. CASE order[o] = "approved"
    <3>1. release_on_order(o) /\ order[o] \in Open
      BY <1>7, <2>3 DEF cancel, Open, receivable
    <3> QED BY <1>3, <2>1, <2>2, <3>1
  <2>4. CASE order[o] # "approved"
    <3>1. level' = level
      BY <1>7, <2>4 DEF cancel
    <3> QED BY <1>0, <1>1, <2>1, <2>4, <3>1
  <2> QED BY <2>3, <2>4
<1>8. ASSUME NEW o \in Orders, close(o) PROVE Standing' /\ Tallies'
  BY <1>3, <1>8 DEF close
<1>9. CASE \E o \in Orders, qty \in [Lines -> Qtys] : create_order(o, qty) \/ update_order(o, qty)
  BY <1>4, <1>9
<1>10. CASE \E o \in Orders : delete_order(o) \/ submit(o) \/ approve(o) \/ cancel(o) \/ close(o)
  BY <1>2, <1>5, <1>6, <1>7, <1>8, <1>10
<1> QED BY <1>9, <1>10 DEF OrderStep

----------------------------------------------------------------------------
(* Goods that move.  A document brings the lines of its order up (sign 1)   *)
(* or down (sign -1).                                                       *)

IsDoc(doc) ==
    /\ doc.order \in Orders /\ doc.qty \in [Lines -> Qtys] /\ NamesLines(doc)
    /\ order[doc.order] \in Open \cup {"closed"}

\* What the counters count stays within what their columns hold and above what
\* was billed.
Counts(doc, sign) ==
    /\ Counted(doc, sign)
    /\ \A l \in Lines : billed[l] <= received[l] + sign * doc.qty[l]
    /\ UNCHANGED << ordered, billed, invoice >>

LEMMA CountsType ==
    ASSUME Standing, NEW doc, IsDoc(doc), NEW sign \in {1, -1}, Counts(doc, sign)
    PROVE  /\ received' \in [Lines -> Qtys]
           /\ \A l \in Lines : received'[l] = received[l] + sign * doc.qty[l] /\ billed[l] <= received'[l]
           /\ \A l \in Lines : OrderOf[l] # doc.order => doc.qty[l] = 0 /\ received'[l] = received[l]
           /\ order' = [order EXCEPT ![doc.order] = recompute_status(doc.order, received')]
<1>1. received' = [l \in Lines |-> received[l] + sign * doc.qty[l]]
  BY DEF Counts, Counted
<1>2. \A l \in Lines : received'[l] <= MaxQty
  BY <1>1 DEF Counts, Counted
<1>3. \A l \in Lines : doc.qty[l] \in 0..MaxQty /\ received[l] \in 0..MaxQty /\ billed[l] \in 0..MaxQty
  BY DEF IsDoc, Standing, TypeOK, Qtys
<1>4. ASSUME NEW l \in Lines
      PROVE  received'[l] = received[l] + sign * doc.qty[l] /\ received'[l] \in 0..MaxQty /\ billed[l] <= received'[l]
  <2>1. received'[l] = received[l] + sign * doc.qty[l]
    BY <1>1
  <2>2. billed[l] <= received'[l]
    BY <2>1 DEF Counts
  <2>3. received'[l] \in Int
    BY <1>3, <2>1
  <2>4. billed[l] \in Nat
    BY <1>3
  <2> QED BY <1>2, <2>1, <2>2, <2>3, <2>4, MaxQtyAssumption
<1>5. received' \in [Lines -> Qtys]
  BY <1>1, <1>4 DEF Qtys
<1>6. ASSUME NEW l \in Lines, OrderOf[l] # doc.order
      PROVE  doc.qty[l] = 0 /\ received'[l] = received[l]
  <2>1. ~(doc.qty[l] > 0)
    BY <1>6 DEF IsDoc, NamesLines
  <2>2. doc.qty[l] = 0
    BY <1>3, <2>1
  <2> QED BY <1>3, <1>4, <2>2
<1>7. order' = [order EXCEPT ![doc.order] = recompute_status(doc.order, received')]
  BY <1>1 DEF Counts, Counted
<1> QED BY <1>4, <1>5, <1>6, <1>7

\* The status of the order follows; orders that expect goods still do, and
\* closed ones stay closed.
LEMMA CountsStatus ==
    ASSUME Standing, Tallies, NEW doc, IsDoc(doc), NEW sign \in {1, -1}, Counts(doc, sign)
    PROVE  /\ order' \in [Orders -> Statuses]
           /\ \A o \in Orders : (order'[o] \in Open <=> order[o] \in Open)
                                /\ (order'[o] = "closed" <=> order[o] = "closed")
           /\ StatusFollowsLines'
<1> DEFINE o == doc.order
           s == recompute_status(o, received')
<1>1. o \in Orders /\ order[o] \in Open \cup {"closed"}
  BY DEF IsDoc
<1>2. order'[o] = s /\ \A x \in Orders : x # o => order'[x] = order[x]
  BY <1>1, CountsType DEF Standing, TypeOK
<1>3. /\ order[o] \notin Open => s = order[o]
      /\ order[o] \in Open => s \in Open
  BY DEF recompute_status, Open, receivable
<1>4. "closed" \notin Open /\ Open \subseteq Statuses
  BY DEF Open, receivable, Statuses
<1>5. order' \in [Orders -> Statuses]
  <2>1. s \in Statuses
    BY <1>1, <1>3, <1>4 DEF Standing, TypeOK
  <2> HIDE DEF s
  <2>2. order' = [order EXCEPT ![o] = s]
    BY CountsType DEF s
  <2> QED BY <1>1, <2>1, <2>2 DEF Standing, TypeOK
<1>6. \A l \in LinesOf(o) : l \in Lines /\ received'[l] \in Nat /\ ordered[l] \in Nat
  BY CountsType, MaxQtyAssumption DEF LinesOf, Standing, TypeOK, Qtys
<1>7. /\ s = "received" /\ order[o] \in Open => \A l \in LinesOf(o) : received'[l] >= ordered[l]
      /\ s = "partially_received" =>
           /\ \E l \in LinesOf(o) : received'[l] > 0
           /\ \E l \in LinesOf(o) : received'[l] < ordered[l]
      /\ s = "approved" => \A l \in LinesOf(o) : received'[l] = 0
  <2>1. CASE order[o] \in Open
    <3>1. CASE \A l \in LinesOf(o) : received'[l] >= ordered[l]
      BY <2>1, <3>1 DEF recompute_status
    <3>2. CASE /\ ~\A l \in LinesOf(o) : received'[l] >= ordered[l]
               /\ \E l \in LinesOf(o) : received'[l] > 0
      <4>1. \E l \in LinesOf(o) : received'[l] < ordered[l]
        BY <1>6, <3>2
      <4>2. s = "partially_received"
        BY <2>1, <3>2 DEF recompute_status
      <4> QED BY <3>2, <4>1, <4>2
    <3>3. CASE /\ ~\A l \in LinesOf(o) : received'[l] >= ordered[l]
               /\ ~\E l \in LinesOf(o) : received'[l] > 0
      <4>1. \A l \in LinesOf(o) : received'[l] = 0
        BY <1>6, <3>3
      <4>2. s = "approved"
        BY <2>1, <3>3 DEF recompute_status
      <4> QED BY <4>1, <4>2
    <3> QED BY <3>1, <3>2, <3>3
  <2>2. CASE order[o] = "closed"
    BY <1>3, <1>4, <2>2
  <2> QED BY <1>1, <2>1, <2>2
<1>8. s \notin {"none", "draft", "submitted", "cancelled"}
  BY <1>1, <1>3, <1>4 DEF Open, receivable
<1>9. ordered' = ordered /\ billed' = billed
  BY DEF Counts
<1>10. s = "received" => order[o] \in Open
  BY <1>1, <1>3, <1>4 DEF Open
<1> HIDE DEF s
<1>11. StatusFollowsLines'
  <2>1. ASSUME NEW x \in Orders, x # o
        PROVE  \A l \in LinesOf(x) : received'[l] = received[l]
    BY <2>1, CountsType DEF LinesOf
  <2>2. s = "approved" => \A l \in LinesOf(o) : received'[l] = 0 /\ billed[l] = 0
    <3>1. \A l \in LinesOf(o) : billed[l] \in Nat /\ billed[l] <= received'[l]
      BY CountsType, MaxQtyAssumption DEF LinesOf, Standing, TypeOK, Qtys
    <3> QED BY <1>7, <3>1
  <2>3. ASSUME NEW x \in Orders
        PROVE  /\ order'[x] = "received" => \A l \in LinesOf(x) : received'[l] >= ordered[l]
               /\ order'[x] = "partially_received" =>
                    /\ \E l \in LinesOf(x) : received'[l] > 0
                    /\ \E l \in LinesOf(x) : received'[l] < ordered[l]
               /\ order'[x] \in {"none", "draft", "submitted", "approved", "cancelled"} =>
                    \A l \in LinesOf(x) : received'[l] = 0 /\ billed[l] = 0
    <3>1. CASE x = o
      BY <1>2, <1>7, <1>8, <1>10, <2>2, <3>1
    <3>2. CASE x # o
      BY <1>2, <2>1, <3>2 DEF Tallies, StatusFollowsLines
    <3> QED BY <3>1, <3>2
  <2> QED BY <1>9, <2>3 DEF StatusFollowsLines, LinesOf
<1>12. \A x \in Orders : (order'[x] \in Open <=> order[x] \in Open)
                         /\ (order'[x] = "closed" <=> order[x] = "closed")
  BY <1>1, <1>2, <1>3, <1>4
<1> QED BY <1>5, <1>11, <1>12

\* The open demand of a level falls or rises by what the document moves there,
\* where no line was received beyond its order.
LEMMA CountsDemand ==
    ASSUME Standing, Tallies, NEW doc, IsDoc(doc), NEW sign \in {1, -1}, Counts(doc, sign),
           NEW g \in Gates,
           \A l \in Lines : GateOf[l] = g /\ doc.qty[l] > 0 =>
               received[l] <= ordered[l] /\ received'[l] <= ordered[l]
    PROVE  /\ QtyAt(doc, g) \in Nat
           /\ OpenDemand(g) = OpenDemand(g)' + sign * (Reopening(doc) * QtyAt(doc, g))
           /\ OpenDemand(g) \in Nat /\ OpenDemand(g)' \in Nat
<1> DEFINE S == DemandSet(g)
           I == Into(doc.order, g)
           q == doc.qty
<1>1. S' = S
  BY CountsStatus, ProcurementAssumption DEF DemandSet
<1>2. IsFiniteSet(S) /\ S \subseteq Lines /\ IsFiniteSet(I)
  BY ProcurementAssumption, FS_Subset DEF DemandSet, Into, LinesOf
<1>3. OpenDemand(g) = Sum(Remaining, S)
  BY DEF OpenDemand, DemandSet
<1>4. OpenDemand(g)' = Sum(Remaining', S)
  BY <1>1 DEF OpenDemand, DemandSet
<1>5. /\ OpenDemand(g) \in Nat /\ OpenDemand(g)' \in Nat /\ Sum(q, S) \in Nat
      /\ QtyAt(doc, g) = Sum(q, I) /\ QtyAt(doc, g) \in Nat
  BY <1>2, <1>3, <1>4, SumType DEF QtyAt
<1>6. ASSUME NEW l \in Lines
      PROVE  /\ Remaining[l] = Greatest(ordered[l] - received[l], 0)
             /\ Remaining'[l] = Greatest(ordered[l] - received'[l], 0)
             /\ ordered[l] \in 0..MaxQty /\ received[l] \in 0..MaxQty /\ received'[l] \in 0..MaxQty
             /\ q[l] \in 0..MaxQty /\ received'[l] = received[l] + sign * q[l]
  <2>1. ordered' = ordered
    BY DEF Counts
  <2>2. received'[l] \in Qtys /\ received'[l] = received[l] + sign * q[l]
    BY CountsType
  <2>3. ordered[l] \in Qtys /\ received[l] \in Qtys /\ q[l] \in Qtys
    BY DEF Standing, TypeOK, IsDoc
  <2>4. /\ Remaining[l] = Greatest(ordered[l] - received[l], 0)
        /\ Remaining'[l] = Greatest(ordered[l] - received'[l], 0)
    BY <2>1 DEF Remaining
  <2> QED BY <2>2, <2>3, <2>4 DEF Qtys
<1>7. CASE order[doc.order] \notin Open
  <2>1. \A l \in S : OrderOf[l] # doc.order
    BY <1>7 DEF DemandSet
  <2>2. \A l \in S : Remaining'[l] = Remaining[l]
    <3>1. \A l \in S : received'[l] = received[l]
      BY <2>1, CountsType DEF DemandSet
    <3> QED BY <1>2, <1>6, <3>1
  <2>3. Sum(Remaining', S) = Sum(Remaining, S)
    BY <2>2, SumSame
  <2>4. Reopening(doc) = 0
    BY <1>7 DEF Reopening
  <2> QED BY <1>3, <1>4, <1>5, <2>3, <2>4
<1>8. CASE order[doc.order] \in Open
  <2>1. Reopening(doc) = 1
    BY <1>8 DEF Reopening
  <2>2. I \subseteq S /\ \A l \in S \ I : OrderOf[l] # doc.order
    BY <1>8, DemandParts DEF IsDoc
  <2>3. \A l \in S \ I : q[l] = 0
    BY <1>2, <2>2, CountsType
  <2>4. Sum(q, S) = Sum(q, I)
    BY <2>2, <2>3, SumSupport
  <2>5. ASSUME NEW l \in S
        PROVE  /\ Remaining[l] \in Nat /\ Remaining'[l] \in Nat /\ q[l] \in Nat
               /\ Remaining[l] <= MaxQty /\ Remaining'[l] <= MaxQty
               /\ Remaining[l] = Remaining'[l] + sign * q[l]
    <3>1. l \in Lines /\ GateOf[l] = g
      BY DEF DemandSet
    <3>2. CASE q[l] = 0
      <4>1. received'[l] = received[l]
        BY <1>6, <3>1, <3>2
      <4>2. Remaining'[l] = Remaining[l]
        BY <1>6, <3>1, <4>1
      <4>3. Remaining[l] \in Nat /\ Remaining[l] <= MaxQty
        BY <1>6, <3>1, MaxQtyAssumption DEF Greatest
      <4> QED BY <3>2, <4>2, <4>3
    <3>3. CASE q[l] # 0
      <4>1. received[l] <= ordered[l] /\ received'[l] <= ordered[l]
        BY <1>6, <3>1, <3>3
      <4>2. Remaining[l] = ordered[l] - received[l] /\ Remaining'[l] = ordered[l] - received'[l]
        BY <1>6, <3>1, <4>1 DEF Greatest
      <4> QED BY <1>6, <3>1, <4>1, <4>2, MaxQtyAssumption
    <3> QED BY <3>2, <3>3
  <2>6. CASE sign = 1
    <3>1. \A l \in S : /\ Remaining'[l] \in Nat /\ q[l] \in Nat
                       /\ Remaining[l] = Remaining'[l] + q[l] /\ Remaining[l] <= MaxQty
      BY <2>5, <2>6
    <3>2. Sum(Remaining, S) = Sum(Remaining', S) + Sum(q, S)
      BY <1>2, <3>1, SumAdd
    <3> QED BY <1>3, <1>4, <1>5, <2>1, <2>4, <2>6, <3>2
  <2>7. CASE sign = -1
    <3>1. \A l \in S : /\ Remaining[l] \in Nat /\ q[l] \in Nat
                       /\ Remaining'[l] = Remaining[l] + q[l] /\ Remaining'[l] <= MaxQty
      <4>1. ASSUME NEW l \in S PROVE Remaining'[l] = Remaining[l] + q[l]
        BY <2>5, <2>7
      <4> QED BY <2>5, <4>1
    <3>2. Sum(Remaining', S) = Sum(Remaining, S) + Sum(q, S)
      BY <1>2, <3>1, SumAdd
    <3> QED BY <1>3, <1>4, <1>5, <2>1, <2>4, <2>7, <3>2
  <2> QED BY <2>6, <2>7
<1> QED BY <1>5, <1>7, <1>8

\* A level that the document moves goods at says of its demand what it has to.
LEMMA MovedLevels ==
    ASSUME Standing, NEW doc, IsDoc(doc), NEW cost \in Nat, NEW k \in Int,
           \/ CanBring(doc, cost) /\ Levels(Brought(doc, cost), doc, k)
           \/ CanTake(doc) /\ Levels(Taken(doc), doc, k)
    PROVE  /\ level' \in [Gates -> Level] /\ LevelsSound'
           /\ \A g \in Gates : level'[g].on_order = Greatest(level[g].on_order + k * QtyAt(doc, g), 0)
<1>1. PICK moved \in {Brought(doc, cost), Taken(doc)} :
          /\ level' = [g \in Gates |-> adjust_on_order(moved[g], k * QtyAt(doc, g))]
          /\ \/ CanBring(doc, cost) /\ moved = Brought(doc, cost)
             \/ CanTake(doc) /\ moved = Taken(doc)
  BY Zenon DEF Levels
<1>2. ASSUME NEW g \in Gates
      PROVE  /\ level'[g] \in Level /\ SoundLevel(level'[g])
             /\ level'[g].on_order = Greatest(level[g].on_order + k * QtyAt(doc, g), 0)
  <2>1. level[g] \in Level /\ SoundLevel(level[g])
    BY DEF Standing, TypeOK, LevelsSound
  <2>2. QtyAt(doc, g) \in Nat
    BY ProcurementAssumption, FS_Subset, SumType DEF QtyAt, Into, LinesOf
  <2>3. moved[g] \in Level /\ SoundLevel(moved[g]) /\ moved[g].on_order = level[g].on_order
    <3>1. CASE QtyAt(doc, g) = 0
      BY <1>1, <2>1, <3>1 DEF Brought, Taken
    <3>2. CASE QtyAt(doc, g) > 0
      <4>1. CASE CanBring(doc, cost) /\ moved = Brought(doc, cost)
        <5>1. moved[g] = Received(level[g], QtyAt(doc, g), cost) /\ CanReceive(level[g], QtyAt(doc, g), cost)
          BY <3>2, <4>1 DEF Brought, CanBring
        <5>2. Received(level[g], QtyAt(doc, g), cost).on_order = level[g].on_order
          BY <2>1 DEF Received, Level
        <5> QED BY <2>1, <2>2, <5>1, <5>2, ReceiptKeepsSound
      <4>2. CASE CanTake(doc) /\ moved = Taken(doc)
        <5>1. moved[g] = Issued(level[g], QtyAt(doc, g), 0) /\ CanIssue(level[g], QtyAt(doc, g), 0)
          BY <3>2, <4>2 DEF Taken, CanTake
        <5>2. Issued(level[g], QtyAt(doc, g), 0).on_order = level[g].on_order
          BY <2>1 DEF Issued, Level
        <5> QED BY <2>1, <2>2, <5>1, <5>2, IssueKeepsSound
      <4> QED BY <1>1, <4>1, <4>2
    <3> QED BY <2>2, <3>1, <3>2
  <2>4. k * QtyAt(doc, g) \in Int
    BY <2>2
  <2>5. level'[g] = adjust_on_order(moved[g], k * QtyAt(doc, g))
    BY <1>1
  <2> QED BY <2>3, <2>4, <2>5, DemandLevel
<1>3. level' \in [Gates -> Level]
  BY <1>1, <1>2
<1> QED BY <1>2, <1>3 DEF LevelsSound

\* The counters and the levels move together, k being the change of the demand.
Moved(doc, sign, k) ==
    /\ IsDoc(doc) /\ Counts(doc, sign)
    /\ k = -(sign * Reopening(doc))
    /\ level' \in [Gates -> Level] /\ LevelsSound'
    /\ \A g \in Gates : level'[g].on_order = Greatest(level[g].on_order + k * QtyAt(doc, g), 0)

\* The documents say that they did, and none that was done is undone.
Recorded(doc) ==
    /\ receipt' \in [Receipts -> ReceiptDocs \cup {None}]
    /\ preturn' \in [Returns -> ReturnDocs \cup {None}]
    /\ DocumentsName' /\ ReceiptsBring'
    /\ ReceiptBehind(doc.order)'
    /\ \A r \in Receipts : receipt[r].status \in {"posted", "reversed"} =>
          receipt'[r].status \in {"posted", "reversed"} /\ receipt'[r].order = receipt[r].order
    /\ \A r \in Receipts : receipt'[r].status \in {"posted", "reversed"} =>
          receipt'[r].order = doc.order \/ receipt'[r] = receipt[r]
    /\ \A t \in Returns : preturn'[t].status \in {"posted", "reversed"} =>
          preturn'[t].order = doc.order \/ preturn'[t] = preturn[t]

\* Goods moved against a document on record keep the invariant.
LEMMA MoveKeeps ==
    ASSUME Standing, Tallies, NEW doc, NEW sign \in {1, -1}, NEW k \in Int,
           Moved(doc, sign, k), Recorded(doc), ReceivedIsDocumented',
           \A g \in Gates : TakenBack(g) => TakenBack(g)',
           \A l \in Lines : doc.qty[l] > 0 /\ ~TakenBack(GateOf[l])' => received'[l] <= ordered[l]
    PROVE  Standing' /\ Tallies'
<1> USE DEF Moved, Recorded
<1>0. UNCHANGED << ordered, billed, invoice >>
  BY DEF Counts
<1>1. TypeOK'
  BY <1>0, CountsType, CountsStatus DEF Standing, TypeOK
<1>2. \A o : ReceiptBehind(o) => ReceiptBehind(o)'
  BY DEF ReceiptBehind
<1>3. \A o : ReceiptBehind(o)' => ReceiptBehind(o) \/ o = doc.order
  BY DEF ReceiptBehind
<1>4. OrdersBehind'
  <2>1. ASSUME NEW l \in Lines, received'[l] > 0 PROVE ReceiptBehind(OrderOf[l])'
    <3>1. CASE OrderOf[l] = doc.order
      BY <3>1
    <3>2. CASE OrderOf[l] # doc.order
      <4>1. received[l] > 0
        BY <2>1, <3>2, CountsType
      <4>2. ReceiptBehind(OrderOf[l])
        BY <4>1 DEF Standing, OrdersBehind
      <4> QED BY <1>2, <4>2
    <3> QED BY <3>1, <3>2
  <2>2. ASSUME NEW t \in Returns, preturn'[t].status \in {"posted", "reversed"}
        PROVE  ReceiptBehind(preturn[t].order)'
    <3>1. CASE preturn'[t].order = doc.order
      BY <3>1 DEF ReceiptBehind
    <3>2. CASE preturn'[t] = preturn[t]
      <4>1. ReceiptBehind(preturn[t].order)
        BY <2>2, <3>2 DEF Standing, OrdersBehind
      <4> QED BY <1>2, <3>2, <4>1 DEF ReceiptBehind
    <3> QED BY <2>2, <3>1, <3>2
  <2>3. ASSUME NEW o \in Orders, ReceiptBehind(o)' PROVE order'[o] \in Open \cup {"closed"}
    <3>1. order[o] \in Open \cup {"closed"}
      BY <1>3, <2>3 DEF Standing, OrdersBehind, IsDoc
    <3> QED BY <3>1, CountsStatus
  <2> QED BY <2>1, <2>2, <2>3 DEF OrdersBehind
<1>5. PaidGoodsArrived'
  <2>1. \A l \in Lines : InvoicedQty(l)' = InvoicedQty(l)
    BY <1>0, InvoicesTally DEF InvoicesKept
  <2> QED BY <1>0, <2>1, CountsType DEF Tallies, PaidGoodsArrived
<1>6. \A l \in Lines : GateOf[l] \in Gates
  BY ProcurementAssumption
<1>7. OverReceiptGuard'
  <2> SUFFICES ASSUME NEW l \in Lines, ~TakenBack(GateOf[l])' PROVE received'[l] <= ordered[l]
    BY <1>0 DEF OverReceiptGuard
  <2>1. CASE doc.qty[l] > 0
    BY <2>1
  <2>2. CASE ~(doc.qty[l] > 0)
    <3>1. received[l] <= ordered[l]
      BY <1>6 DEF Tallies, OverReceiptGuard
    <3>2. doc.qty[l] = 0 /\ received[l] \in Nat
      BY <2>2, MaxQtyAssumption DEF IsDoc, Qtys, Standing, TypeOK
    <3>3. received'[l] = received[l]
      BY <3>2, CountsType
    <3> QED BY <3>1, <3>3
  <2> QED BY <2>1, <2>2
<1>8. OnOrderIsOpenDemand'
  <2> SUFFICES ASSUME NEW g \in Gates, ~TakenBack(g)' PROVE level'[g].on_order = OpenDemand(g)'
    BY DEF OnOrderIsOpenDemand
  <2>1. \A l \in Lines : GateOf[l] = g /\ doc.qty[l] > 0 =>
           received[l] <= ordered[l] /\ received'[l] <= ordered[l]
    BY DEF Tallies, OverReceiptGuard
  <2>2. /\ QtyAt(doc, g) \in Nat
        /\ OpenDemand(g) = OpenDemand(g)' + sign * (Reopening(doc) * QtyAt(doc, g))
        /\ OpenDemand(g) \in Nat /\ OpenDemand(g)' \in Nat
    BY <2>1, CountsDemand
  <2>3. level[g].on_order = OpenDemand(g)
    BY DEF Tallies, OnOrderIsOpenDemand
  <2>4. level'[g].on_order = Greatest(OpenDemand(g) + k * QtyAt(doc, g), 0)
    BY <2>3
  <2>5. Reopening(doc) \in {0, 1}
    BY DEF Reopening
  <2>6. OpenDemand(g) + k * QtyAt(doc, g) = OpenDemand(g)'
    <3>1. CASE Reopening(doc) = 0
      <4>1. k = 0
        BY <3>1
      <4> QED BY <2>2, <3>1, <4>1
    <3>2. CASE Reopening(doc) = 1 /\ sign = 1
      <4>1. k = -1
        BY <3>2
      <4> QED BY <2>2, <3>2, <4>1
    <3>3. CASE Reopening(doc) = 1 /\ sign = -1
      <4>1. sign * Reopening(doc) = -1
        BY <3>3
      <4>2. k = 1
        BY <4>1
      <4> QED BY <2>2, <3>3, <4>2
    <3> QED BY <2>5, <3>1, <3>2, <3>3
  <2> QED BY <2>2, <2>4, <2>6 DEF Greatest
<1> QED BY <1>1, <1>4, <1>5, <1>7, <1>8, CountsStatus DEF Standing, Tallies

\* A document on record is one that goods may move against.
LEMMA ReceiptIsDoc ==
    ASSUME Standing, NEW r \in Receipts,
           \/ receipt[r].status = "draft" /\ order[receipt[r].order] \in receivable
           \/ receipt[r].status \in {"posted", "reversed"}
    PROVE  IsDoc(receipt[r]) /\ receipt[r] \in ReceiptDocs /\ receipt[r] # None
<1>1. receipt[r] # None /\ receipt[r] \in ReceiptDocs
  BY Documents DEF Standing
<1>2. NamesLines(receipt[r])
  BY <1>1 DEF Standing, DocumentsName
<1>3. receipt[r].order \in Orders /\ receipt[r].qty \in [Lines -> Qtys]
  BY <1>1 DEF ReceiptDocs
<1>4. order[receipt[r].order] \in Open \cup {"closed"}
  <2>1. CASE receipt[r].status \in {"posted", "reversed"}
    BY <1>3, <2>1 DEF Standing, OrdersBehind, ReceiptBehind
  <2> QED BY <2>1 DEF Open
<1> QED BY <1>1, <1>2, <1>3, <1>4 DEF IsDoc

LEMMA ReturnIsDoc ==
    ASSUME Standing, NEW r \in Returns,
           \/ preturn[r].status = "draft" /\ order[preturn[r].order] \in Open \cup {"closed"}
           \/ preturn[r].status \in {"posted", "reversed"}
    PROVE  IsDoc(preturn[r]) /\ preturn[r] \in ReturnDocs /\ preturn[r] # None
<1>1. preturn[r] # None /\ preturn[r] \in ReturnDocs
  BY Documents DEF Standing
<1>2. NamesLines(preturn[r])
  BY <1>1 DEF Standing, DocumentsName
<1>3. preturn[r].order \in Orders /\ preturn[r].qty \in [Lines -> Qtys]
  BY <1>1 DEF ReturnDocs
<1>4. order[preturn[r].order] \in Open \cup {"closed"}
  <2>1. CASE preturn[r].status \in {"posted", "reversed"}
    BY <1>3, <2>1 DEF Standing, OrdersBehind
  <2> QED BY <2>1
<1> QED BY <1>1, <1>2, <1>3, <1>4 DEF IsDoc

\* The lines of the documents and of the orders, as numbers.
LEMMA LineNumbers ==
    ASSUME Standing, Tallies, NEW doc, IsDoc(doc), NEW l \in Lines
    PROVE  /\ doc.qty[l] \in Nat /\ doc.qty[l] \in Qtys
           /\ received[l] \in Nat /\ ordered[l] \in Nat /\ billed[l] \in Nat
           /\ billed[l] <= received[l]
           /\ InQty(l) \in Nat /\ OutQty(l) \in Nat /\ ReturnedQty(l) \in Nat
<1>1. doc.qty[l] \in Qtys /\ received[l] \in Qtys /\ ordered[l] \in Qtys /\ billed[l] \in Qtys
  BY DEF IsDoc, Standing, TypeOK
<1>2. billed[l] <= received[l]
  BY DEF Tallies, PaidGoodsArrived
<1>3. InQty(l) \in Nat /\ OutQty(l) \in Nat /\ ReturnedQty(l) \in Nat
  <2>1. IsFiniteSet({ r \in Done : receipt[r].into }) /\ IsFiniteSet({ r \in Done : ~receipt[r].into })
    BY ProcurementAssumption, FS_Subset DEF Done
  <2>2. IsFiniteSet({ r \in Returns : preturn[r].status = "posted" })
    BY ProcurementAssumption, FS_Subset
  <2> QED BY <2>1, <2>2, SumType DEF InQty, OutQty, ReturnedQty
<1> QED BY <1>1, <1>2, <1>3, MaxQtyAssumption DEF Qtys

\* A receipt is posted.
LEMMA PostReceiptKeeps ==
    ASSUME Standing, Tallies, NEW r \in Receipts, NEW cost \in Costs, post_receipt(r, cost)
    PROVE  Standing' /\ Tallies'
<1>0. PICK d : d = receipt[r]
  OBVIOUS
<1> DEFINE new == [d EXCEPT !.status = "posted"]
<1>1. /\ d.status = "draft" /\ order[d.order] \in receivable
      /\ \A l \in Lines : d.qty[l] > 0 => received[l] + d.qty[l] <= ordered[l]
      /\ CanBring(d, cost) /\ Levels(Brought(d, cost), d, -1) /\ Counted(d, 1)
      /\ UNCHANGED << ordered, billed, preturn, invoice >>
      /\ receipt' = [receipt EXCEPT ![r].status = "posted"]
  BY <1>0 DEF post_receipt, FitsOrder
<1>2. IsDoc(d) /\ d \in ReceiptDocs /\ d # None
  BY <1>0, <1>1, ReceiptIsDoc
<1>3. /\ new \in ReceiptDocs /\ new.status = "posted" /\ new.order = d.order /\ new.qty = d.qty
      /\ new.into = d.into /\ new.reversal = d.reversal
  BY <1>2 DEF ReceiptDocs
<1>4. receipt' = [receipt EXCEPT ![r] = new]
  BY <1>0, <1>1 DEF Standing, TypeOK
<1>5. d.into /\ ~d.reversal
  BY <1>0, <1>1, <1>2 DEF Standing, ReceiptsBring
<1> HIDE DEF new
<1>6. receipt'[r] = new /\ \A x \in Receipts : x # r => receipt'[x] = receipt[x]
  BY <1>4 DEF Standing, TypeOK
<1>7. receipt' \in [Receipts -> ReceiptDocs \cup {None}]
  BY <1>3, <1>4 DEF Standing, TypeOK
<1>8. Counts(d, 1)
  <2>1. \A l \in Lines : billed[l] <= received[l] + 1 * d.qty[l]
    BY <1>2, LineNumbers
  <2> QED BY <1>1, <2>1 DEF Counts
<1>9. \A l \in Lines : received'[l] = received[l] + d.qty[l]
  <2>1. \A l \in Lines : received'[l] = received[l] + 1 * d.qty[l]
    BY <1>2, <1>8, CountsType
  <2> QED BY <1>2, <2>1, LineNumbers
<1>10. Reopening(d) = 1
  BY <1>1 DEF Reopening, Open
<1>11. cost \in Nat /\ -1 \in Int
  BY ProcurementAssumption
<1>12. /\ level' \in [Gates -> Level] /\ LevelsSound'
       /\ \A g \in Gates : level'[g].on_order = Greatest(level[g].on_order + (-1) * QtyAt(d, g), 0)
  BY <1>1, <1>2, <1>11, MovedLevels
<1>13. DocumentsName'
  <2>1. NamesLines(new)
    BY <1>2, <1>3 DEF IsDoc, NamesLines
  <2>2. \A x \in Receipts : receipt'[x] # None => NamesLines(receipt'[x])
    BY <1>6, <2>1 DEF Standing, DocumentsName
  <2>3. preturn' = preturn /\ invoice' = invoice
    BY <1>1
  <2> QED BY <2>2, <2>3 DEF Standing, DocumentsName, NamesLines
<1>14. ReceiptsBring'
  BY <1>3, <1>5, <1>6 DEF Standing, ReceiptsBring
<1>15. ReceiptBehind(d.order)'
  BY <1>3, <1>6 DEF ReceiptBehind
<1>16. \A x \in Receipts : receipt[x].status \in {"posted", "reversed"} =>
          receipt'[x].status \in {"posted", "reversed"} /\ receipt'[x].order = receipt[x].order
  BY <1>0, <1>1, <1>6
<1>17. \A x \in Receipts : receipt'[x].status \in {"posted", "reversed"} =>
          receipt'[x].order = d.order \/ receipt'[x] = receipt[x]
  BY <1>3, <1>6
<1>18. \A g : TakenBack(g)' <=> TakenBack(g)
  BY <1>1 DEF TakenBack, QtyAt
<1>19. ReceivedIsDocumented'
  <2> SUFFICES ASSUME NEW l \in Lines, ~Unreversed(l)'
               PROVE  received'[l] + OutQty(l)' + ReturnedQty(l)' = InQty(l)'
    BY DEF ReceivedIsDocumented
  <2>1. ~Unreversed(l)
    BY <1>0, <1>1, <1>6 DEF Unreversed
  <2> DEFINE f == [x \in Receipts |-> receipt[x].qty[l]]
             ins == { x \in Done : receipt[x].into }
             outs == { x \in Done : ~receipt[x].into }
  <2>2. Done' = Done \cup {r} /\ r \notin Done
    BY <1>0, <1>1, <1>3, <1>6 DEF Done
  <2>3. ins' = ins \cup {r} /\ r \notin ins /\ outs' = outs
    BY <1>0, <1>3, <1>5, <1>6, <2>2 DEF Done
  <2>4. f'[r] = d.qty[l] /\ d.qty[l] \in Qtys /\ \A x \in Receipts : x # r => f'[x] = f[x]
    BY <1>2, <1>3, <1>6, LineNumbers
  <2>5. IsFiniteSet(ins) /\ ins \subseteq Receipts /\ outs \subseteq Receipts /\ r \notin outs
    BY <2>2, ProcurementAssumption, FS_Subset DEF Done
  <2>6. Sum(f', ins \cup {r}) = Sum(f, ins) + f'[r] /\ Sum(f', outs) = Sum(f, outs)
    <3>1. (\A x \in ins : f[x] = f'[x]) /\ (\A x \in outs : f'[x] = f[x])
      BY <2>3, <2>4, <2>5
    <3> HIDE DEF f, ins, outs
    <3>2. Sum(f', ins \cup {r}) = Sum(f, ins) + f'[r]
      BY <2>3, <2>4, <2>5, <3>1, SumJoin
    <3>3. Sum(f', outs) = Sum(f, outs)
      BY <3>1, SumSame
    <3> QED BY <3>2, <3>3
  <2>7. InQty(l)' = InQty(l) + d.qty[l] /\ OutQty(l)' = OutQty(l)
    BY <2>3, <2>4, <2>6 DEF InQty, OutQty
  <2>8. ReturnedQty(l)' = ReturnedQty(l)
    BY <1>1 DEF ReturnedQty
  <2>9. received[l] + OutQty(l) + ReturnedQty(l) = InQty(l)
    BY <2>1 DEF Tallies, ReceivedIsDocumented
  <2>10. /\ received[l] \in Nat /\ OutQty(l) \in Nat /\ ReturnedQty(l) \in Nat /\ d.qty[l] \in Nat
         /\ InQty(l) \in Nat
    BY <1>2, LineNumbers
  <2>11. received'[l] = received[l] + d.qty[l]
    BY <1>9
  <2> QED BY <2>7, <2>8, <2>9, <2>10, <2>11
<1>20. \A l \in Lines : d.qty[l] > 0 /\ ~TakenBack(GateOf[l])' => received'[l] <= ordered[l]
  BY <1>1, <1>9
<1>21. Moved(d, 1, -1)
  <2>1. -1 = -(1 * Reopening(d))
    BY <1>10
  <2> QED BY <1>2, <1>8, <1>12, <2>1 DEF Moved
<1>22. Recorded(d)
  <2>1. preturn' \in [Returns -> ReturnDocs \cup {None}] /\ preturn' = preturn
    BY <1>1 DEF Standing, TypeOK
  <2> QED BY <1>7, <1>13, <1>14, <1>15, <1>16, <1>17, <2>1 DEF Recorded
<1> QED BY <1>11, <1>18, <1>19, <1>20, <1>21, <1>22, MoveKeeps

\* A return is posted.
LEMMA PostReturnKeeps ==
    ASSUME Standing, Tallies, NEW r \in Returns, post_return(r)
    PROVE  Standing' /\ Tallies'
<1>0. PICK d : d = preturn[r]
  OBVIOUS
<1> DEFINE new == [d EXCEPT !.status = "posted"]
<1>1. /\ d.status = "draft" /\ order[d.order] \in Open \cup {"closed"}
      /\ \A l \in LinesOf(d.order) : d.qty[l] > 0 => d.qty[l] <= received[l] - billed[l]
      /\ CanTake(d) /\ Levels(Taken(d), d, Reopening(d)) /\ Counted(d, -1)
      /\ UNCHANGED << ordered, billed, receipt, invoice >>
      /\ preturn' = [preturn EXCEPT ![r].status = "posted"]
  BY <1>0 DEF post_return, Returnable
<1>2. IsDoc(d) /\ d \in ReturnDocs /\ d # None
  BY <1>0, <1>1, ReturnIsDoc
<1>3. new \in ReturnDocs /\ new.status = "posted" /\ new.order = d.order /\ new.qty = d.qty
  BY <1>2 DEF ReturnDocs
<1>4. preturn' = [preturn EXCEPT ![r] = new]
  BY <1>0, <1>1 DEF Standing, TypeOK
<1> HIDE DEF new
<1>5. preturn'[r] = new /\ \A x \in Returns : x # r => preturn'[x] = preturn[x]
  BY <1>4 DEF Standing, TypeOK
<1>6. preturn' \in [Returns -> ReturnDocs \cup {None}]
  BY <1>3, <1>4 DEF Standing, TypeOK
<1>7. \A l \in Lines : d.qty[l] > 0 => d.qty[l] <= received[l] - billed[l]
  BY <1>1, <1>2 DEF IsDoc, NamesLines, LinesOf
<1>8. Counts(d, -1)
  <2>1. \A l \in Lines : billed[l] <= received[l] + (-1) * d.qty[l]
    <3>1. SUFFICES ASSUME NEW l \in Lines PROVE billed[l] <= received[l] + (-1) * d.qty[l]
      OBVIOUS
    <3>2. d.qty[l] \in Nat /\ received[l] \in Nat /\ billed[l] \in Nat /\ billed[l] <= received[l]
      BY <1>2, LineNumbers
    <3>3. d.qty[l] > 0 => d.qty[l] <= received[l] - billed[l]
      BY <1>7
    <3> QED BY <3>2, <3>3
  <2> QED BY <1>1, <2>1 DEF Counts
<1>9. \A l \in Lines : received'[l] = received[l] - d.qty[l] /\ received'[l] <= received[l]
  <2>1. \A l \in Lines : received'[l] = received[l] + (-1) * d.qty[l]
    BY <1>2, <1>8, CountsType
  <2> QED BY <1>2, <2>1, LineNumbers
<1>10. /\ level' \in [Gates -> Level] /\ LevelsSound'
       /\ \A g \in Gates : level'[g].on_order = Greatest(level[g].on_order + Reopening(d) * QtyAt(d, g), 0)
  <2>1. Reopening(d) \in Int /\ 0 \in Nat
    BY DEF Reopening
  <2> QED BY <1>1, <1>2, <2>1, MovedLevels
<1>11. ReceiptBehind(d.order)
  <2>1. PICK l \in Lines : d.qty[l] > 0
    BY <1>2 DEF IsDoc, NamesLines
  <2>2. received[l] > 0
    <3>1. d.qty[l] \in Nat /\ received[l] \in Nat /\ billed[l] \in Nat
      BY <1>2, LineNumbers
    <3>2. d.qty[l] <= received[l] - billed[l]
      BY <1>7, <2>1
    <3> QED BY <2>1, <3>1, <3>2
  <2>3. OrderOf[l] = d.order
    BY <1>2, <2>1 DEF IsDoc, NamesLines
  <2> QED BY <2>2, <2>3 DEF Standing, OrdersBehind
<1>12. DocumentsName'
  <2>1. NamesLines(new)
    BY <1>2, <1>3 DEF IsDoc, NamesLines
  <2>2. \A x \in Returns : preturn'[x] # None => NamesLines(preturn'[x])
    BY <1>5, <2>1 DEF Standing, DocumentsName
  <2>3. receipt' = receipt /\ invoice' = invoice
    BY <1>1
  <2> QED BY <2>2, <2>3 DEF Standing, DocumentsName, NamesLines
<1>13. Recorded(d)
  <2>1. receipt' \in [Receipts -> ReceiptDocs \cup {None}] /\ receipt' = receipt
    BY <1>1 DEF Standing, TypeOK
  <2>2. ReceiptsBring'
    BY <2>1 DEF Standing, ReceiptsBring
  <2>3. ReceiptBehind(d.order)'
    BY <1>11, <2>1 DEF ReceiptBehind
  <2>4. \A x \in Returns : preturn'[x].status \in {"posted", "reversed"} =>
           preturn'[x].order = d.order \/ preturn'[x] = preturn[x]
    BY <1>3, <1>5
  <2> QED BY <1>6, <1>12, <2>1, <2>2, <2>3, <2>4 DEF Recorded
<1>14. \A g \in Gates : TakenBack(g) => TakenBack(g)'
  <2>1. \A x \in Returns : preturn[x].status = "reversed" => preturn'[x] = preturn[x]
    BY <1>0, <1>1, <1>5
  <2> QED BY <2>1 DEF TakenBack, QtyAt
<1>15. \A l \in Lines : d.qty[l] > 0 /\ ~TakenBack(GateOf[l])' => received'[l] <= ordered[l]
  <2>1. ASSUME NEW l \in Lines, ~TakenBack(GateOf[l])' PROVE received'[l] <= ordered[l]
    <3>1. ~TakenBack(GateOf[l])
      BY <1>14, <2>1, ProcurementAssumption
    <3>2. received[l] <= ordered[l]
      BY <3>1 DEF Tallies, OverReceiptGuard
    <3>3. received[l] \in Nat /\ ordered[l] \in Nat /\ d.qty[l] \in Nat
      BY <1>2, LineNumbers
    <3>4. received'[l] = received[l] - d.qty[l]
      BY <1>9
    <3> QED BY <3>2, <3>3, <3>4
  <2> QED BY <2>1
<1>16. ReceivedIsDocumented'
  <2> SUFFICES ASSUME NEW l \in Lines, ~Unreversed(l)'
               PROVE  received'[l] + OutQty(l)' + ReturnedQty(l)' = InQty(l)'
    BY DEF ReceivedIsDocumented
  <2>1. ~Unreversed(l) /\ InQty(l)' = InQty(l) /\ OutQty(l)' = OutQty(l)
    BY <1>1 DEF Unreversed, InQty, OutQty, Done
  <2> DEFINE f == [x \in Returns |-> preturn[x].qty[l]]
             S == { x \in Returns : preturn[x].status = "posted" }
  <2>2. S' = S \cup {r} /\ r \notin S
    BY <1>0, <1>1, <1>3, <1>5
  <2>3. f'[r] = d.qty[l] /\ d.qty[l] \in Qtys /\ \A x \in S : f[x] = f'[x]
    BY <1>2, <1>3, <1>5, <2>2, LineNumbers
  <2>4. IsFiniteSet(S)
    BY ProcurementAssumption, FS_Subset
  <2>5. Sum(f', S \cup {r}) = Sum(f, S) + f'[r]
    <3>1. f'[r] \in Qtys /\ \A x \in S : f[x] = f'[x]
      BY <2>3
    <3>2. r \notin S
      BY <2>2
    <3> HIDE DEF f, S
    <3> QED BY <2>4, <3>1, <3>2, SumJoin
  <2>6. ReturnedQty(l)' = ReturnedQty(l) + d.qty[l]
    BY <2>2, <2>3, <2>5 DEF ReturnedQty
  <2>7. received[l] + OutQty(l) + ReturnedQty(l) = InQty(l)
    BY <2>1 DEF Tallies, ReceivedIsDocumented
  <2>8. /\ received[l] \in Nat /\ OutQty(l) \in Nat /\ ReturnedQty(l) \in Nat /\ d.qty[l] \in Nat
        /\ InQty(l) \in Nat
    BY <1>2, LineNumbers
  <2>9. received'[l] = received[l] - d.qty[l]
    BY <1>9
  <2> QED BY <2>1, <2>6, <2>7, <2>8, <2>9
<1>17. Moved(d, -1, Reopening(d)) /\ Reopening(d) \in Int /\ -1 \in {1, -1}
  <2>1. Reopening(d) \in Int
    BY DEF Reopening
  <2>2. Reopening(d) = -((-1) * Reopening(d))
    BY <2>1
  <2> QED BY <1>2, <1>8, <1>10, <2>1, <2>2 DEF Moved
<1> QED BY <1>13, <1>14, <1>15, <1>16, <1>17, MoveKeeps

\* A return comes home.
LEMMA ReverseReturnKeeps ==
    ASSUME Standing, Tallies, NEW r \in Returns, NEW cost \in Costs, reverse_return(r, cost)
    PROVE  Standing' /\ Tallies'
<1>0. PICK d : d = preturn[r]
  OBVIOUS
<1> DEFINE new == [d EXCEPT !.status = "reversed"]
<1>1. /\ d.status = "posted"
      /\ CanBring(d, cost) /\ Levels(Brought(d, cost), d, -Reopening(d)) /\ Counted(d, 1)
      /\ UNCHANGED << ordered, billed, receipt, invoice >>
      /\ preturn' = [preturn EXCEPT ![r].status = "reversed"]
  BY <1>0 DEF reverse_return, ComesHome
<1>2. IsDoc(d) /\ d \in ReturnDocs /\ d # None
  BY <1>0, <1>1, ReturnIsDoc
<1>3. new \in ReturnDocs /\ new.status = "reversed" /\ new.order = d.order /\ new.qty = d.qty
  BY <1>2 DEF ReturnDocs
<1>4. preturn' = [preturn EXCEPT ![r] = new]
  BY <1>0, <1>1 DEF Standing, TypeOK
<1> HIDE DEF new
<1>5. preturn'[r] = new /\ \A x \in Returns : x # r => preturn'[x] = preturn[x]
  BY <1>4 DEF Standing, TypeOK
<1>6. preturn' \in [Returns -> ReturnDocs \cup {None}]
  BY <1>3, <1>4 DEF Standing, TypeOK
<1>7. cost \in Nat /\ -Reopening(d) \in Int
  BY ProcurementAssumption DEF Reopening
<1>8. Counts(d, 1)
  <2>1. \A l \in Lines : billed[l] <= received[l] + 1 * d.qty[l]
    BY <1>2, LineNumbers
  <2> QED BY <1>1, <2>1 DEF Counts
<1>9. \A l \in Lines : received'[l] = received[l] + d.qty[l]
  <2>1. \A l \in Lines : received'[l] = received[l] + 1 * d.qty[l]
    BY <1>2, <1>8, CountsType
  <2> QED BY <1>2, <2>1, LineNumbers
<1>10. /\ level' \in [Gates -> Level] /\ LevelsSound'
       /\ \A g \in Gates : level'[g].on_order = Greatest(level[g].on_order + (-Reopening(d)) * QtyAt(d, g), 0)
  BY <1>1, <1>2, <1>7, MovedLevels
<1>11. ReceiptBehind(d.order)
  BY <1>0, <1>1 DEF Standing, OrdersBehind
<1>12. DocumentsName'
  <2>1. NamesLines(new)
    BY <1>2, <1>3 DEF IsDoc, NamesLines
  <2>2. \A x \in Returns : preturn'[x] # None => NamesLines(preturn'[x])
    BY <1>5, <2>1 DEF Standing, DocumentsName
  <2>3. receipt' = receipt /\ invoice' = invoice
    BY <1>1
  <2> QED BY <2>2, <2>3 DEF Standing, DocumentsName, NamesLines
<1>13. Recorded(d)
  <2>1. receipt' \in [Receipts -> ReceiptDocs \cup {None}] /\ receipt' = receipt
    BY <1>1 DEF Standing, TypeOK
  <2>2. ReceiptsBring'
    BY <2>1 DEF Standing, ReceiptsBring
  <2>3. ReceiptBehind(d.order)'
    BY <1>11, <2>1 DEF ReceiptBehind
  <2>4. \A x \in Returns : preturn'[x].status \in {"posted", "reversed"} =>
           preturn'[x].order = d.order \/ preturn'[x] = preturn[x]
    BY <1>3, <1>5
  <2> QED BY <1>6, <1>12, <2>1, <2>2, <2>3, <2>4 DEF Recorded
<1>14. \A g \in Gates : TakenBack(g) => TakenBack(g)'
  <2>1. \A x \in Returns : preturn[x].status = "reversed" => preturn'[x] = preturn[x]
    BY <1>0, <1>1, <1>5
  <2> QED BY <2>1 DEF TakenBack, QtyAt
<1>15. \A l \in Lines : d.qty[l] > 0 /\ ~TakenBack(GateOf[l])' => received'[l] <= ordered[l]
  <2> SUFFICES ASSUME NEW l \in Lines, d.qty[l] > 0 PROVE TakenBack(GateOf[l])'
    OBVIOUS
  <2>1. PICK g \in Gates : g = GateOf[l]
    BY ProcurementAssumption
  <2>2. l \in Into(d.order, g) /\ IsFiniteSet(Into(d.order, g)) /\ Into(d.order, g) \subseteq Lines
    BY <1>2, <2>1, ProcurementAssumption, FS_Subset DEF IsDoc, NamesLines, Into, LinesOf
  <2>3. \A k \in Into(d.order, g) : d.qty[k] \in Qtys
    BY <1>2, <2>2 DEF IsDoc
  <2>4. QtyAt(d, g) # 0
    BY <2>2, <2>3, SumZeroOnly DEF QtyAt
  <2>5. QtyAt(d, g) \in Nat
    BY <2>2, SumType DEF QtyAt
  <2>6. QtyAt(new, g) > 0 /\ QtyAt(new, g) = QtyAt(d, g)
    BY <1>3, <2>4, <2>5 DEF QtyAt
  <2>7. TakenBack(g)'
    BY <1>3, <1>5, <2>6 DEF TakenBack, QtyAt
  <2> QED BY <2>1, <2>7
<1>16. ReceivedIsDocumented'
  <2> SUFFICES ASSUME NEW l \in Lines, ~Unreversed(l)'
               PROVE  received'[l] + OutQty(l)' + ReturnedQty(l)' = InQty(l)'
    BY DEF ReceivedIsDocumented
  <2>1. ~Unreversed(l) /\ InQty(l)' = InQty(l) /\ OutQty(l)' = OutQty(l)
    BY <1>1 DEF Unreversed, InQty, OutQty, Done
  <2> DEFINE f == [x \in Returns |-> preturn[x].qty[l]]
             S == { x \in Returns : preturn[x].status = "posted" }
             T == S \ {r}
  <2>2. S' = T /\ S = T \cup {r} /\ r \notin T /\ T \subseteq Returns
    BY <1>0, <1>1, <1>3, <1>5
  <2>3. f[r] = d.qty[l] /\ d.qty[l] \in Qtys /\ \A x \in T : f'[x] = f[x]
    BY <1>0, <1>2, <1>5, LineNumbers
  <2>4. IsFiniteSet(T)
    BY <2>2, ProcurementAssumption, FS_Subset
  <2>5. Sum(f, T \cup {r}) = Sum(f', T) + f[r]
    <3>1. f[r] \in Qtys /\ \A x \in T : f'[x] = f[x]
      BY <2>3
    <3> HIDE DEF f, S, T
    <3> QED BY <2>2, <2>4, <3>1, SumJoin
  <2>6. ReturnedQty(l) = Sum(f, S) /\ ReturnedQty(l)' = Sum(f', S')
    BY DEF ReturnedQty
  <2>7. ReturnedQty(l) = ReturnedQty(l)' + d.qty[l]
    <3> HIDE DEF f, S, T
    <3> QED BY <2>2, <2>3, <2>5, <2>6
  <2>8. received[l] + OutQty(l) + ReturnedQty(l) = InQty(l)
    BY <2>1 DEF Tallies, ReceivedIsDocumented
  <2>9. /\ received[l] \in Nat /\ OutQty(l) \in Nat /\ ReturnedQty(l)' \in Nat /\ d.qty[l] \in Nat
        /\ InQty(l) \in Nat
    <3>1. ReturnedQty(l)' \in Nat
      <4> HIDE DEF f, S, T
      <4> QED BY <2>2, <2>4, <2>6, SumType
    <3> QED BY <1>2, <3>1, LineNumbers
  <2>10. received'[l] = received[l] + d.qty[l]
    BY <1>9
  <2> QED BY <2>1, <2>7, <2>8, <2>9, <2>10
<1>17. Moved(d, 1, -Reopening(d))
  <2>1. -Reopening(d) = -(1 * Reopening(d))
    BY DEF Reopening
  <2> QED BY <1>2, <1>8, <1>10, <2>1 DEF Moved
<1> QED BY <1>7, <1>13, <1>14, <1>15, <1>16, <1>17, MoveKeeps

\* A receipt is reversed.
LEMMA ReverseReceiptKeeps ==
    ASSUME Standing, Tallies, NEW r \in Receipts, NEW n \in Receipts, NEW cost \in Costs,
           reverse_receipt(r, n, cost)
    PROVE  Standing' /\ Tallies'
<1>0. PICK d : d = receipt[r]
  OBVIOUS
<1> DEFINE old == [d EXCEPT !.status = "reversed"]
           new == [d EXCEPT !.into = ~@, !.reversal = TRUE]
<1>1. /\ d.status = "posted" /\ receipt[n] = None
      /\ \A l \in Lines : d.qty[l] > 0 => billed[l] <= received[l] - d.qty[l]
      /\ \/ d.into /\ CanTake(d) /\ Levels(Taken(d), d, Reopening(d))
         \/ ~d.into /\ CanBring(d, cost) /\ Levels(Brought(d, cost), d, Reopening(d))
      /\ Counted(d, -1)
      /\ UNCHANGED << ordered, billed, preturn, invoice >>
      /\ receipt' = [receipt EXCEPT ![r].status = "reversed", ![n] = new]
  BY <1>0 DEF reverse_receipt, UnbilledReceipt, Mirrored, reversal
<1>2. IsDoc(d) /\ d \in ReceiptDocs /\ d # None
  BY <1>0, <1>1, ReceiptIsDoc
<1>3. /\ old \in ReceiptDocs /\ old.status = "reversed" /\ old.order = d.order /\ old.qty = d.qty
      /\ old.into = d.into /\ old.reversal = d.reversal
  BY <1>2 DEF ReceiptDocs
<1>4. /\ new \in ReceiptDocs /\ new.status = "posted" /\ new.order = d.order /\ new.qty = d.qty
      /\ new.into = ~d.into /\ new.reversal = TRUE
  BY <1>1, <1>2 DEF ReceiptDocs
<1>5. n # r
  BY <1>0, <1>1, <1>2
<1>6. receipt' = [receipt EXCEPT ![r] = old, ![n] = new]
  BY <1>0, <1>1, <1>5 DEF Standing, TypeOK
<1> HIDE DEF old, new
<1>7. receipt'[r] = old /\ receipt'[n] = new
      /\ \A x \in Receipts : x # r /\ x # n => receipt'[x] = receipt[x]
  BY <1>5, <1>6 DEF Standing, TypeOK
<1>8. receipt' \in [Receipts -> ReceiptDocs \cup {None}]
  BY <1>3, <1>4, <1>6 DEF Standing, TypeOK
<1>9. ~d.into => d.reversal
  BY <1>0, <1>2 DEF Standing, ReceiptsBring
<1>10. None.status = "none"
  BY DEF None
<1>11. Counts(d, -1)
  <2>1. \A l \in Lines : billed[l] <= received[l] + (-1) * d.qty[l]
    <3>1. SUFFICES ASSUME NEW l \in Lines PROVE billed[l] <= received[l] + (-1) * d.qty[l]
      OBVIOUS
    <3>2. d.qty[l] \in Nat /\ received[l] \in Nat /\ billed[l] \in Nat /\ billed[l] <= received[l]
      BY <1>2, LineNumbers
    <3>3. d.qty[l] > 0 => billed[l] <= received[l] - d.qty[l]
      BY <1>1
    <3> QED BY <3>2, <3>3
  <2> QED BY <1>1, <2>1 DEF Counts
<1>12. \A l \in Lines : received'[l] = received[l] - d.qty[l]
  <2>1. \A l \in Lines : received'[l] = received[l] + (-1) * d.qty[l]
    BY <1>2, <1>11, CountsType
  <2> QED BY <1>2, <2>1, LineNumbers
<1>13. /\ level' \in [Gates -> Level] /\ LevelsSound'
       /\ \A g \in Gates : level'[g].on_order = Greatest(level[g].on_order + Reopening(d) * QtyAt(d, g), 0)
  <2>1. Reopening(d) \in Int /\ cost \in Nat
    BY ProcurementAssumption DEF Reopening
  <2> QED BY <1>1, <1>2, <2>1, MovedLevels
<1>14. DocumentsName'
  <2>1. NamesLines(old) /\ NamesLines(new)
    BY <1>2, <1>3, <1>4 DEF IsDoc, NamesLines
  <2>2. \A x \in Receipts : receipt'[x] # None => NamesLines(receipt'[x])
    BY <1>7, <2>1 DEF Standing, DocumentsName
  <2>3. preturn' = preturn /\ invoice' = invoice
    BY <1>1
  <2> QED BY <2>2, <2>3 DEF Standing, DocumentsName, NamesLines
<1>15. ReceiptsBring'
  <2>1. \A x \in Receipts : receipt'[x] # None =>
           /\ ~receipt'[x].reversal => receipt'[x].into
           /\ receipt'[x].reversal => receipt'[x].status # "draft"
    BY <1>3, <1>4, <1>7, <1>9 DEF Standing, ReceiptsBring
  <2> QED BY <2>1 DEF ReceiptsBring
<1>16. Recorded(d)
  <2>1. preturn' \in [Returns -> ReturnDocs \cup {None}] /\ preturn' = preturn
    BY <1>1 DEF Standing, TypeOK
  <2>2. ReceiptBehind(d.order)'
    BY <1>3, <1>7 DEF ReceiptBehind
  <2>3. \A x \in Receipts : receipt[x].status \in {"posted", "reversed"} =>
           receipt'[x].status \in {"posted", "reversed"} /\ receipt'[x].order = receipt[x].order
    BY <1>0, <1>1, <1>3, <1>7, <1>10
  <2>4. \A x \in Receipts : receipt'[x].status \in {"posted", "reversed"} =>
           receipt'[x].order = d.order \/ receipt'[x] = receipt[x]
    BY <1>3, <1>4, <1>7
  <2> QED BY <1>8, <1>14, <1>15, <2>1, <2>2, <2>3, <2>4 DEF Recorded
<1>17. \A g \in Gates : TakenBack(g)' <=> TakenBack(g)
  BY <1>1 DEF TakenBack, QtyAt
<1>18. \A l \in Lines : d.qty[l] > 0 /\ ~TakenBack(GateOf[l])' => received'[l] <= ordered[l]
  <2> SUFFICES ASSUME NEW l \in Lines, ~TakenBack(GateOf[l])' PROVE received'[l] <= ordered[l]
    OBVIOUS
  <2>1. ~TakenBack(GateOf[l])
    BY <1>17, ProcurementAssumption
  <2>2. received[l] <= ordered[l]
    BY <2>1 DEF Tallies, OverReceiptGuard
  <2>3. received[l] \in Nat /\ ordered[l] \in Nat /\ d.qty[l] \in Nat
    BY <1>2, LineNumbers
  <2>4. received'[l] = received[l] - d.qty[l]
    BY <1>12
  <2> QED BY <2>2, <2>3, <2>4
<1>19. ReceivedIsDocumented'
  <2> SUFFICES ASSUME NEW l \in Lines, ~Unreversed(l)'
               PROVE  received'[l] + OutQty(l)' + ReturnedQty(l)' = InQty(l)'
    BY DEF ReceivedIsDocumented
  <2>1. ~Unreversed(l)
    <3>1. \A x \in Receipts : receipt[x].status = "reversed" => receipt'[x] = receipt[x]
      BY <1>0, <1>1, <1>7, <1>10
    <3> QED BY <3>1 DEF Unreversed
  <2>2. d.reversal => ~(d.qty[l] > 0)
    BY <1>3, <1>7 DEF Unreversed
  <2> DEFINE f == [x \in Receipts |-> receipt[x].qty[l]]
             ins == { x \in Done : receipt[x].into }
             outs == { x \in Done : ~receipt[x].into }
  <2>3. Done' = Done \cup {n} /\ n \notin Done
    <3>1. receipt[r].status = "posted" /\ receipt[n].status = "none"
      BY <1>0, <1>1, <1>10
    <3>2. receipt'[r].status = "reversed" /\ receipt'[n].status = "posted"
      BY <1>3, <1>4, <1>7
    <3>3. \A x \in Receipts : x \in Done' <=> x \in Done \/ x = n
      BY <1>7, <3>1, <3>2 DEF Done
    <3> QED BY <3>1, <3>3 DEF Done
  <2>3a. \A x \in Done : receipt'[x].into <=> receipt[x].into
    <3>1. receipt'[r].into <=> receipt[r].into
      BY <1>0, <1>3, <1>7
    <3> QED BY <1>7, <2>3, <3>1 DEF Done
  <2>3b. receipt'[n].into <=> ~d.into
    BY <1>4, <1>7
  <2>4. f'[n] = d.qty[l] /\ d.qty[l] \in Qtys /\ \A x \in Receipts : x # n => f'[x] = f[x]
    BY <1>0, <1>2, <1>3, <1>4, <1>7, LineNumbers
  <2>5. /\ IsFiniteSet(ins) /\ ins \subseteq Receipts /\ n \notin ins
        /\ IsFiniteSet(outs) /\ outs \subseteq Receipts /\ n \notin outs
    BY <2>3, ProcurementAssumption, FS_Subset DEF Done
  <2>6. (\A x \in ins : f[x] = f'[x] /\ f'[x] = f[x]) /\ (\A x \in outs : f[x] = f'[x] /\ f'[x] = f[x])
    BY <2>4, <2>5
  <2>7. f'[n] \in Qtys
    BY <2>4
  <2>8. InQty(l) = Sum(f, ins) /\ OutQty(l) = Sum(f, outs) /\ InQty(l)' = Sum(f', ins') /\ OutQty(l)' = Sum(f', outs')
    BY DEF InQty, OutQty
  <2>9. ReturnedQty(l)' = ReturnedQty(l)
    BY <1>1 DEF ReturnedQty
  <2>10. received[l] + OutQty(l) + ReturnedQty(l) = InQty(l)
    BY <2>1 DEF Tallies, ReceivedIsDocumented
  <2>11. /\ received[l] \in Nat /\ OutQty(l) \in Nat /\ ReturnedQty(l) \in Nat /\ d.qty[l] \in Nat
         /\ InQty(l) \in Nat
    BY <1>2, LineNumbers
  <2>12. received'[l] = received[l] - d.qty[l]
    BY <1>12
  <2>13. CASE d.into
    <3>1. outs' = outs \cup {n} /\ ins' = ins
      BY <2>3, <2>13, <2>3a, <2>3b
    <3>2. Sum(f', outs \cup {n}) = Sum(f, outs) + f'[n] /\ Sum(f', ins) = Sum(f, ins)
      <4> HIDE DEF f, ins, outs
      <4>1. Sum(f', outs \cup {n}) = Sum(f, outs) + f'[n]
        BY <2>5, <2>6, <2>7, SumJoin
      <4>2. Sum(f', ins) = Sum(f, ins)
        BY <2>6, SumSame
      <4> QED BY <4>1, <4>2
    <3>3. OutQty(l)' = OutQty(l) + d.qty[l] /\ InQty(l)' = InQty(l)
      <4>1. f'[n] = d.qty[l]
        BY <2>4
      <4> HIDE DEF f, ins, outs
      <4> QED BY <2>8, <3>1, <3>2, <4>1
    <3> QED BY <2>9, <2>10, <2>11, <2>12, <3>3
  <2>14. CASE ~d.into
    <3>1. ins' = ins \cup {n} /\ outs' = outs
      BY <2>3, <2>14, <2>3a, <2>3b
    <3>2. Sum(f', ins \cup {n}) = Sum(f, ins) + f'[n] /\ Sum(f', outs) = Sum(f, outs)
      <4> HIDE DEF f, ins, outs
      <4>1. Sum(f', ins \cup {n}) = Sum(f, ins) + f'[n]
        BY <2>5, <2>6, <2>7, SumJoin
      <4>2. Sum(f', outs) = Sum(f, outs)
        BY <2>6, SumSame
      <4> QED BY <4>1, <4>2
    <3>3. InQty(l)' = InQty(l) + d.qty[l] /\ OutQty(l)' = OutQty(l)
      <4>1. f'[n] = d.qty[l]
        BY <2>4
      <4> HIDE DEF f, ins, outs
      <4> QED BY <2>8, <3>1, <3>2, <4>1
    <3>4. d.qty[l] = 0
      BY <1>9, <2>2, <2>11, <2>14
    <3> QED BY <2>9, <2>10, <2>11, <2>12, <3>3, <3>4
  <2> QED BY <2>13, <2>14
<1>20. Moved(d, -1, Reopening(d)) /\ Reopening(d) \in Int /\ -1 \in {1, -1}
  <2>1. Reopening(d) \in Int
    BY DEF Reopening
  <2>2. Reopening(d) = -((-1) * Reopening(d))
    BY <2>1
  <2> QED BY <1>2, <1>11, <1>13, <2>1, <2>2 DEF Moved
<1> QED BY <1>16, <1>17, <1>18, <1>19, <1>20, MoveKeeps

----------------------------------------------------------------------------
(* The invariant.                                                           *)

\* Nothing is on record before the first order.
LEMMA ProcurementInit == ASSUME Init PROVE Standing /\ Tallies
<1> USE DEF Init
<1>1. None.status = "none" /\ None # [status |-> "posted"]
  BY DEF None
<1>2. /\ \A r \in Receipts : receipt[r] = None
      /\ \A t \in Returns : preturn[t] = None
      /\ \A i \in Invoices : invoice[i] = None
      /\ \A l \in Lines : ordered[l] = 0 /\ received[l] = 0 /\ billed[l] = 0
      /\ \A o \in Orders : order[o] = "none"
      /\ \A g \in Gates : level[g] = EmptyLevel
  OBVIOUS
<1>3. 0 \in Qtys
  BY MaxQtyAssumption DEF Qtys
<1>4. EmptyLevel \in Level /\ SoundLevel(EmptyLevel)
  BY DEF EmptyLevel, Level, SoundLevel
<1>5. TypeOK
  BY <1>3, <1>4 DEF TypeOK, Statuses
<1>6. LevelsSound /\ DocumentsName /\ ReceiptsBring
  BY <1>2, <1>4 DEF LevelsSound, DocumentsName, ReceiptsBring
<1>7. OrdersBehind
  <2>1. \A o : ~ReceiptBehind(o)
    BY <1>1, <1>2 DEF ReceiptBehind
  <2> QED BY <1>1, <1>2, <2>1 DEF OrdersBehind
<1>8. PaidGoodsArrived
  <2>1. \A l \in Lines : InvoicedQty(l) = 0
    <3>1. { i \in Invoices : invoice[i].status = "posted" } = {}
      BY <1>1, <1>2
    <3> QED BY <3>1, SumZero DEF InvoicedQty
  <2> QED BY <1>2, <2>1 DEF PaidGoodsArrived
<1>9. ReceivedIsDocumented
  <2>1. Done = {} /\ { t \in Returns : preturn[t].status = "posted" } = {}
    BY <1>1, <1>2 DEF Done
  <2>2. \A l \in Lines : InQty(l) = 0 /\ OutQty(l) = 0 /\ ReturnedQty(l) = 0
    <3> SUFFICES ASSUME NEW l \in Lines PROVE InQty(l) = 0 /\ OutQty(l) = 0 /\ ReturnedQty(l) = 0
      OBVIOUS
    <3>1. { r \in Done : receipt[r].into } = {} /\ { r \in Done : ~receipt[r].into } = {}
      BY <2>1
    <3>2. \A f : Sum(f, {}) = 0
      BY SumZero
    <3> QED BY <2>1, <3>1, <3>2, Zenon DEF InQty, OutQty, ReturnedQty
  <2> QED BY <1>2, <2>2 DEF ReceivedIsDocumented
<1>10. OnOrderIsOpenDemand
  <2> SUFFICES ASSUME NEW g \in Gates PROVE level[g].on_order = OpenDemand(g)
    BY DEF OnOrderIsOpenDemand
  <2>1. { l \in Lines : GateOf[l] = g /\ order[OrderOf[l]] \in Open } = {}
    BY <1>2, ProcurementAssumption DEF Open, receivable
  <2>2. OpenDemand(g) = 0
    BY <2>1, SumZero DEF OpenDemand
  <2> QED BY <1>2, <2>2 DEF EmptyLevel
<1>11. OverReceiptGuard /\ StatusFollowsLines
  BY <1>2 DEF OverReceiptGuard, StatusFollowsLines, LinesOf
<1> QED BY <1>5, <1>6, <1>7, <1>8, <1>9, <1>10, <1>11 DEF Standing, Tallies

\* Nothing happens.
LEMMA StutterKeeps == ASSUME Standing, Tallies, UNCHANGED vars PROVE Standing' /\ Tallies'
<1>1. /\ receipt' = receipt /\ preturn' = preturn /\ invoice' = invoice
      /\ UNCHANGED << order, quantities, level >>
  BY DEF vars, quantities
<1>2. DoneKept /\ ReturnsKept /\ InvoicesKept
  BY <1>1 DEF DoneKept, ReturnsKept, InvoicesKept
<1>3. DocumentsName' /\ ReceiptsBring'
  BY <1>1 DEF Standing, DocumentsName, ReceiptsBring, NamesLines
<1>4. /\ receipt' \in [Receipts -> ReceiptDocs \cup {None}]
      /\ preturn' \in [Returns -> ReturnDocs \cup {None}]
      /\ invoice' \in [Invoices -> InvoiceDocs \cup {None}]
  BY <1>1 DEF Standing, TypeOK
<1> QED BY <1>1, <1>2, <1>3, <1>4, DraftsKeep

LEMMA ProcurementStep == Standing /\ Tallies /\ [Next]_vars => Standing' /\ Tallies'
<1> SUFFICES ASSUME Standing, Tallies, [Next]_vars PROVE Standing' /\ Tallies'
  OBVIOUS
<1>1. CASE OrderStep
  BY <1>1, OrderStepKeeps
<1>2. CASE ReceiptStep
  <2>1. CASE \E r \in Receipts, cost \in Costs : post_receipt(r, cost)
    BY <2>1, PostReceiptKeeps
  <2>2. CASE \E r, n \in Receipts, cost \in Costs : reverse_receipt(r, n, cost)
    BY <2>2, ReverseReceiptKeeps
  <2> QED BY <1>2, <2>1, <2>2, ReceiptDrafts DEF ReceiptStep
<1>3. CASE ReturnStep
  <2>1. CASE \E r \in Returns : post_return(r)
    BY <2>1, PostReturnKeeps
  <2>2. CASE \E r \in Returns, cost \in Costs : reverse_return(r, cost)
    BY <2>2, ReverseReturnKeeps
  <2> QED BY <1>3, <2>1, <2>2, ReturnDrafts DEF ReturnStep
<1>4. CASE InvoiceStep
  BY <1>4, InvoiceDrafts, BillingKeeps DEF InvoiceStep
<1>5. CASE StockStep
  BY <1>5, StockKeeps
<1>6. CASE UNCHANGED vars
  BY <1>6, StutterKeeps
<1> QED BY <1>1, <1>2, <1>3, <1>4, <1>5, <1>6 DEF Next

LEMMA ProcurementInvariant == Spec => [](Standing /\ Tallies)
<1>1. Init => Standing /\ Tallies
  BY ProcurementInit
<1> QED BY <1>1, ProcurementStep, PTL DEF Spec

\* At every level the quantity on order is what the open orders still expect of
\* it, for any number of orders, receipts, returns and reversals in any order,
\* until a posted return is reversed there (order.rs release_on_order and
\* approve, receipt.rs post and reverse, returns.rs post).
THEOREM DemandIsTracked == Spec => []OnOrderIsOpenDemand
<1>1. Tallies => OnOrderIsOpenDemand
  BY DEF Tallies
<1> QED BY <1>1, ProcurementInvariant, PTL

\* A line is billed what its posted invoices say and never more than it has
\* received and kept: the three-way match holds ever after, because receipts
\* and returns ask it too (invoice.rs post, receipt.rs reverse, returns.rs post).
THEOREM BilledGoodsArrived == Spec => []PaidGoodsArrived
<1>1. Tallies => PaidGoodsArrived
  BY DEF Tallies
<1> QED BY <1>1, ProcurementInvariant, PTL

\* What a line received is what the documents on record brought and took, never
\* more than was ordered, and the order's status says what its lines say
\* (receipt.rs post, order.rs recompute_status).
THEOREM ReceivedQuantitiesAddUp == Spec => []ReceiptsAddUp
<1>1. Standing /\ Tallies => ReceiptsAddUp
  BY DEF Standing, Tallies, ReceiptsAddUp
<1> QED BY <1>1, ProcurementInvariant, PTL

\* No movement of goods against an order leaves a level with less stock than it
\* has reserved, with a value and no stock, or with less than nothing on order.
THEOREM ProcurementKeepsLevelsSound == Spec => []LevelsSound
<1>1. Standing => LevelsSound
  BY DEF Standing
<1> QED BY <1>1, ProcurementInvariant, PTL

----------------------------------------------------------------------------
(* Stock documents: receipts, issues, transfers, counts and reversals of    *)
(* one item, for any number of documents, lines, warehouses, lots and       *)
(* units, and any quantities and costs.                                     *)
(*                                                                          *)
(* A line moves the level, the ledger and, for a tracked item, the units.   *)
(* The proof says of a line that all three move by the same quantity        *)
(* between the same two places, sums that over a document line by line, and *)
(* over its reversal row by row and line by line.                           *)

\* The sums of StockMoves are those of the lemmas.
LEMMA MovesTally == ASSUME NEW f, NEW S PROVE M!Tally(f, S) = Tally(f, S)
BY DEF M!Tally, Tally, M!MapThenSumSet, MapThenSumSet, M!MapThenFoldSet, MapThenFoldSet

\* Sizes and finiteness in the instance are the usual ones.
LEMMA MovesSizes == /\ \A S : M!Cardinality(S) = Cardinality(S)
                    /\ \A S : M!IsFiniteSet(S) <=> IsFiniteSet(S)
<1>1. \A S : M!Cardinality(S) = Cardinality(S)
  BY Zenon DEF M!Cardinality, Cardinality
<1>2. \A S : M!IsFiniteSet(S) <=> IsFiniteSet(S)
  BY Zenon DEF M!IsFiniteSet, IsFiniteSet
<1> QED BY <1>1, <1>2

\* A sum with one value that is not nothing.
LEMMA TallyPoint ==
    ASSUME NEW S, IsFiniteSet(S), NEW x \in S, NEW f, f[x] \in Int, \A y \in S \ {x} : f[y] = 0
    PROVE  Tally(f, S) = f[x]
<1>1. \A y \in S : f[y] \in Int
  OBVIOUS
<1>2. Tally(f, S) = f[x] + Tally(f, S \ {x})
  BY <1>1, TallyRemove
<1>3. Tally(f, S \ {x}) = 0
  <2>1. IsFiniteSet(S \ {x})
    BY FS_RemoveElement
  <2> QED BY <2>1, TallyZero
<1> QED BY <1>2, <1>3

(* Rows of a ledger.                                                        *)

\* Rows that are there in both ledgers add up to the same.
LEMMA QtySame ==
    ASSUME NEW K, IsFiniteSet(K), NEW a, NEW b, \A k \in K : a[k].qty \in Int /\ a[k].qty = b[k].qty
    PROVE  M!QtyOf(a, K) = M!QtyOf(b, K) /\ M!QtyOf(a, K) \in Int
<1> DEFINE f == [k \in K |-> a[k].qty]
           g == [k \in K |-> b[k].qty]
<1>1. M!QtyOf(a, K) = Tally(f, K) /\ M!QtyOf(b, K) = Tally(g, K)
  BY MovesTally DEF M!QtyOf
<1>2. \A k \in K : f[k] \in Int /\ f[k] = g[k]
  OBVIOUS
<1> HIDE DEF f, g
<1>3. Tally(f, K) = Tally(g, K) /\ Tally(f, K) \in Int
  BY <1>2, TallySame, TallyType
<1> QED BY <1>1, <1>3

\* No rows add up to nothing.
LEMMA QtyNone == ASSUME NEW a PROVE M!QtyOf(a, {}) = 0
<1> DEFINE f == [k \in {} |-> a[k].qty]
<1>1. M!QtyOf(a, {}) = Tally(f, {})
  BY MovesTally DEF M!QtyOf
<1> QED BY <1>1, TallyEmpty

\* One row more adds its quantity.
LEMMA QtyMore ==
    ASSUME NEW K, IsFiniteSet(K), NEW a, NEW x, x \notin K, \A k \in K \cup {x} : a[k].qty \in Int
    PROVE  M!QtyOf(a, K \cup {x}) = M!QtyOf(a, K) + a[x].qty
<1> DEFINE f == [k \in K \cup {x} |-> a[k].qty]
           g == [k \in K |-> a[k].qty]
<1>1. M!QtyOf(a, K \cup {x}) = Tally(f, K \cup {x}) /\ M!QtyOf(a, K) = Tally(g, K)
  BY MovesTally DEF M!QtyOf
<1>2. /\ \A k \in K \cup {x} : f[k] \in Int
      /\ \A k \in K : f[k] \in Int /\ f[k] = g[k]
      /\ f[x] = a[x].qty
  OBVIOUS
<1> HIDE DEF f, g
<1>3. Tally(f, K \cup {x}) = f[x] + Tally(f, K)
  BY <1>2, TallyInsert
<1>4. Tally(f, K) = Tally(g, K) /\ Tally(f, K) \in Int
  BY <1>2, TallySame, TallyType
<1> QED BY <1>1, <1>2, <1>3, <1>4

\* Rows of two kinds add up separately.
LEMMA QtyUnion ==
    ASSUME NEW K, IsFiniteSet(K), NEW L, IsFiniteSet(L), K \cap L = {}, NEW a,
           \A k \in K \cup L : a[k].qty \in Int
    PROVE  M!QtyOf(a, K \cup L) = M!QtyOf(a, K) + M!QtyOf(a, L)
<1> DEFINE f == [k \in K \cup L |-> a[k].qty]
           g == [k \in K |-> a[k].qty]
           h == [k \in L |-> a[k].qty]
<1>1. /\ M!QtyOf(a, K \cup L) = Tally(f, K \cup L) /\ M!QtyOf(a, K) = Tally(g, K)
      /\ M!QtyOf(a, L) = Tally(h, L)
  BY MovesTally DEF M!QtyOf
<1>2. /\ \A k \in K \cup L : f[k] \in Int
      /\ \A k \in K : f[k] \in Int /\ f[k] = g[k]
      /\ \A k \in L : f[k] \in Int /\ f[k] = h[k]
  OBVIOUS
<1> HIDE DEF f, g, h
<1>3. Tally(f, K \cup L) = Tally(f, K) + Tally(f, L)
  BY <1>2, TallyUnion
<1>4. Tally(f, K) = Tally(g, K)
  BY <1>2, TallySame
<1>5. Tally(f, L) = Tally(h, L)
  BY <1>2, TallySame
<1> QED BY <1>1, <1>3, <1>4, <1>5

\* One row more.
LEMMA QtyAppend ==
    ASSUME NEW rows \in Seq(M!Rows), NEW row \in M!Rows, NEW K, K \subseteq DOMAIN rows
    PROVE  /\ IsFiniteSet(K)
           /\ M!QtyOf(Append(rows, row), K) = M!QtyOf(rows, K)
           /\ M!QtyOf(rows, K) \in Int
           /\ M!QtyOf(Append(rows, row), K \cup {Len(rows) + 1}) = M!QtyOf(rows, K) + row.qty
<1> DEFINE more == Append(rows, row)
           n == Len(rows) + 1
<1>1. /\ DOMAIN rows = 1..Len(rows) /\ Len(rows) \in Nat
      /\ \A k \in DOMAIN rows : more[k] = rows[k] /\ rows[k] \in M!Rows
      /\ more[n] = row
  OBVIOUS
<1>2. \A z \in M!Rows : z.qty \in Int
  BY DEF M!Rows
<1> HIDE DEF more, n
<1>3. IsFiniteSet(K)
  <2>1. IsFiniteSet(1..Len(rows))
    BY <1>1, FS_Interval
  <2> QED BY <1>1, <2>1, FS_Subset
<1>4. \A k \in K : rows[k].qty \in Int /\ rows[k].qty = more[k].qty
  BY <1>1, <1>2
<1>5. M!QtyOf(rows, K) = M!QtyOf(more, K) /\ M!QtyOf(rows, K) \in Int
  BY <1>3, <1>4, QtySame
<1>6. n \notin K /\ \A k \in K \cup {n} : more[k].qty \in Int
  BY <1>1, <1>2, <1>4 DEF n
<1>7. M!QtyOf(more, K \cup {n}) = M!QtyOf(more, K) + more[n].qty
  BY <1>3, <1>6, QtyMore
<1> QED BY <1>1, <1>3, <1>5, <1>7 DEF more, n

(* One movement on the stock a transaction works on.                        *)

Stocks == [level : [Warehouses -> M!Level], ledger : Seq(M!Rows), serial : [Serials -> Warehouses \cup M!Away]]

LotsTie(s) == M!TrackBatches =>
    /\ \A k \in DOMAIN s.ledger : s.ledger[k].lot \in Lots
    /\ \A w \in Warehouses :
         s.level[w].on_hand = Tally([lot \in Lots |-> M!LotOnHand(s.ledger, w, lot)], Lots)

Good(s) == s \in Stocks /\ (\A w \in Warehouses : M!SoundLevel(s.level[w])) /\ LotsTie(s)

\* The levels, row for row, are those of the lemmas on the engine.
LEMMA MovesEngine ==
    ASSUME NEW l \in M!Level, M!SoundLevel(l), NEW qty \in Int, NEW cost \in Int
    PROVE  /\ M!CanReceive(l, qty, cost) => /\ M!Received(l, qty, cost) \in M!Level
                                            /\ M!SoundLevel(M!Received(l, qty, cost))
                                            /\ M!Received(l, qty, cost).on_hand = l.on_hand + qty
           /\ M!CanIssue(l, qty, 0) => /\ M!Issued(l, qty, 0) \in M!Level
                                       /\ M!SoundLevel(M!Issued(l, qty, 0))
                                       /\ M!Issued(l, qty, 0).on_hand = l.on_hand - qty
           /\ M!reserve_up_to(l, qty) \in M!Level /\ M!SoundLevel(M!reserve_up_to(l, qty))
           /\ M!reserve_up_to(l, qty).on_hand = l.on_hand
           /\ M!release_reserved(l, qty) \in M!Level /\ M!SoundLevel(M!release_reserved(l, qty))
           /\ M!release_reserved(l, qty).on_hand = l.on_hand
           /\ M!level_average(l) \in Int
<1>1. M!Level = Level /\ \A x : M!SoundLevel(x) <=> SoundLevel(x)
  BY DEF M!Level, Level, M!SoundLevel, SoundLevel
<1>2. /\ M!CanReceive(l, qty, cost) <=> CanReceive(l, qty, cost)
      /\ M!CanIssue(l, qty, 0) <=> CanIssue(l, qty, 0)
  BY DEF M!CanReceive, CanReceive, M!CanIssue, CanIssue
<1>3. \A a, b : M!RoundedQuotient(a, b) = RoundedQuotient(a, b)
  BY Zenon DEF M!RoundedQuotient, RoundedQuotient
<1>4. M!level_average(l) = level_average(l)
  BY <1>3, Zenon DEF M!level_average, level_average
<1>5. \A c : M!round_money(c) = round_money(c)
  BY <1>3, Zenon DEF M!round_money, round_money
<1>6. M!Received(l, qty, cost) = Received(l, qty, cost)
  BY <1>5, Zenon DEF M!Received, Received
<1>7. M!Issued(l, qty, 0) = Issued(l, qty, 0)
  BY <1>4, <1>5, Zenon DEF M!Issued, Issued, M!IssueValue, IssueValue
<1>8. /\ M!reserve_up_to(l, qty) = reserve_up_to(l, qty)
      /\ M!release_reserved(l, qty) = release_reserved(l, qty)
  <2>1. M!Grant(l, qty) = Grant(l, qty)
    BY DEF M!Grant, Grant, M!Least, Least, M!Greatest, Greatest
  <2>2. \A b : M!Least(qty, b) = Least(qty, b)
    BY DEF M!Least, Least
  <2> QED BY <2>1, <2>2, Zenon DEF M!reserve_up_to, reserve_up_to, M!release_reserved, release_reserved
<1>9. l \in Level /\ SoundLevel(l) /\ 0 \in Int
  BY <1>1
<1>10. CanReceive(l, qty, cost) => Received(l, qty, cost) \in Level /\ SoundLevel(Received(l, qty, cost))
  BY <1>9, ReceiptKeepsSound
<1>11. CanIssue(l, qty, 0) => Issued(l, qty, 0) \in Level /\ SoundLevel(Issued(l, qty, 0))
  BY <1>9, IssueKeepsSound
<1>12. reserve_up_to(l, qty) \in Level /\ SoundLevel(reserve_up_to(l, qty))
  BY <1>9, ReserveKeepsSound
<1>13. release_reserved(l, qty) \in Level /\ SoundLevel(release_reserved(l, qty))
  BY <1>9, ReleaseKeepsSound
<1>14. level_average(l) \in Int
  BY <1>9, AverageType
<1>15. /\ Received(l, qty, cost).on_hand = l.on_hand + qty
       /\ Issued(l, qty, 0).on_hand = l.on_hand - qty
       /\ reserve_up_to(l, qty).on_hand = l.on_hand
       /\ release_reserved(l, qty).on_hand = l.on_hand
  BY <1>9 DEF Received, Issued, reserve_up_to, release_reserved, Level
<1> QED BY <1>1, <1>2, <1>4, <1>6, <1>7, <1>8, <1>10, <1>11, <1>12, <1>13, <1>14, <1>15

IsMovement(mv) == /\ mv.warehouse \in Warehouses /\ mv.in \in BOOLEAN
                  /\ mv.qty \in Int /\ mv.cost \in Int

\* What a movement does: a row more, and the level by what the row says.
MovedBy(s, t, m, i, lot, mv) ==
    LET q == IF mv.in THEN mv.qty ELSE -mv.qty IN
    /\ \E row \in M!Rows : /\ t.ledger = Append(s.ledger, row)
                           /\ row.move = m /\ row.line = i /\ row.lot = lot
                           /\ row.warehouse = mv.warehouse /\ row.qty = q
    /\ t.serial = s.serial
    /\ \A w \in Warehouses : t.level[w].on_hand = s.level[w].on_hand + (IF w = mv.warehouse THEN q ELSE 0)

\* One row more in the position of a lot.
LEMMA LotMore ==
    ASSUME NEW rows \in Seq(M!Rows), NEW row \in M!Rows, NEW w, NEW lot
    PROVE  /\ M!LotOnHand(rows, w, lot) \in Int
           /\ M!LotOnHand(Append(rows, row), w, lot) = M!LotOnHand(rows, w, lot)
                + (IF row.warehouse = w /\ row.lot = lot THEN row.qty ELSE 0)
<1> DEFINE more == Append(rows, row)
           K == { k \in DOMAIN rows : rows[k].warehouse = w /\ rows[k].lot = lot }
           L == { k \in DOMAIN more : more[k].warehouse = w /\ more[k].lot = lot }
           n == Len(rows) + 1
<1>1. /\ DOMAIN more = DOMAIN rows \cup {n}
      /\ \A k \in DOMAIN rows : more[k] = rows[k]
      /\ more[n] = row
  OBVIOUS
<1>2. M!LotOnHand(rows, w, lot) = M!QtyOf(rows, K) /\ M!LotOnHand(more, w, lot) = M!QtyOf(more, L)
  BY DEF M!LotOnHand
<1>3. K \subseteq DOMAIN rows
  OBVIOUS
<1>4. L = IF row.warehouse = w /\ row.lot = lot THEN K \cup {n} ELSE K
  <2> HIDE DEF more, n
  <2> QED BY <1>1
<1> HIDE DEF K, L
<1>5. /\ M!QtyOf(more, K) = M!QtyOf(rows, K) /\ M!QtyOf(rows, K) \in Int
      /\ M!QtyOf(more, K \cup {n}) = M!QtyOf(rows, K) + row.qty
  BY <1>3, QtyAppend
<1> QED BY <1>2, <1>4, <1>5

\* A movement leaves good stock: sound levels, and lots that add up to them.
LEMMA ApplyIs ==
    ASSUME M!SetUp, NEW s, Good(s), NEW m \in Moves, NEW i \in Nat, NEW lot \in Lots \cup {NoLot},
           M!TrackBatches => lot \in Lots, NEW mv, IsMovement(mv), M!CanApply(s, mv)
    PROVE  Good(M!apply(s, m, i, lot, mv)) /\ MovedBy(s, M!apply(s, m, i, lot, mv), m, i, lot, mv)
<1> DEFINE w == mv.warehouse
           l == s.level[w]
           q == IF mv.in THEN mv.qty ELSE -mv.qty
           next == IF mv.in THEN M!Received(l, mv.qty, mv.cost) ELSE M!Issued(l, mv.qty, 0)
           row == [move |-> m, line |-> i, warehouse |-> w, lot |-> lot, qty |-> next.on_hand - l.on_hand,
                   unit_cost |-> IF mv.in THEN mv.cost ELSE M!level_average(l),
                   value |-> next.value - l.value]
           t == M!apply(s, m, i, lot, mv)
<1>1. w \in Warehouses /\ l \in M!Level /\ M!SoundLevel(l) /\ mv.qty \in Int /\ mv.cost \in Int
  BY DEF Good, Stocks, IsMovement
<1>2. next \in M!Level /\ M!SoundLevel(next) /\ next.on_hand = l.on_hand + q
  <2> HIDE DEF w, l
  <2>1. CASE mv.in
    <3>1. M!CanReceive(l, mv.qty, mv.cost)
      BY <2>1 DEF M!CanApply, l, w
    <3>2. next = M!Received(l, mv.qty, mv.cost) /\ q = mv.qty
      BY <2>1
    <3> QED BY <1>1, <3>1, <3>2, MovesEngine
  <2>2. CASE ~mv.in
    <3>1. M!CanIssue(l, mv.qty, 0)
      BY <2>2 DEF M!CanApply, l, w
    <3>2. next = M!Issued(l, mv.qty, 0) /\ q = -mv.qty
      BY <2>2
    <3>3. M!Issued(l, mv.qty, 0) \in M!Level /\ M!SoundLevel(M!Issued(l, mv.qty, 0))
          /\ M!Issued(l, mv.qty, 0).on_hand = l.on_hand - mv.qty
      BY <1>1, <3>1, MovesEngine
    <3>4. l.on_hand \in Int
      BY <1>1 DEF M!Level
    <3> QED BY <1>1, <3>2, <3>3, <3>4
  <2> QED BY <2>1, <2>2
<1>3. t = [s EXCEPT !.level[w] = next, !.ledger = Append(@, row)]
  BY DEF M!apply
<1>4. M!level_average(l) \in Int
  BY <1>1, MovesEngine
<1> HIDE DEF next
<1>5. /\ row \in M!Rows /\ row.qty = q
      /\ row.move = m /\ row.line = i /\ row.lot = lot /\ row.warehouse = w
  <2>1. l.on_hand \in Int /\ q \in Int /\ next.value \in Int /\ l.value \in Int
    BY <1>1, <1>2 DEF M!Level
  <2>2. next.on_hand - l.on_hand = q
    BY <1>2, <2>1
  <2> HIDE DEF l, q
  <2> QED BY <1>1, <1>4, <2>1, <2>2 DEF M!Rows
<1> HIDE DEF row
<1>6. /\ s.level \in [Warehouses -> M!Level] /\ s.ledger \in Seq(M!Rows)
      /\ s.serial \in [Serials -> Warehouses \cup M!Away]
      /\ s = [level |-> s.level, ledger |-> s.ledger, serial |-> s.serial]
  BY DEF Good, Stocks
<1>7. /\ t.level = [s.level EXCEPT ![w] = next]
      /\ t.ledger = Append(s.ledger, row)
      /\ t.serial = s.serial
      /\ t = [level |-> t.level, ledger |-> t.ledger, serial |-> t.serial]
  <2> HIDE DEF w, t
  <2> QED BY <1>3, <1>6
<1> HIDE DEF t
<1>8. t \in Stocks
  <2>1. t.level \in [Warehouses -> M!Level]
    BY <1>1, <1>2, <1>6, <1>7
  <2>2. t.ledger \in Seq(M!Rows)
    BY <1>5, <1>6, <1>7
  <2> QED BY <1>6, <1>7, <2>1, <2>2 DEF Stocks
<1>9. \A x \in Warehouses : M!SoundLevel(t.level[x])
  BY <1>1, <1>2, <1>6, <1>7 DEF Good
<1>10. \A x \in Warehouses : t.level[x].on_hand = s.level[x].on_hand + (IF x = w THEN q ELSE 0)
  <2>1. \A x \in Warehouses : s.level[x].on_hand \in Int
    BY <1>6 DEF M!Level
  <2> QED BY <1>1, <1>2, <1>6, <1>7, <2>1
<1>11. LotsTie(t)
  <2> SUFFICES ASSUME M!TrackBatches
               PROVE  /\ \A k \in DOMAIN t.ledger : t.ledger[k].lot \in Lots
                      /\ \A x \in Warehouses : t.level[x].on_hand
                           = Tally([z \in Lots |-> M!LotOnHand(t.ledger, x, z)], Lots)
    BY DEF LotsTie
  <2>1. \A k \in DOMAIN t.ledger : t.ledger[k].lot \in Lots
    <3>1. \A k \in DOMAIN s.ledger : s.ledger[k].lot \in Lots
      BY DEF Good, LotsTie
    <3>2. \A k \in DOMAIN t.ledger : t.ledger[k] = row \/ (k \in DOMAIN s.ledger /\ t.ledger[k] = s.ledger[k])
      BY <1>5, <1>6, <1>7
    <3> QED BY <1>5, <3>1, <3>2
  <2>2. ASSUME NEW x \in Warehouses
        PROVE  t.level[x].on_hand = Tally([z \in Lots |-> M!LotOnHand(t.ledger, x, z)], Lots)
    <3> DEFINE f == [z \in Lots |-> M!LotOnHand(s.ledger, x, z)]
               g == [z \in Lots |-> IF row.warehouse = x /\ row.lot = z THEN row.qty ELSE 0]
               h == [z \in Lots |-> M!LotOnHand(t.ledger, x, z)]
    <3>1. IsFiniteSet(Lots)
      BY MovesSizes DEF M!SetUp
    <3>2. row.qty \in Int
      BY <1>5 DEF M!Rows
    <3>3. \A z \in Lots : f[z] \in Int /\ g[z] \in Int /\ h[z] = f[z] + g[z]
      BY <1>5, <1>6, <1>7, <3>2, LotMore
    <3>4. Tally(f, Lots) = s.level[x].on_hand
      BY DEF Good, LotsTie
    <3>5. Tally(g, Lots) = IF x = w THEN q ELSE 0
      <4>1. CASE x = w
        <5>1. lot \in Lots /\ g[lot] = q /\ \A z \in Lots \ {lot} : g[z] = 0
          BY <1>5, <4>1
        <5>2. g[lot] \in Int
          BY <3>3, <5>1
        <5> HIDE DEF g
        <5> QED BY <3>1, <4>1, <5>1, <5>2, TallyPoint
      <4>2. CASE x # w
        <5>1. \A z \in Lots : g[z] = 0
          BY <1>5, <4>2
        <5> HIDE DEF g
        <5> QED BY <3>1, <4>2, <5>1, TallyZero
      <4> QED BY <4>1, <4>2
    <3> HIDE DEF f, g, h
    <3>6. Tally(h, Lots) = Tally(f, Lots) + Tally(g, Lots)
      BY <3>1, <3>3, TallyAdd
    <3> QED BY <1>10, <3>4, <3>5, <3>6 DEF h
  <2> QED BY <2>1, <2>2
<1>12. MovedBy(s, t, m, i, lot, mv)
  BY <1>5, <1>7, <1>10 DEF MovedBy
<1> QED BY <1>8, <1>9, <1>11, <1>12 DEF Good, t

(* The units of a serial-tracked item.                                      *)

UnitsAt(f, w) == Cardinality({ x \in Serials : f[x] = w })

\* What n units that leave one place for another add to the count of a place.
Shift(from, to, n, w) == (IF w = to THEN n ELSE 0) - (IF w = from THEN n ELSE 0)

\* Units that leave one place for another, a warehouse or none: the count of
\* the place they leave falls by them, that of the place they reach rises.
LEMMA UnitsMove ==
    ASSUME M!SetUp, NEW f \in [Serials -> Warehouses \cup M!Away], NEW names \in SUBSET Serials,
           NEW from, NEW to, from # to, NEW g,
           from \in Warehouses => \A x \in names : f[x] = from,
           from \notin Warehouses => \A x \in names : f[x] \notin Warehouses,
           \A x \in names : IF to \in Warehouses THEN g[x] = to ELSE g[x] \in M!Away,
           \A x \in Serials \ names : g[x] = f[x],
           NEW w \in Warehouses
    PROVE  UnitsAt(g, w) = UnitsAt(f, w) + Shift(from, to, Cardinality(names), w)
<1> DEFINE F == { x \in Serials : f[x] = w }
           G == { x \in Serials : g[x] = w }
<1>1. /\ Warehouses \cap M!Away = {} /\ IsFiniteSet(Serials)
  BY MovesSizes DEF M!SetUp
<1>2. /\ IsFiniteSet(F) /\ IsFiniteSet(names) /\ Cardinality(F) \in Nat /\ Cardinality(names) \in Nat
  BY <1>1, FS_Subset, FS_CardinalityType
<1>3. CASE w = to
  <2>1. G = F \cup names /\ F \cap names = {} /\ w # from
    BY <1>3
  <2>2. Cardinality(F \cup names) = Cardinality(F) + Cardinality(names) - Cardinality(F \cap names)
    BY <1>2, FS_Union
  <2>3. Cardinality(F \cap names) = 0
    BY <2>1, FS_EmptySet
  <2> HIDE DEF F, G
  <2>4. Cardinality(G) = Cardinality(F) + Cardinality(names)
    BY <1>2, <2>1, <2>2, <2>3
  <2> QED BY <1>2, <1>3, <2>1, <2>4 DEF UnitsAt, Shift, F, G
<1>4. CASE w # to /\ w = from
  <2>1. names \subseteq F
    BY <1>4
  <2>2. G = F \ names
    BY <1>1, <1>4
  <2>3. Cardinality(F \ names) = Cardinality(F) - Cardinality(F \cap names) /\ F \cap names = names
    BY <1>2, <2>1, FS_Difference
  <2> HIDE DEF F, G
  <2>4. Cardinality(G) = Cardinality(F) - Cardinality(names)
    BY <2>2, <2>3
  <2> QED BY <1>2, <1>4, <2>4 DEF UnitsAt, Shift, F, G
<1>5. CASE w # to /\ w # from
  <2>1. \A x \in names : g[x] # w
    BY <1>1, <1>5
  <2>2. \A x \in names : f[x] # w
    BY <1>5
  <2>3. G = F
    BY <2>1, <2>2
  <2>4. UnitsAt(g, w) = UnitsAt(f, w) /\ UnitsAt(f, w) \in Nat
    BY <1>2, <2>3, Zenon DEF UnitsAt, F, G
  <2> HIDE DEF F, G
  <2>5. UnitsAt(g, w) = UnitsAt(f, w) + 0 - 0
    BY <2>4
  <2> QED BY <1>5, <2>5 DEF Shift
<1> QED BY <1>3, <1>4, <1>5

(* The runs of the model are what their equations say.                      *)

\* The movements of a line, one after the other.
LEMMA AppliedRun ==
    ASSUME NEW s, NEW m, NEW i, NEW lot, NEW mvs, Len(mvs) \in Nat
    PROVE  LET run == M!Applied(s, m, i, lot, mvs)
           IN  /\ run[0] = s
               /\ \A k \in 1..Len(mvs) : run[k] = M!apply(run[k - 1], m, i, lot, mvs[k])
<1> DEFINE n == Len(mvs)
           Is(f, j) == f = [k \in 0..j |-> IF k = 0 THEN s ELSE M!apply(f[k - 1], m, i, lot, mvs[k])]
           J == { j \in Nat : \E f : Is(f, j) }
<1>1. 0 \in J
  <2>1. Is([k \in 0..0 |-> s], 0)
    OBVIOUS
  <2> HIDE DEF Is
  <2> QED BY <2>1
<1>2. ASSUME NEW j \in Nat, j \in J PROVE j + 1 \in J
  <2>1. PICK f : Is(f, j)
    BY <1>2
  <2> DEFINE g == [k \in 0..(j + 1) |-> IF k <= j THEN f[k] ELSE M!apply(f[j], m, i, lot, mvs[j + 1])]
  <2>2. \A k \in 0..(j + 1) : g[k] = IF k = 0 THEN s ELSE M!apply(g[k - 1], m, i, lot, mvs[k])
    <3> TAKE k \in 0..(j + 1)
    <3>1. CASE k = 0
      BY <2>1, <3>1
    <3>2. CASE k \in 1..j
      <4>1. k \in 0..j /\ k - 1 \in 0..j /\ k # 0 /\ k <= j /\ k - 1 <= j
        BY <3>2
      <4> QED BY <2>1, <4>1
    <3>3. CASE k = j + 1
      <4>1. k - 1 = j /\ j \in 0..(j + 1) /\ ~(k <= j) /\ k # 0
        BY <3>3
      <4> QED BY <3>3, <4>1
    <3> QED BY <3>1, <3>2, <3>3
  <2>3. Is(g, j + 1)
    <3> HIDE DEF g
    <3>1. g = [k \in 0..(j + 1) |-> g[k]]
      BY DEF g
    <3> QED BY <2>2, <3>1
  <2> HIDE DEF Is, g
  <2> QED BY <2>3
<1>3. \A j \in Nat : j \in J
  <2> HIDE DEF J
  <2> QED BY <1>1, <1>2, SetInduction
<1>4. \E f : Is(f, n)
  BY <1>3
<1>5. M!Applied(s, m, i, lot, mvs) = CHOOSE f : Is(f, n)
  BY DEF M!Applied
<1>6. Is(M!Applied(s, m, i, lot, mvs), n)
  <2> HIDE DEF Is
  <2> QED BY <1>4, <1>5
<1> QED BY <1>6

\* The lines of a document, one after the other.
LEMMA PostedRun ==
    ASSUME NEW m, NEW d, Len(d.lines) \in Nat
    PROVE  LET run == M!Posted(m, d)
           IN  /\ run[0] = M!Stock
               /\ \A k \in 1..Len(d.lines) : run[k] = M!apply_line(run[k - 1], m, d, k)
<1> DEFINE n == Len(d.lines)
           Step(x, k) == M!apply_line(x, m, d, k)
           Is(f, j) == f = [k \in 0..j |-> IF k = 0 THEN M!Stock ELSE Step(f[k - 1], k)]
           J == { j \in Nat : \E f : Is(f, j) }
<1>1. 0 \in J
  <2>1. Is([k \in 0..0 |-> M!Stock], 0)
    OBVIOUS
  <2> HIDE DEF Is
  <2> QED BY <2>1
<1>2. ASSUME NEW j \in Nat, j \in J PROVE j + 1 \in J
  <2> HIDE DEF Step
  <2>1. PICK f : Is(f, j)
    BY <1>2
  <2> DEFINE g == [k \in 0..(j + 1) |-> IF k <= j THEN f[k] ELSE Step(f[j], j + 1)]
  <2>2. \A k \in 0..(j + 1) : g[k] = IF k = 0 THEN M!Stock ELSE Step(g[k - 1], k)
    <3> TAKE k \in 0..(j + 1)
    <3>1. CASE k = 0
      BY <2>1, <3>1
    <3>2. CASE k \in 1..j
      <4>1. k \in 0..j /\ k - 1 \in 0..j /\ k # 0 /\ k <= j /\ k - 1 <= j
        BY <3>2
      <4> QED BY <2>1, <4>1
    <3>3. CASE k = j + 1
      <4>1. k - 1 = j /\ j \in 0..(j + 1) /\ ~(k <= j) /\ k # 0
        BY <3>3
      <4> QED BY <3>3, <4>1
    <3> QED BY <3>1, <3>2, <3>3
  <2>3. Is(g, j + 1)
    <3> HIDE DEF g
    <3>1. g = [k \in 0..(j + 1) |-> g[k]]
      BY DEF g
    <3> QED BY <2>2, <3>1
  <2> HIDE DEF Is, g
  <2> QED BY <2>3
<1>3. \A j \in Nat : j \in J
  <2> HIDE DEF J
  <2> QED BY <1>1, <1>2, SetInduction
<1>4. \E f : Is(f, n)
  BY <1>3
<1>5. M!Posted(m, d) = CHOOSE f : Is(f, n)
  BY DEF M!Posted
<1>6. Is(M!Posted(m, d), n)
  <2> HIDE DEF Is
  <2> QED BY <1>4, <1>5
<1> DEFINE run == M!Posted(m, d)
<1>7. run[0] = M!Stock /\ \A k \in 1..n : run[k] = Step(run[k - 1], k)
  <2>1. Is(run, n)
    BY <1>6
  <2>2. 0 \in 0..n /\ \A k \in 1..n : k \in 0..n /\ k # 0
    OBVIOUS
  <2> HIDE DEF run, Step, n
  <2> QED BY <2>1, <2>2
<1> HIDE DEF run
<1> QED BY <1>7 DEF run

\* The rows of a ledger, one after the other.
LEMMA MirroredRun ==
    ASSUME NEW m, NEW r, Len(ledger) \in Nat
    PROVE  LET run == M!Mirrored(m, r)
           IN  /\ run[0] = M!Stock
               /\ \A k \in 1..Len(ledger) : run[k] = IF ledger[k].move = m
                         THEN M!apply(run[k - 1], r, ledger[k].line, ledger[k].lot, M!Mirror(ledger[k]))
                         ELSE run[k - 1]
<1> DEFINE n == Len(ledger)
           Step(x, k) == IF ledger[k].move = m
                         THEN M!apply(x, r, ledger[k].line, ledger[k].lot, M!Mirror(ledger[k])) ELSE x
           Is(f, j) == f = [k \in 0..j |-> IF k = 0 THEN M!Stock ELSE Step(f[k - 1], k)]
           J == { j \in Nat : \E f : Is(f, j) }
<1>1. 0 \in J
  <2>1. Is([k \in 0..0 |-> M!Stock], 0)
    OBVIOUS
  <2> HIDE DEF Is
  <2> QED BY <2>1
<1>2. ASSUME NEW j \in Nat, j \in J PROVE j + 1 \in J
  <2> HIDE DEF Step
  <2>1. PICK f : Is(f, j)
    BY <1>2
  <2> DEFINE g == [k \in 0..(j + 1) |-> IF k <= j THEN f[k] ELSE Step(f[j], j + 1)]
  <2>2. \A k \in 0..(j + 1) : g[k] = IF k = 0 THEN M!Stock ELSE Step(g[k - 1], k)
    <3> TAKE k \in 0..(j + 1)
    <3>1. CASE k = 0
      BY <2>1, <3>1
    <3>2. CASE k \in 1..j
      <4>1. k \in 0..j /\ k - 1 \in 0..j /\ k # 0 /\ k <= j /\ k - 1 <= j
        BY <3>2
      <4> QED BY <2>1, <4>1
    <3>3. CASE k = j + 1
      <4>1. k - 1 = j /\ j \in 0..(j + 1) /\ ~(k <= j) /\ k # 0
        BY <3>3
      <4> QED BY <3>3, <4>1
    <3> QED BY <3>1, <3>2, <3>3
  <2>3. Is(g, j + 1)
    <3> HIDE DEF g
    <3>1. g = [k \in 0..(j + 1) |-> g[k]]
      BY DEF g
    <3> QED BY <2>2, <3>1
  <2> HIDE DEF Is, g
  <2> QED BY <2>3
<1>3. \A j \in Nat : j \in J
  <2> HIDE DEF J
  <2> QED BY <1>1, <1>2, SetInduction
<1>4. \E f : Is(f, n)
  BY <1>3
<1>5. M!Mirrored(m, r) = CHOOSE f : Is(f, n)
  BY DEF M!Mirrored
<1>6. Is(M!Mirrored(m, r), n)
  <2> HIDE DEF Is
  <2> QED BY <1>4, <1>5
<1> DEFINE run == M!Mirrored(m, r)
<1>7. run[0] = M!Stock /\ \A k \in 1..n : run[k] = Step(run[k - 1], k)
  <2>1. Is(run, n)
    BY <1>6
  <2>2. 0 \in 0..n /\ \A k \in 1..n : k \in 0..n /\ k # 0
    OBVIOUS
  <2> HIDE DEF run, Step, n
  <2> QED BY <2>1, <2>2
<1> HIDE DEF run
<1> QED BY <1>7 DEF run

\* The units of the lines of a document, one line after the other.
LEMMA WalkedRun ==
    ASSUME NEW s, NEW m, NEW d, Len(d.lines) \in Nat
    PROVE  LET run == M!Walked(s, m, d)
           IN  /\ run[0] = s
               /\ \A k \in 1..Len(d.lines) : run[k] = M!Unserial(run[k - 1], m, d, k)
<1> DEFINE n == Len(d.lines)
           Step(x, k) == M!Unserial(x, m, d, k)
           Is(f, j) == f = [k \in 0..j |-> IF k = 0 THEN s ELSE Step(f[k - 1], k)]
           J == { j \in Nat : \E f : Is(f, j) }
<1>1. 0 \in J
  <2>1. Is([k \in 0..0 |-> s], 0)
    OBVIOUS
  <2> HIDE DEF Is
  <2> QED BY <2>1
<1>2. ASSUME NEW j \in Nat, j \in J PROVE j + 1 \in J
  <2> HIDE DEF Step
  <2>1. PICK f : Is(f, j)
    BY <1>2
  <2> DEFINE g == [k \in 0..(j + 1) |-> IF k <= j THEN f[k] ELSE Step(f[j], j + 1)]
  <2>2. \A k \in 0..(j + 1) : g[k] = IF k = 0 THEN s ELSE Step(g[k - 1], k)
    <3> TAKE k \in 0..(j + 1)
    <3>1. CASE k = 0
      BY <2>1, <3>1
    <3>2. CASE k \in 1..j
      <4>1. k \in 0..j /\ k - 1 \in 0..j /\ k # 0 /\ k <= j /\ k - 1 <= j
        BY <3>2
      <4> QED BY <2>1, <4>1
    <3>3. CASE k = j + 1
      <4>1. k - 1 = j /\ j \in 0..(j + 1) /\ ~(k <= j) /\ k # 0
        BY <3>3
      <4> QED BY <3>3, <4>1
    <3> QED BY <3>1, <3>2, <3>3
  <2>3. Is(g, j + 1)
    <3> HIDE DEF g
    <3>1. g = [k \in 0..(j + 1) |-> g[k]]
      BY DEF g
    <3> QED BY <2>2, <3>1
  <2> HIDE DEF Is, g
  <2> QED BY <2>3
<1>3. \A j \in Nat : j \in J
  <2> HIDE DEF J
  <2> QED BY <1>1, <1>2, SetInduction
<1>4. \E f : Is(f, n)
  BY <1>3
<1>5. M!Walked(s, m, d) = CHOOSE f : Is(f, n)
  BY DEF M!Walked
<1>6. Is(M!Walked(s, m, d), n)
  <2> HIDE DEF Is
  <2> QED BY <1>4, <1>5
<1> DEFINE run == M!Walked(s, m, d)
<1>7. run[0] = s /\ \A k \in 1..n : run[k] = Step(run[k - 1], k)
  <2>1. Is(run, n)
    BY <1>6
  <2>2. 0 \in 0..n /\ \A k \in 1..n : k \in 0..n /\ k # 0
    OBVIOUS
  <2> HIDE DEF run, Step, n
  <2> QED BY <2>1, <2>2
<1> HIDE DEF run
<1> QED BY <1>7 DEF run

(* Ledgers that grow by rows of one document.                               *)

RowsIn(a, m, w) == { k \in DOMAIN a : a[k].move = m /\ a[k].warehouse = w }

MovedIn(a, m, w) == M!QtyOf(a, RowsIn(a, m, w))

RowsUp(a, m, i) == { k \in DOMAIN a : a[k].move = m /\ a[k].line = i /\ a[k].qty > 0 }

Grown(a, b, m, I) ==
    /\ a \in Seq(M!Rows) /\ b \in Seq(M!Rows)
    /\ DOMAIN a \subseteq DOMAIN b
    /\ \A k \in DOMAIN a : b[k] = a[k]
    /\ \A k \in DOMAIN b \ DOMAIN a : b[k].move = m /\ b[k].line \in I

\* Rows of a ledger are finitely many, and their quantities are numbers.
LEMMA RowsFinite ==
    ASSUME NEW a \in Seq(M!Rows), NEW K, K \subseteq DOMAIN a
    PROVE  IsFiniteSet(K) /\ M!QtyOf(a, K) \in Int /\ \A k \in K : a[k].qty \in Int
<1>1. DOMAIN a = 1..Len(a) /\ Len(a) \in Nat /\ \A k \in DOMAIN a : a[k] \in M!Rows
  OBVIOUS
<1>2. IsFiniteSet(K)
  <2>1. IsFiniteSet(1..Len(a))
    BY <1>1, FS_Interval
  <2> QED BY <1>1, <2>1, FS_Subset
<1>3. \A k \in K : a[k].qty \in Int
  <2>1. \A z \in M!Rows : z.qty \in Int
    BY DEF M!Rows
  <2> QED BY <1>1, <2>1
<1> QED BY <1>2, <1>3, QtySame

\* The rows of other documents stay as they are.
LEMMA OtherRowsStay ==
    ASSUME NEW a, NEW b, NEW m, NEW I, Grown(a, b, m, I), NEW x, x # m
    PROVE  /\ \A w : MovedIn(b, x, w) = MovedIn(a, x, w)
           /\ \A i : RowsUp(b, x, i) = RowsUp(a, x, i)
<1>1. ASSUME NEW w PROVE MovedIn(b, x, w) = MovedIn(a, x, w)
  <2>1. RowsIn(a, x, w) = RowsIn(b, x, w)
    BY DEF Grown, RowsIn
  <2>2. IsFiniteSet(RowsIn(a, x, w)) /\ \A k \in RowsIn(a, x, w) : a[k].qty \in Int
    <3>1. RowsIn(a, x, w) \subseteq DOMAIN a /\ a \in Seq(M!Rows)
      BY DEF RowsIn, Grown
    <3> QED BY <3>1, RowsFinite
  <2>3. \A k \in RowsIn(a, x, w) : a[k].qty \in Int /\ a[k].qty = b[k].qty
    BY <2>2 DEF Grown, RowsIn
  <2> QED BY <2>1, <2>2, <2>3, QtySame DEF MovedIn
<1>2. ASSUME NEW i PROVE RowsUp(b, x, i) = RowsUp(a, x, i)
  BY DEF Grown, RowsUp
<1> QED BY <1>1, <1>2

\* A ledger that grew twice for one document grew for it.
LEMMA GrownTwice ==
    ASSUME NEW a, NEW b, NEW c, NEW m, NEW I, NEW J, Grown(a, b, m, I), Grown(b, c, m, J)
    PROVE  Grown(a, c, m, I \cup J)
<1>1. ASSUME NEW k \in DOMAIN c \ DOMAIN a PROVE c[k].move = m /\ c[k].line \in I \cup J
  <2>1. CASE k \in DOMAIN b
    BY <2>1 DEF Grown
  <2>2. CASE k \notin DOMAIN b
    BY <2>2 DEF Grown
  <2> QED BY <2>1, <2>2
<1> QED BY <1>1 DEF Grown

\* A movement, or some of them, for line i of document m.
Stepped(s, t, m, i) ==
    /\ Good(t) /\ t.serial = s.serial
    /\ Grown(s.ledger, t.ledger, m, {i})
    /\ \A w \in Warehouses :
         MovedIn(t.ledger, m, w) + s.level[w].on_hand = MovedIn(s.ledger, m, w) + t.level[w].on_hand

\* What good stock consists of.
LEMMA GoodTypes ==
    ASSUME NEW s, Good(s)
    PROVE  /\ s.ledger \in Seq(M!Rows) /\ s.serial \in [Serials -> Warehouses \cup M!Away]
           /\ \A w \in Warehouses : /\ s.level[w] \in M!Level /\ M!SoundLevel(s.level[w])
                                    /\ s.level[w].on_hand \in Int
           /\ \A m, w : MovedIn(s.ledger, m, w) \in Int
<1>1. s.ledger \in Seq(M!Rows) /\ s.serial \in [Serials -> Warehouses \cup M!Away] /\ s.level \in [Warehouses -> M!Level]
  BY DEF Good, Stocks
<1>2. \A w \in Warehouses : s.level[w] \in M!Level /\ M!SoundLevel(s.level[w]) /\ s.level[w].on_hand \in Int
  BY <1>1 DEF Good, M!Level
<1>3. \A m, w : MovedIn(s.ledger, m, w) \in Int
  <2>1. \A m, w : RowsIn(s.ledger, m, w) \subseteq DOMAIN s.ledger
    BY DEF RowsIn
  <2> QED BY <1>1, <2>1, RowsFinite DEF MovedIn
<1> QED BY <1>1, <1>2, <1>3

\* Doing nothing is a step of any line.
LEMMA SteppedNone ==
    ASSUME NEW s, Good(s), NEW m, NEW i
    PROVE  Stepped(s, s, m, i)
BY GoodTypes DEF Stepped, Grown

\* Two movements of a line are a step of it.
LEMMA SteppedTwice ==
    ASSUME NEW s, Good(s), NEW t, NEW u, NEW m, NEW i, Stepped(s, t, m, i), Stepped(t, u, m, i)
    PROVE  Stepped(s, u, m, i)
<1>1. Grown(s.ledger, u.ledger, m, {i} \cup {i})
  BY GrownTwice DEF Stepped
<1>2. {i} \cup {i} = {i}
  OBVIOUS
<1>3. Good(t) /\ Good(u)
  BY DEF Stepped
<1>4. ASSUME NEW w \in Warehouses
      PROVE  MovedIn(u.ledger, m, w) + s.level[w].on_hand = MovedIn(s.ledger, m, w) + u.level[w].on_hand
  <2>1. /\ MovedIn(t.ledger, m, w) + s.level[w].on_hand = MovedIn(s.ledger, m, w) + t.level[w].on_hand
        /\ MovedIn(u.ledger, m, w) + t.level[w].on_hand = MovedIn(t.ledger, m, w) + u.level[w].on_hand
    BY DEF Stepped
  <2>2. /\ MovedIn(s.ledger, m, w) \in Int /\ MovedIn(t.ledger, m, w) \in Int /\ MovedIn(u.ledger, m, w) \in Int
        /\ s.level[w].on_hand \in Int /\ t.level[w].on_hand \in Int /\ u.level[w].on_hand \in Int
    BY <1>3, GoodTypes
  <2> QED BY <2>1, <2>2
<1> QED BY <1>1, <1>2, <1>4 DEF Stepped

\* One row more in the sums of a document.
LEMMA MovedMore ==
    ASSUME NEW rows \in Seq(M!Rows), NEW row \in M!Rows, NEW m, NEW w
    PROVE  MovedIn(Append(rows, row), m, w) = MovedIn(rows, m, w)
             + (IF row.move = m /\ row.warehouse = w THEN row.qty ELSE 0)
<1> DEFINE more == Append(rows, row)
           n == Len(rows) + 1
           K == RowsIn(rows, m, w)
           L == RowsIn(more, m, w)
<1>1. /\ DOMAIN more = DOMAIN rows \cup {n}
      /\ \A k \in DOMAIN rows : more[k] = rows[k]
      /\ more[n] = row
  OBVIOUS
<1>2. K \subseteq DOMAIN rows
  BY DEF RowsIn
<1>3. L = IF row.move = m /\ row.warehouse = w THEN K \cup {n} ELSE K
  <2> HIDE DEF more, n
  <2> QED BY <1>1 DEF RowsIn
<1> HIDE DEF K, L
<1>4. /\ M!QtyOf(more, K) = M!QtyOf(rows, K) /\ M!QtyOf(rows, K) \in Int
      /\ M!QtyOf(more, K \cup {n}) = M!QtyOf(rows, K) + row.qty
  BY <1>2, QtyAppend
<1> QED BY <1>3, <1>4 DEF MovedIn, K, L

\* What is new on the ledger after one movement.
LEMMA ApplyGrows ==
    ASSUME M!SetUp, NEW s, Good(s), NEW m \in Moves, NEW i \in Nat, NEW lot \in Lots \cup {NoLot},
           M!TrackBatches => lot \in Lots, NEW mv, IsMovement(mv), M!CanApply(s, mv)
    PROVE  LET t == M!apply(s, m, i, lot, mv)
               q == IF mv.in THEN mv.qty ELSE -mv.qty
               n == Len(s.ledger) + 1
           IN  /\ Stepped(s, t, m, i)
               /\ DOMAIN t.ledger \ DOMAIN s.ledger = {n}
               /\ t.ledger[n] \in M!Rows
               /\ t.ledger = Append(s.ledger, t.ledger[n])
               /\ t.ledger[n].move = m /\ t.ledger[n].line = i /\ t.ledger[n].lot = lot
               /\ t.ledger[n].warehouse = mv.warehouse /\ t.ledger[n].qty = q
               /\ \A w \in Warehouses :
                    t.level[w].on_hand = s.level[w].on_hand + (IF w = mv.warehouse THEN q ELSE 0)
<1> DEFINE t == M!apply(s, m, i, lot, mv)
           q == IF mv.in THEN mv.qty ELSE -mv.qty
           n == Len(s.ledger) + 1
<1>1. Good(t) /\ MovedBy(s, t, m, i, lot, mv)
  BY ApplyIs
<1> HIDE DEF t
<1>2. PICK row \in M!Rows : /\ t.ledger = Append(s.ledger, row)
                            /\ row.move = m /\ row.line = i /\ row.lot = lot
                            /\ row.warehouse = mv.warehouse /\ row.qty = q
  BY <1>1 DEF MovedBy
<1>3. \A w \in Warehouses : t.level[w].on_hand = s.level[w].on_hand + (IF w = mv.warehouse THEN q ELSE 0)
  BY <1>1 DEF MovedBy
<1>4. s.ledger \in Seq(M!Rows) /\ t.ledger \in Seq(M!Rows)
  BY <1>1, GoodTypes
<1>5. /\ DOMAIN t.ledger = DOMAIN s.ledger \cup {n} /\ n \notin DOMAIN s.ledger
      /\ \A k \in DOMAIN s.ledger : t.ledger[k] = s.ledger[k]
      /\ t.ledger[n] = row
  BY <1>2, <1>4
<1>6. Grown(s.ledger, t.ledger, m, {i})
  <2> HIDE DEF n
  <2> QED BY <1>2, <1>4, <1>5 DEF Grown
<1> HIDE DEF q
<1>7. ASSUME NEW w \in Warehouses
      PROVE  MovedIn(t.ledger, m, w) + s.level[w].on_hand = MovedIn(s.ledger, m, w) + t.level[w].on_hand
  <2>1. MovedIn(t.ledger, m, w) = MovedIn(s.ledger, m, w) + (IF w = mv.warehouse THEN q ELSE 0)
    BY <1>2, <1>4, MovedMore
  <2>2. MovedIn(s.ledger, m, w) \in Int /\ s.level[w].on_hand \in Int
    BY GoodTypes
  <2>3. q \in Int
    BY DEF q, IsMovement
  <2>4. (IF w = mv.warehouse THEN q ELSE 0) \in Int
    BY <2>3
  <2> QED BY <1>3, <2>1, <2>2, <2>4
<1>8. Stepped(s, t, m, i)
  BY <1>1, <1>6, <1>7 DEF Stepped, MovedBy
<1> HIDE DEF n
<1>9. DOMAIN t.ledger \ DOMAIN s.ledger = {n}
  BY <1>5
<1>10. /\ t.ledger[n] \in M!Rows
       /\ t.ledger = Append(s.ledger, t.ledger[n])
       /\ t.ledger[n].move = m /\ t.ledger[n].line = i /\ t.ledger[n].lot = lot
       /\ t.ledger[n].warehouse = mv.warehouse /\ t.ledger[n].qty = q
  BY <1>2, <1>5
<1> QED BY <1>3, <1>8, <1>9, <1>10 DEF t, q, n

\* The same, said of the states before and after.
Grew(s, t, m, i, lot, mv) ==
    LET q == IF mv.in THEN mv.qty ELSE -mv.qty
        n == Len(s.ledger) + 1
    IN  /\ Stepped(s, t, m, i)
        /\ t.ledger[n] \in M!Rows
        /\ t.ledger = Append(s.ledger, t.ledger[n])
        /\ t.ledger[n].move = m /\ t.ledger[n].line = i /\ t.ledger[n].lot = lot
        /\ t.ledger[n].warehouse = mv.warehouse /\ t.ledger[n].qty = q
        /\ \A w \in Warehouses : t.level[w].on_hand = s.level[w].on_hand + (IF w = mv.warehouse THEN q ELSE 0)

LEMMA ApplyGrew ==
    ASSUME M!SetUp, NEW s, Good(s), NEW m \in Moves, NEW i \in Nat, NEW lot \in Lots \cup {NoLot},
           M!TrackBatches => lot \in Lots, NEW mv, IsMovement(mv), M!CanApply(s, mv)
    PROVE  Grew(s, M!apply(s, m, i, lot, mv), m, i, lot, mv)
BY ApplyGrows DEF Grew

(* One line of a document.                                                  *)

\* Where the goods of a line go, and where they come from; a count that goes
\* up brings goods in, any other takes them out.
Gains(d, up) == IF d.type = "adjustment" THEN IF up THEN d.from ELSE NoWarehouse ELSE d.to
Gives(d, up) == IF d.type = "adjustment" THEN IF up THEN NoWarehouse ELSE d.from ELSE d.from

Between(d, up, n, w) == Shift(Gives(d, up), Gains(d, up), n, w)

\* A line has at most two movements.
LEMMA MovementsRun ==
    ASSUME NEW s, NEW m, NEW i, NEW lot, NEW mvs, Len(mvs) \in Nat, M!AllCanApply(s, m, i, lot, mvs)
    PROVE  LET run == M!Applied(s, m, i, lot, mvs)
           IN  /\ run[0] = s
               /\ Len(mvs) >= 1 => M!CanApply(s, mvs[1]) /\ run[1] = M!apply(s, m, i, lot, mvs[1])
               /\ Len(mvs) >= 2 => M!CanApply(run[1], mvs[2]) /\ run[2] = M!apply(run[1], m, i, lot, mvs[2])
<1> DEFINE run == M!Applied(s, m, i, lot, mvs)
<1>1. run[0] = s /\ \A k \in 1..Len(mvs) : run[k] = M!apply(run[k - 1], m, i, lot, mvs[k])
  BY AppliedRun
<1>2. \A k \in 1..Len(mvs) : M!CanApply(run[k - 1], mvs[k])
  BY DEF M!AllCanApply
<1> HIDE DEF run
<1>3. ASSUME Len(mvs) >= 1 PROVE M!CanApply(s, mvs[1]) /\ run[1] = M!apply(s, m, i, lot, mvs[1])
  <2>1. 1 \in 1..Len(mvs) /\ 1 - 1 = 0
    BY <1>3
  <2>2. run[1] = M!apply(run[0], m, i, lot, mvs[1]) /\ M!CanApply(run[0], mvs[1])
    BY <1>1, <1>2, <2>1
  <2> QED BY <1>1, <2>2
<1>4. ASSUME Len(mvs) >= 2 PROVE M!CanApply(run[1], mvs[2]) /\ run[2] = M!apply(run[1], m, i, lot, mvs[2])
  <2>1. 2 \in 1..Len(mvs) /\ 2 - 1 = 1
    BY <1>4
  <2> QED BY <1>1, <1>2, <2>1
<1> QED BY <1>1, <1>3, <1>4 DEF run

\* The quantity a line moves.
QtyMoved(s, d, ln) ==
    IF d.type = "adjustment" THEN M!Greatest(M!Delta(s, d, ln), -M!Delta(s, d, ln)) ELSE ln.qty

GoesUp(s, d, ln) == d.type = "adjustment" /\ M!Delta(s, d, ln) > 0

\* What a movement adds to the level of a warehouse.
MovedAt(mv, w) == IF w = mv.warehouse THEN IF mv.in THEN mv.qty ELSE -mv.qty ELSE 0

\* What one movement for line i of document m does.
Result(m, i, mv, u, v) ==
    /\ Stepped(u, v, m, i)
    /\ \A w \in Warehouses : v.level[w].on_hand = u.level[w].on_hand + MovedAt(mv, w)
    /\ \E n : DOMAIN v.ledger \ DOMAIN u.ledger = {n} /\ v.ledger[n].qty = IF mv.in THEN mv.qty ELSE -mv.qty

\* One movement of a line, seen from its row.
LEMMA ApplyResult ==
    ASSUME M!SetUp, NEW s, Good(s), NEW m \in Moves, NEW i \in Nat, NEW lot \in Lots \cup {NoLot},
           M!TrackBatches => lot \in Lots, NEW mv, IsMovement(mv), M!CanApply(s, mv)
    PROVE  Result(m, i, mv, s, M!apply(s, m, i, lot, mv))
<1> DEFINE t == M!apply(s, m, i, lot, mv)
           n == Len(s.ledger) + 1
           q == IF mv.in THEN mv.qty ELSE -mv.qty
<1>1. /\ Stepped(s, t, m, i)
      /\ DOMAIN t.ledger \ DOMAIN s.ledger = {n}
      /\ t.ledger[n].qty = q
      /\ \A w \in Warehouses : t.level[w].on_hand = s.level[w].on_hand + (IF w = mv.warehouse THEN q ELSE 0)
  BY ApplyGrows
<1> HIDE DEF t, n, q
<1>2. \A w \in Warehouses : MovedAt(mv, w) = IF w = mv.warehouse THEN q ELSE 0
  BY DEF MovedAt, q
<1>3. \A w \in Warehouses : t.level[w].on_hand = s.level[w].on_hand + MovedAt(mv, w)
  BY <1>1, <1>2
<1>4. \E k : DOMAIN t.ledger \ DOMAIN s.ledger = {k} /\ t.ledger[k].qty = q
  BY <1>1
<1> QED BY <1>1, <1>3, <1>4 DEF Result, t, q

\* The movements of a line move the level between the two ends of the line,
\* and the rows of the document by as much.
LEMMA LineMovements ==
    ASSUME M!SetUp, NEW s, Good(s), NEW m \in Moves, NEW d \in M!Documents,
           M!ValidHeader(d.type, d.from, d.to), NEW i \in DOMAIN d.lines, M!CanApplyLine(s, m, d, i),
           NEW ln, ln = d.lines[i], NEW mvs, mvs = M!Movements(s, d, ln),
           NEW t, t = M!Applied(s, m, i, ln.lot, mvs)[Len(mvs)]
    PROVE  /\ Stepped(s, t, m, i)
           /\ QtyMoved(s, d, ln) \in Int /\ (d.type = "adjustment" => M!Delta(s, d, ln) \in Int)
           /\ \A w \in Warehouses :
                t.level[w].on_hand = s.level[w].on_hand + Between(d, GoesUp(s, d, ln), QtyMoved(s, d, ln), w)
           /\ d.type = "adjustment" =>
                (GoesUp(s, d, ln) <=> \E k \in DOMAIN t.ledger \ DOMAIN s.ledger : t.ledger[k].qty > 0)
<1> DEFINE up == GoesUp(s, d, ln)
           q == QtyMoved(s, d, ln)
<1>0. PICK lot : lot = ln.lot
  OBVIOUS
<1>1. /\ ln \in M!LineInputs /\ i \in Nat /\ ln.qty \in Int /\ lot \in Lots \cup {NoLot}
      /\ ln.cost # NoCost => ln.cost \in Int
      /\ d.type \in M!MoveTypes
  <2>1. d.lines \in Seq(M!LineInputs) /\ d.type \in M!MoveTypes
    BY DEF M!Documents
  <2>2. DOMAIN d.lines \subseteq Nat /\ d.lines[i] \in M!LineInputs
    BY <2>1
  <2>3. EnteredQtys \subseteq Nat /\ EnteredCosts \subseteq Nat
    BY DEF M!SetUp
  <2>4. \A z \in M!LineInputs : /\ z.qty \in EnteredQtys /\ z.lot \in Lots \cup {NoLot}
                          /\ z.cost \in EnteredCosts \cup {NoCost}
    BY DEF M!LineInputs
  <2>5. ln \in M!LineInputs /\ i \in Nat
    BY <2>2
  <2>6. \A z \in EnteredQtys \cup EnteredCosts : z \in Int
    BY <2>3
  <2> QED BY <1>0, <2>1, <2>4, <2>5, <2>6
<1>2. M!TrackBatches => lot \in Lots
  BY <1>0, <1>1 DEF M!CanApplyLine, M!NamesDimensions
<1>3. M!AllCanApply(s, m, i, lot, mvs)
  BY <1>0 DEF M!CanApplyLine
<1>4. ASSUME NEW u, Good(u), NEW mv, IsMovement(mv), M!CanApply(u, mv)
      PROVE  Result(m, i, mv, u, M!apply(u, m, i, lot, mv))
  BY <1>1, <1>2, <1>4, ApplyResult
<1>5. \A w \in Warehouses : s.level[w].on_hand \in Int
  BY GoodTypes
<1>6. NoWarehouse \notin Warehouses
  BY DEF M!SetUp
<1>7. ASSUME NEW mv, mvs = << mv >>, IsMovement(mv)
      PROVE  Result(m, i, mv, s, t)
  <2>1. M!CanApply(s, mv) /\ t = M!apply(s, m, i, lot, mv)
    <3>1. Len(mvs) = 1 /\ mvs[1] = mv /\ Len(mvs) \in Nat /\ Len(mvs) >= 1
      BY <1>7
    <3>2. M!CanApply(s, mvs[1]) /\ M!Applied(s, m, i, lot, mvs)[1] = M!apply(s, m, i, lot, mvs[1])
      BY <1>3, <3>1, MovementsRun
    <3>3. t = M!Applied(s, m, i, lot, mvs)[1]
      BY <1>0, <3>1
    <3> QED BY <3>1, <3>2, <3>3
  <2> QED BY <1>4, <1>7, <2>1
<1>8. ASSUME NEW a, NEW b, mvs = << a, b >>, IsMovement(a), IsMovement(b)
      PROVE  \E u : Result(m, i, a, s, u) /\ Result(m, i, b, u, t)
  <2> DEFINE u == M!apply(s, m, i, lot, a)
  <2>1. M!CanApply(s, a) /\ M!CanApply(u, b) /\ t = M!apply(u, m, i, lot, b)
    <3>1. Len(mvs) = 2 /\ mvs[1] = a /\ mvs[2] = b /\ Len(mvs) \in Nat /\ Len(mvs) >= 1 /\ Len(mvs) >= 2
      BY <1>8
    <3> DEFINE run == M!Applied(s, m, i, lot, mvs)
    <3>2. /\ M!CanApply(s, mvs[1]) /\ run[1] = M!apply(s, m, i, lot, mvs[1])
          /\ M!CanApply(run[1], mvs[2]) /\ run[2] = M!apply(run[1], m, i, lot, mvs[2])
      BY <1>3, <3>1, MovementsRun
    <3>3. t = run[2]
      BY <1>0, <3>1
    <3> HIDE DEF run
    <3> QED BY <3>1, <3>2, <3>3
  <2>2. Result(m, i, a, s, u)
    BY <1>4, <1>8, <2>1
  <2>3. Good(u)
    <3> HIDE DEF u
    <3> QED BY <2>2 DEF Result, Stepped
  <2>4. Result(m, i, b, u, t)
    <3> HIDE DEF u
    <3> QED BY <1>4, <1>8, <2>1, <2>3
  <2> QED BY <2>2, <2>4
<1>9. CASE d.type = "receipt"
  <2> DEFINE mv == M!In(d.to, ln.qty, ln.cost)
  <2>1. d.from = NoWarehouse /\ d.to \in Warehouses /\ ln.cost \in Int
    BY <1>1, <1>9 DEF M!ValidHeader, M!CanApplyLine
  <2>2. mvs = << mv >> /\ IsMovement(mv) /\ mv.in /\ mv.warehouse = d.to /\ mv.qty = ln.qty
    BY <1>1, <1>9, <2>1 DEF M!Movements, M!In, IsMovement
  <2> HIDE DEF mv
  <2>3. Result(m, i, mv, s, t)
    BY <1>7, <2>2
  <2>4. \A w \in Warehouses : t.level[w].on_hand = s.level[w].on_hand + (IF w = d.to THEN ln.qty ELSE 0)
    <3>1. \A w \in Warehouses : t.level[w].on_hand = s.level[w].on_hand + MovedAt(mv, w)
      BY <2>3 DEF Result
    <3>2. \A w \in Warehouses : MovedAt(mv, w) = IF w = d.to THEN ln.qty ELSE 0
      BY <2>2 DEF MovedAt
    <3> QED BY <3>1, <3>2
  <2>5. \A w \in Warehouses : Between(d, up, q, w) = (IF w = d.to THEN ln.qty ELSE 0)
    BY <1>1, <1>6, <1>9, <2>1 DEF Between, Shift, Gains, Gives, QtyMoved
  <2> QED BY <1>1, <1>9, <2>3, <2>4, <2>5 DEF Result, QtyMoved
<1>10. CASE d.type = "issue"
  <2> DEFINE mv == M!Out(d.from, ln.qty)
  <2>1. d.to = NoWarehouse /\ d.from \in Warehouses
    BY <1>1, <1>10 DEF M!ValidHeader
  <2>2. mvs = << mv >> /\ IsMovement(mv) /\ mv.in = FALSE /\ mv.warehouse = d.from /\ mv.qty = ln.qty
    <3>1. mvs = << mv >>
      BY <1>10 DEF M!Movements
    <3>2. IsMovement(mv) /\ mv.in = FALSE /\ mv.warehouse = d.from /\ mv.qty = ln.qty
      BY <1>1, <2>1 DEF M!Out, IsMovement
    <3> QED BY <3>1, <3>2
  <2> HIDE DEF mv
  <2>3. Result(m, i, mv, s, t)
    BY <1>7, <2>2
  <2>4. \A w \in Warehouses : t.level[w].on_hand = s.level[w].on_hand + (IF w = d.from THEN -ln.qty ELSE 0)
    <3>1. \A w \in Warehouses : t.level[w].on_hand = s.level[w].on_hand + MovedAt(mv, w)
      BY <2>3 DEF Result
    <3>2. \A w \in Warehouses : MovedAt(mv, w) = IF w = d.from THEN -ln.qty ELSE 0
      BY <2>2 DEF MovedAt
    <3> QED BY <3>1, <3>2
  <2>5. \A w \in Warehouses : Between(d, up, q, w) = (IF w = d.from THEN -ln.qty ELSE 0)
    BY <1>1, <1>6, <1>10, <2>1 DEF Between, Shift, Gains, Gives, QtyMoved
  <2> QED BY <1>1, <1>10, <2>3, <2>4, <2>5 DEF Result, QtyMoved
<1>11. CASE d.type = "transfer"
  <2> DEFINE a == M!Out(d.from, ln.qty)
             c == M!level_average(s.level[d.from])
             b == M!In(d.to, ln.qty, c)
  <2>1. d.to \in Warehouses /\ d.from \in Warehouses /\ d.from # d.to
    BY <1>1, <1>11 DEF M!ValidHeader
  <2>2. c \in Int
    <3>1. s.level[d.from] \in M!Level /\ M!SoundLevel(s.level[d.from]) /\ 0 \in Int
      BY <2>1, GoodTypes
    <3> QED BY <3>1, MovesEngine
  <2>3. mvs = << a, b >>
    BY <1>11 DEF M!Movements
  <2> HIDE DEF c
  <2>4. /\ IsMovement(a) /\ a.in = FALSE /\ a.warehouse = d.from /\ a.qty = ln.qty
        /\ IsMovement(b) /\ b.in /\ b.warehouse = d.to /\ b.qty = ln.qty
    BY <1>1, <2>1, <2>2 DEF M!Out, M!In, IsMovement
  <2> HIDE DEF a, b
  <2>5. PICK u : Result(m, i, a, s, u) /\ Result(m, i, b, u, t)
    BY <1>8, <2>3, <2>4
  <2>6. Stepped(s, t, m, i)
    <3>1. Stepped(s, u, m, i) /\ Stepped(u, t, m, i)
      BY <2>5 DEF Result
    <3>2. Good(u)
      BY <3>1 DEF Stepped
    <3> QED BY <3>1, <3>2, SteppedTwice
  <2>7. \A w \in Warehouses : /\ u.level[w].on_hand = s.level[w].on_hand + (IF w = d.from THEN -ln.qty ELSE 0)
                              /\ t.level[w].on_hand = u.level[w].on_hand + (IF w = d.to THEN ln.qty ELSE 0)
    <3>1. /\ \A w \in Warehouses : u.level[w].on_hand = s.level[w].on_hand + MovedAt(a, w)
          /\ \A w \in Warehouses : t.level[w].on_hand = u.level[w].on_hand + MovedAt(b, w)
      BY <2>5 DEF Result
    <3>2. \A w \in Warehouses : /\ MovedAt(a, w) = IF w = d.from THEN -ln.qty ELSE 0
                                /\ MovedAt(b, w) = IF w = d.to THEN ln.qty ELSE 0
      BY <2>4 DEF MovedAt
    <3> QED BY <3>1, <3>2
  <2>8. ASSUME NEW w \in Warehouses
        PROVE  t.level[w].on_hand = s.level[w].on_hand + Between(d, up, q, w)
    <3>1. Between(d, up, q, w) = (IF w = d.to THEN ln.qty ELSE 0) - (IF w = d.from THEN ln.qty ELSE 0)
      BY <1>11 DEF Between, Shift, Gains, Gives, QtyMoved
    <3>2. s.level[w].on_hand \in Int /\ ln.qty \in Int
      BY <1>1, <1>5
    <3>3. CASE w = d.to
      BY <2>1, <2>7, <3>1, <3>2, <3>3
    <3>4. CASE w = d.from
      <4>1. w # d.to
        BY <2>1, <3>4
      <4>2. t.level[w].on_hand = (s.level[w].on_hand + -ln.qty) + 0
        BY <2>7, <3>4, <4>1
      <4>3. Between(d, up, q, w) = 0 - ln.qty
        BY <3>1, <3>4, <4>1
      <4> QED BY <3>2, <4>2, <4>3
    <3>5. CASE w # d.to /\ w # d.from
      BY <2>7, <3>1, <3>2, <3>5
    <3> QED BY <3>3, <3>4, <3>5
  <2> QED BY <1>1, <1>11, <2>6, <2>8 DEF QtyMoved
<1>12. CASE d.type = "adjustment"
  <2> DEFINE delta == M!Delta(s, d, ln)
  <2>1. d.to = NoWarehouse /\ d.from \in Warehouses
    BY <1>1, <1>12 DEF M!ValidHeader
  <2>2. delta \in Int
    <3>1. s.ledger \in Seq(M!Rows) /\ s.level[d.from].on_hand \in Int
      BY <2>1, GoodTypes
    <3>2. M!LotOnHand(s.ledger, d.from, ln.lot) \in Int
      <4> DEFINE K == { k \in DOMAIN s.ledger : s.ledger[k].warehouse = d.from /\ s.ledger[k].lot = ln.lot }
      <4>1. K \subseteq DOMAIN s.ledger
        OBVIOUS
      <4>2. M!LotOnHand(s.ledger, d.from, ln.lot) = M!QtyOf(s.ledger, K)
        BY DEF M!LotOnHand
      <4> HIDE DEF K
      <4> QED BY <3>1, <4>1, <4>2, RowsFinite
    <3> QED BY <1>1, <3>1, <3>2 DEF M!Delta
  <2>3. (up <=> delta > 0) /\ q = (IF delta >= -delta THEN delta ELSE -delta) /\ q \in Int
    BY <1>12, <2>2 DEF GoesUp, QtyMoved, M!Greatest
  <2>4. mvs = CASE delta > 0 -> << M!In(d.from, delta, M!UpCost(s, d, ln)) >>
                [] delta < 0 -> << M!Out(d.from, -delta) >>
                [] delta = 0 -> << >>
    BY <1>12 DEF M!Movements
  <2>5. M!UpCost(s, d, ln) \in Int
    <3>1. s.level[d.from] \in M!Level /\ M!SoundLevel(s.level[d.from]) /\ 0 \in Int
      BY <2>1, GoodTypes
    <3> QED BY <1>1, <3>1, MovesEngine DEF M!UpCost
  <2> HIDE DEF delta, up, q
  <2>6. Gains(d, up) = (IF up THEN d.from ELSE NoWarehouse) /\ Gives(d, up) = (IF up THEN NoWarehouse ELSE d.from)
    BY <1>12 DEF Gains, Gives
  <2>7. CASE delta > 0
    <3> DEFINE mv == M!In(d.from, delta, M!UpCost(s, d, ln))
    <3>1. mvs = << mv >>
      BY <2>2, <2>4, <2>7
    <3>2. IsMovement(mv) /\ mv.in /\ mv.warehouse = d.from /\ mv.qty = delta
      BY <2>1, <2>2, <2>5 DEF M!In, IsMovement
    <3> HIDE DEF mv
    <3>3. Result(m, i, mv, s, t)
      BY <1>7, <3>1, <3>2
    <3>4. \A w \in Warehouses : t.level[w].on_hand = s.level[w].on_hand + (IF w = d.from THEN delta ELSE 0)
      <4>1. \A w \in Warehouses : t.level[w].on_hand = s.level[w].on_hand + MovedAt(mv, w)
        BY <3>3 DEF Result
      <4>2. \A w \in Warehouses : MovedAt(mv, w) = IF w = d.from THEN delta ELSE 0
        BY <3>2 DEF MovedAt
      <4> QED BY <4>1, <4>2
    <3>5. up /\ q = delta
      BY <2>2, <2>3, <2>7
    <3>6. \A w \in Warehouses : Between(d, up, q, w) = (IF w = d.from THEN delta ELSE 0)
      BY <1>6, <2>1, <2>2, <2>6, <3>5 DEF Between, Shift
    <3>7. \E k \in DOMAIN t.ledger \ DOMAIN s.ledger : t.ledger[k].qty > 0
      BY <2>7, <3>2, <3>3 DEF Result
    <3> QED BY <2>2, <2>3, <3>3, <3>4, <3>5, <3>6, <3>7 DEF Result, up, q, delta
  <2>8. CASE delta < 0
    <3> DEFINE mv == M!Out(d.from, -delta)
    <3>1. mvs = << mv >>
      BY <2>2, <2>4, <2>8
    <3>2. IsMovement(mv) /\ mv.in = FALSE /\ mv.warehouse = d.from /\ mv.qty = -delta /\ -mv.qty = delta
      BY <2>1, <2>2 DEF M!Out, IsMovement
    <3> HIDE DEF mv
    <3>3. Result(m, i, mv, s, t)
      BY <1>7, <3>1, <3>2
    <3>4. \A w \in Warehouses : t.level[w].on_hand = s.level[w].on_hand + (IF w = d.from THEN delta ELSE 0)
      <4>1. \A w \in Warehouses : t.level[w].on_hand = s.level[w].on_hand + MovedAt(mv, w)
        BY <3>3 DEF Result
      <4>2. \A w \in Warehouses : MovedAt(mv, w) = IF w = d.from THEN delta ELSE 0
        BY <3>2 DEF MovedAt
      <4> QED BY <4>1, <4>2
    <3>5. ~up /\ q = -delta
      BY <2>2, <2>3, <2>8
    <3>6. \A w \in Warehouses : Between(d, up, q, w) = (IF w = d.from THEN delta ELSE 0)
      BY <1>6, <2>1, <2>2, <2>6, <3>5 DEF Between, Shift
    <3>7. ~\E k \in DOMAIN t.ledger \ DOMAIN s.ledger : t.ledger[k].qty > 0
      <4>1. \E n : DOMAIN t.ledger \ DOMAIN s.ledger = {n} /\ t.ledger[n].qty = delta
        BY <3>2, <3>3 DEF Result
      <4> QED BY <2>2, <2>8, <4>1
    <3> QED BY <2>2, <2>3, <3>3, <3>4, <3>5, <3>6, <3>7 DEF Result, up, q, delta
  <2>9. CASE delta = 0
    <3>1. mvs = << >>
      BY <2>2, <2>4, <2>9
    <3>2. t = s
      <4>1. Len(mvs) = 0 /\ Len(mvs) \in Nat
        BY <3>1
      <4>2. M!Applied(s, m, i, lot, mvs)[0] = s
        BY <1>3, <4>1, MovementsRun
      <4> QED BY <1>0, <4>1, <4>2
    <3>3. Stepped(s, t, m, i)
      BY <3>2, SteppedNone
    <3>4. ~up /\ q = 0
      BY <2>2, <2>3, <2>9
    <3>5. \A w \in Warehouses : Between(d, up, q, w) = 0
      BY <3>4 DEF Between, Shift
    <3>6. \A w \in Warehouses : t.level[w].on_hand = s.level[w].on_hand + Between(d, up, q, w)
      BY <1>5, <3>2, <3>5
    <3>7. ~\E k \in DOMAIN t.ledger \ DOMAIN s.ledger : t.ledger[k].qty > 0
      BY <3>2
    <3> QED BY <2>2, <2>3, <3>3, <3>4, <3>6, <3>7 DEF up, q, delta
  <2>10. delta > 0 \/ delta < 0 \/ delta = 0
    BY <2>2
  <2> HIDE DEF delta
  <2> QED BY <2>7, <2>8, <2>9, <2>10
<1> QED BY <1>1, <1>9, <1>10, <1>11, <1>12 DEF M!MoveTypes

\* The ends of a line: two places, a warehouse or none, that differ.
LEMMA EndsDiffer ==
    ASSUME M!SetUp, NEW d, d.type \in M!MoveTypes, M!ValidHeader(d.type, d.from, d.to), NEW up \in BOOLEAN
    PROVE  /\ Gains(d, up) # Gives(d, up)
           /\ Gains(d, up) \in Warehouses \cup {NoWarehouse} /\ Gives(d, up) \in Warehouses \cup {NoWarehouse}
BY DEF M!SetUp, M!MoveTypes, M!ValidHeader, Gains, Gives

\* What a line does: levels, units and the rows of the document move alike.
LineDone(s, t, m, d, i) ==
    /\ Good(t)
    /\ Grown(s.ledger, t.ledger, m, {i})
    /\ \A w \in Warehouses :
         MovedIn(t.ledger, m, w) + s.level[w].on_hand = MovedIn(s.ledger, m, w) + t.level[w].on_hand
    /\ \E up \in BOOLEAN :
         /\ d.type = "adjustment" => (up <=> \E k \in DOMAIN t.ledger \ DOMAIN s.ledger : t.ledger[k].qty > 0)
         /\ M!TrackSerials => \A w \in Warehouses :
              LET n == Between(d, up, Cardinality(d.lines[i].serials), w)
              IN  /\ t.level[w].on_hand = s.level[w].on_hand + n
                  /\ UnitsAt(t.serial, w) = UnitsAt(s.serial, w) + n

\* A line that may be applied does what LineDone says.
LEMMA LineIs ==
    ASSUME M!SetUp, NEW s, Good(s), NEW m \in Moves, NEW d \in M!Documents,
           M!ValidHeader(d.type, d.from, d.to), NEW i \in DOMAIN d.lines, M!CanApplyLine(s, m, d, i)
    PROVE  LineDone(s, M!apply_line(s, m, d, i), m, d, i)
<1>1. PICK ln, mvs, r : /\ ln = d.lines[i] /\ mvs = M!Movements(s, d, ln)
                        /\ r = M!Applied(s, m, i, ln.lot, mvs)[Len(mvs)]
  OBVIOUS
<1>2. PICK up, q : up = GoesUp(s, d, ln) /\ q = QtyMoved(s, d, ln)
  OBVIOUS
<1>3. PICK t : t = M!apply_line(s, m, d, i)
  OBVIOUS
<1>4. /\ Stepped(s, r, m, i)
      /\ q \in Int /\ (d.type = "adjustment" => M!Delta(s, d, ln) \in Int)
      /\ \A w \in Warehouses : r.level[w].on_hand = s.level[w].on_hand + Between(d, up, q, w)
      /\ d.type = "adjustment" => (up <=> \E k \in DOMAIN r.ledger \ DOMAIN s.ledger : r.ledger[k].qty > 0)
  BY <1>1, <1>2, LineMovements
<1>5. t = M!SerialsMoved(s, r, d, ln) /\ up \in BOOLEAN
  BY <1>1, <1>2, <1>3 DEF M!apply_line, GoesUp
<1>6. PICK names : names = ln.serials
  OBVIOUS
<1>7. d.type \in M!MoveTypes /\ names \in SUBSET Serials
  <2>1. d.lines \in Seq(M!LineInputs) /\ d.type \in M!MoveTypes
    BY DEF M!Documents
  <2>2. d.lines[i] \in M!LineInputs
    BY <2>1
  <2> QED BY <1>1, <1>6, <2>1, <2>2 DEF M!LineInputs
<1>8. up => d.type = "adjustment" /\ M!Delta(s, d, ln) > 0
  BY <1>2 DEF GoesUp
<1>9. d.type = "adjustment" /\ M!Delta(s, d, ln) > 0 => up
  BY <1>2 DEF GoesUp
<1>10. PICK b : /\ b = IF d.type \in {"receipt", "transfer"} THEN d.to
                      ELSE IF d.type = "issue" THEN "issued" ELSE IF up THEN d.from ELSE "scrapped"
  OBVIOUS
<1>11. t = [r EXCEPT !.serial = [x \in Serials |-> IF x \in names THEN b ELSE r.serial[x]]]
  <2>1. CASE d.type = "receipt"
    BY <1>5, <1>6, <1>10, <2>1 DEF M!SerialsMoved, M!serials_in
  <2>2. CASE d.type = "issue"
    BY <1>5, <1>6, <1>10, <2>2 DEF M!SerialsMoved, M!serials_out
  <2>3. CASE d.type = "transfer"
    BY <1>5, <1>6, <1>10, <2>3 DEF M!SerialsMoved, M!serials_in
  <2>4. CASE d.type = "adjustment"
    BY <1>5, <1>6, <1>8, <1>9, <1>10, <2>4 DEF M!SerialsMoved, M!serials_in, M!serials_out
  <2> QED BY <1>7, <2>1, <2>2, <2>3, <2>4 DEF M!MoveTypes
<1>12. PICK from, to : from = Gives(d, up) /\ to = Gains(d, up)
  OBVIOUS
<1>13. (to \in Warehouses => b = to) /\ (to \notin Warehouses => b \in M!Away) /\ from # to
  <2>1. from # to
    BY <1>5, <1>7, <1>12, EndsDiffer
  <2>2. (to \in Warehouses => b = to) /\ (to \notin Warehouses => b \in M!Away)
    BY <1>7, <1>8, <1>10, <1>12 DEF Gains, M!ValidHeader, M!MoveTypes, M!Away, M!SetUp
  <2> QED BY <2>1, <2>2
<1>14. /\ from \in Warehouses => \A x \in names : s.serial[x] = from
       /\ from \notin Warehouses => \A x \in names : s.serial[x] \notin Warehouses
  <2>1. M!SerialsCan(s, d, ln)
    BY <1>1 DEF M!CanApplyLine
  <2>2. NoWarehouse \notin Warehouses
    BY DEF M!SetUp
  <2>3. CASE d.type = "receipt"
    BY <1>6, <1>12, <2>1, <2>2, <2>3 DEF Gives, M!ValidHeader, M!SerialsCan, M!CanSerialsIn
  <2>4. CASE d.type = "issue"
    BY <1>6, <1>12, <2>1, <2>2, <2>4 DEF Gives, M!ValidHeader, M!SerialsCan, M!in_stock_at
  <2>5. CASE d.type = "transfer"
    BY <1>6, <1>12, <2>1, <2>2, <2>5 DEF Gives, M!ValidHeader, M!SerialsCan, M!in_stock_at
  <2>6. CASE d.type = "adjustment"
    BY <1>6, <1>12, <1>8, <1>9, <2>1, <2>2, <2>6 DEF Gives, M!ValidHeader, M!SerialsCan, M!in_stock_at, M!CanSerialsIn
  <2> QED BY <1>7, <2>3, <2>4, <2>5, <2>6 DEF M!MoveTypes
<1>15. PICK g : g = [x \in Serials |-> IF x \in names THEN b ELSE s.serial[x]]
  OBVIOUS
<1>16. s.serial \in [Serials -> Warehouses \cup M!Away]
  BY GoodTypes
<1>17. /\ g \in [Serials -> Warehouses \cup M!Away]
       /\ \A w \in Warehouses : UnitsAt(g, w) = UnitsAt(s.serial, w) + Between(d, up, Cardinality(names), w)
  <2>1. b \in Warehouses \cup M!Away
    BY <1>13
  <2>2. ASSUME NEW w \in Warehouses
        PROVE  UnitsAt(g, w) = UnitsAt(s.serial, w) + Between(d, up, Cardinality(names), w)
    <3>1. PICK f : f = s.serial
      OBVIOUS
    <3>2. /\ f \in [Serials -> Warehouses \cup M!Away]
          /\ from \in Warehouses => \A x \in names : f[x] = from
          /\ from \notin Warehouses => \A x \in names : f[x] \notin Warehouses
          /\ \A x \in names : IF to \in Warehouses THEN g[x] = to ELSE g[x] \in M!Away
          /\ \A x \in Serials \ names : g[x] = f[x]
      BY <1>7, <1>13, <1>14, <1>15, <1>16, <3>1
    <3>3. UnitsAt(g, w) = UnitsAt(f, w) + Shift(from, to, Cardinality(names), w)
      BY <1>7, <1>13, <3>2, UnitsMove
    <3> QED BY <1>12, <3>1, <3>3 DEF Between
  <2> QED BY <1>15, <1>16, <2>1, <2>2
<1>18. /\ t = [level |-> r.level, ledger |-> r.ledger, serial |-> g]
       /\ t.level = r.level /\ t.ledger = r.ledger /\ t.serial = g
  <2>1. r.serial = s.serial /\ r \in Stocks
    BY <1>4 DEF Stepped, Good
  <2>2. t = [r EXCEPT !.serial = g]
    BY <1>11, <1>15, <2>1
  <2> QED BY <2>1, <2>2 DEF Stocks
<1>19. Good(t)
  <2>1. Good(r)
    BY <1>4 DEF Stepped
  <2>2. t \in Stocks
    BY <1>17, <1>18, <2>1 DEF Good, Stocks
  <2> QED BY <1>18, <2>1, <2>2 DEF Good, LotsTie
<1>20. M!TrackSerials => Cardinality(names) = q
  <2>1. M!NamesDimensions(s, d, ln)
    BY <1>1 DEF M!CanApplyLine
  <2>2. QtyMoved(s, d, ln) = IF d.type = "adjustment"
                             THEN LET delta == M!Delta(s, d, ln) IN M!Greatest(delta, -delta)
                             ELSE ln.qty
    BY DEF QtyMoved
  <2> QED BY <1>2, <1>6, <2>1, <2>2, MovesSizes DEF M!NamesDimensions
<1>21. M!TrackSerials => \A w \in Warehouses :
         /\ t.level[w].on_hand = s.level[w].on_hand + Between(d, up, Cardinality(names), w)
         /\ UnitsAt(t.serial, w) = UnitsAt(s.serial, w) + Between(d, up, Cardinality(names), w)
  BY <1>4, <1>17, <1>18, <1>20
<1>22. /\ Grown(s.ledger, t.ledger, m, {i})
       /\ \A w \in Warehouses :
            MovedIn(t.ledger, m, w) + s.level[w].on_hand = MovedIn(s.ledger, m, w) + t.level[w].on_hand
       /\ d.type = "adjustment" => (up <=> \E k \in DOMAIN t.ledger \ DOMAIN s.ledger : t.ledger[k].qty > 0)
  BY <1>4, <1>18 DEF Stepped
<1>23. LineDone(s, t, m, d, i)
  <2>1. names = d.lines[i].serials
    BY <1>1, <1>6
  <2> QED BY <1>5, <1>19, <1>21, <1>22, <2>1 DEF LineDone
<1> QED BY <1>3, <1>23

(* A document posted line by line.                                          *)

LineEffect(a, m, d, i, w) == Between(d, RowsUp(a, m, i) # {}, Cardinality(d.lines[i].serials), w)

Effects(a, m, d, n, w) == Tally([i \in 1..n |-> LineEffect(a, m, d, i, w)], 1..n)

\* What the lines of a document are made of.
LEMMA LinesTyped ==
    ASSUME M!SetUp, NEW d \in M!Documents
    PROVE  /\ Len(d.lines) \in Nat /\ DOMAIN d.lines = 1..Len(d.lines) /\ d.type \in M!MoveTypes
           /\ \A i \in 1..Len(d.lines) : /\ d.lines[i].serials \in SUBSET Serials
                                         /\ Cardinality(d.lines[i].serials) \in Int
           /\ \A a, m, w : \A i \in 1..Len(d.lines) : LineEffect(a, m, d, i, w) \in Int
<1>1. d.lines \in Seq(M!LineInputs) /\ d.type \in M!MoveTypes
  BY DEF M!Documents
<1>2. Len(d.lines) \in Nat /\ DOMAIN d.lines = 1..Len(d.lines) /\ \A i \in 1..Len(d.lines) : d.lines[i] \in M!LineInputs
  BY <1>1
<1>3. \A z \in M!LineInputs : z.serials \in SUBSET Serials
  BY DEF M!LineInputs
<1>4. \A z \in SUBSET Serials : Cardinality(z) \in Int
  <2>1. IsFiniteSet(Serials)
    BY MovesSizes DEF M!SetUp
  <2>2. \A n \in Nat : n \in Int
    OBVIOUS
  <2> QED BY <2>1, <2>2, FS_Subset, FS_CardinalityType
<1>5. ASSUME NEW a, NEW m, NEW w, NEW i \in 1..Len(d.lines) PROVE LineEffect(a, m, d, i, w) \in Int
  BY <1>2, <1>3, <1>4 DEF LineEffect, Between, Shift
<1> QED BY <1>1, <1>2, <1>3, <1>4, <1>5

\* What the lines of a document move in units, with one line more.
LEMMA EffectsMore ==
    ASSUME M!SetUp, NEW d \in M!Documents, NEW a, NEW m, NEW w, NEW n \in Nat, n <= Len(d.lines)
    PROVE  /\ Effects(a, m, d, n, w) \in Int
           /\ Effects(a, m, d, 0, w) = 0
           /\ \A b : (\A i \in 1..n : RowsUp(b, m, i) = RowsUp(a, m, i)) => Effects(b, m, d, n, w) = Effects(a, m, d, n, w)
           /\ n + 1 <= Len(d.lines) => Effects(a, m, d, n + 1, w) = Effects(a, m, d, n, w) + LineEffect(a, m, d, n + 1, w)
<1>1. Len(d.lines) \in Nat /\ \A b : \A i \in 1..Len(d.lines) : LineEffect(b, m, d, i, w) \in Int
  BY LinesTyped
<1>2. IsFiniteSet(1..n) /\ \A i \in 1..n : i \in 1..Len(d.lines)
  BY <1>1, FS_Interval
<1> DEFINE f(b) == [i \in 1..n |-> LineEffect(b, m, d, i, w)]
<1>3. \A b : \A i \in 1..n : f(b)[i] = LineEffect(b, m, d, i, w) /\ f(b)[i] \in Int
  BY <1>1, <1>2
<1>4. \A b : Effects(b, m, d, n, w) = Tally(f(b), 1..n)
  BY DEF Effects
<1>5. Effects(a, m, d, 0, w) = 0
  <2> DEFINE g == [i \in 1..0 |-> LineEffect(a, m, d, i, w)]
  <2>1. Effects(a, m, d, 0, w) = Tally(g, 1..0) /\ 1..0 = {}
    BY DEF Effects
  <2> HIDE DEF g
  <2> QED BY <2>1, TallyEmpty
<1> HIDE DEF f
<1>6. Effects(a, m, d, n, w) \in Int
  BY <1>2, <1>3, <1>4, TallyType
<1>7. ASSUME NEW b, \A i \in 1..n : RowsUp(b, m, i) = RowsUp(a, m, i)
      PROVE  Effects(b, m, d, n, w) = Effects(a, m, d, n, w)
  <2>1. \A i \in 1..n : LineEffect(b, m, d, i, w) = LineEffect(a, m, d, i, w)
    BY <1>7 DEF LineEffect
  <2>2. \A i \in 1..n : f(b)[i] \in Int /\ f(b)[i] = f(a)[i]
    BY <1>3, <2>1
  <2> QED BY <1>2, <1>4, <2>2, TallySame
<1>8. ASSUME n + 1 <= Len(d.lines)
      PROVE  Effects(a, m, d, n + 1, w) = Effects(a, m, d, n, w) + LineEffect(a, m, d, n + 1, w)
  <2> DEFINE g == [i \in 1..(n + 1) |-> LineEffect(a, m, d, i, w)]
  <2>1. /\ n + 1 \in 1..Len(d.lines) /\ n + 1 \notin 1..n /\ (1..n) \cup {n + 1} = 1..(n + 1)
        /\ \A i \in 1..(n + 1) : i \in 1..Len(d.lines)
    BY <1>1, <1>8
  <2>2. \A i \in 1..(n + 1) : g[i] = LineEffect(a, m, d, i, w) /\ g[i] \in Int
    BY <1>1, <2>1
  <2>3. Effects(a, m, d, n + 1, w) = Tally(g, 1..(n + 1))
    BY DEF Effects
  <2> HIDE DEF g
  <2>4. \A i \in (1..n) \cup {n + 1} : g[i] \in Int
    BY <2>1, <2>2
  <2>5. Tally(g, (1..n) \cup {n + 1}) = g[n + 1] + Tally(g, 1..n)
    BY <1>2, <2>1, <2>4, TallyInsert
  <2>6. Tally(g, 1..n) = Tally(f(a), 1..n)
    <3>1. \A i \in 1..n : g[i] \in Int /\ g[i] = f(a)[i]
      BY <1>3, <2>1, <2>2
    <3> QED BY <1>2, <3>1, TallySame
  <2>7. g[n + 1] = LineEffect(a, m, d, n + 1, w) /\ LineEffect(a, m, d, n + 1, w) \in Int
    BY <1>1, <2>1, <2>2
  <2>8. Effects(a, m, d, n, w) = Tally(g, 1..n)
    BY <1>4, <2>6
  <2>9. Effects(a, m, d, n + 1, w) = g[n + 1] + Tally(g, 1..n)
    BY <2>1, <2>3, <2>5
  <2> QED BY <1>6, <2>7, <2>8, <2>9
<1> QED BY <1>5, <1>6, <1>7, <1>8

\* After n lines of document m.
LinesDone(s, t, m, d, n) ==
    /\ Good(t)
    /\ Grown(s.ledger, t.ledger, m, 1..n)
    /\ \A w \in Warehouses : MovedIn(t.ledger, m, w) + s.level[w].on_hand = t.level[w].on_hand
    /\ M!TrackSerials => \A w \in Warehouses :
         /\ t.level[w].on_hand = s.level[w].on_hand + Effects(t.ledger, m, d, n, w)
         /\ UnitsAt(t.serial, w) = UnitsAt(s.serial, w) + Effects(t.ledger, m, d, n, w)

\* A count of units is a number.
LEMMA UnitsAtType ==
    ASSUME M!SetUp, NEW f, NEW w
    PROVE  UnitsAt(f, w) \in Int
<1> DEFINE F == { x \in Serials : f[x] = w }
<1>1. IsFiniteSet(F)
  BY MovesSizes, FS_Subset DEF M!SetUp
<1> HIDE DEF F
<1> QED BY <1>1, FS_CardinalityType DEF UnitsAt, F

\* One line more of a document.
LEMMA LinesOneMore ==
    ASSUME M!SetUp, NEW s, Good(s), NEW m \in Moves, \A k \in DOMAIN s.ledger : s.ledger[k].move # m,
           NEW d \in M!Documents, NEW n \in Nat, n + 1 <= Len(d.lines),
           NEW t, LinesDone(s, t, m, d, n), NEW u, LineDone(t, u, m, d, n + 1)
    PROVE  LinesDone(s, u, m, d, n + 1)
<1>1. Good(t) /\ Good(u)
  BY DEF LinesDone, LineDone
<1>2. Grown(s.ledger, u.ledger, m, 1..(n + 1))
  <2>1. Grown(s.ledger, u.ledger, m, (1..n) \cup {n + 1})
    BY GrownTwice DEF LinesDone, LineDone
  <2>2. (1..n) \cup {n + 1} = 1..(n + 1)
    OBVIOUS
  <2> QED BY <2>1, <2>2
<1>3. \A w \in Warehouses :
        /\ s.level[w].on_hand \in Int /\ t.level[w].on_hand \in Int /\ u.level[w].on_hand \in Int
        /\ MovedIn(t.ledger, m, w) \in Int /\ MovedIn(u.ledger, m, w) \in Int
  BY <1>1, GoodTypes
<1>4. ASSUME NEW w \in Warehouses
      PROVE  MovedIn(u.ledger, m, w) + s.level[w].on_hand = u.level[w].on_hand
  <2>1. /\ MovedIn(t.ledger, m, w) + s.level[w].on_hand = t.level[w].on_hand
        /\ MovedIn(u.ledger, m, w) + t.level[w].on_hand = MovedIn(t.ledger, m, w) + u.level[w].on_hand
    BY DEF LinesDone, LineDone
  <2>2. /\ s.level[w].on_hand \in Int /\ t.level[w].on_hand \in Int /\ u.level[w].on_hand \in Int
        /\ MovedIn(t.ledger, m, w) \in Int /\ MovedIn(u.ledger, m, w) \in Int
    BY <1>3
  <2> QED BY <2>1, <2>2
<1>5. ASSUME M!TrackSerials, NEW w \in Warehouses
      PROVE  /\ u.level[w].on_hand = s.level[w].on_hand + Effects(u.ledger, m, d, n + 1, w)
             /\ UnitsAt(u.serial, w) = UnitsAt(s.serial, w) + Effects(u.ledger, m, d, n + 1, w)
  <2>1. PICK up \in BOOLEAN :
          /\ d.type = "adjustment" => (up <=> \E k \in DOMAIN u.ledger \ DOMAIN t.ledger : u.ledger[k].qty > 0)
          /\ u.level[w].on_hand = t.level[w].on_hand + Between(d, up, Cardinality(d.lines[n + 1].serials), w)
          /\ UnitsAt(u.serial, w) = UnitsAt(t.serial, w) + Between(d, up, Cardinality(d.lines[n + 1].serials), w)
    BY <1>5 DEF LineDone
  <2>2. Grown(t.ledger, u.ledger, m, {n + 1}) /\ Grown(s.ledger, t.ledger, m, 1..n)
    BY DEF LineDone, LinesDone
  <2>3. ASSUME NEW k \in DOMAIN t.ledger, t.ledger[k].move = m PROVE t.ledger[k].line \in 1..n
    <3>1. k \notin DOMAIN s.ledger
      BY <2>2, <2>3 DEF Grown
    <3> QED BY <2>2, <3>1 DEF Grown
  <2>4. \A i \in 1..n : RowsUp(u.ledger, m, i) = RowsUp(t.ledger, m, i)
    <3> SUFFICES ASSUME NEW i \in 1..n PROVE RowsUp(u.ledger, m, i) = RowsUp(t.ledger, m, i)
      OBVIOUS
    <3>1. i # n + 1
      OBVIOUS
    <3> QED BY <2>2, <3>1 DEF Grown, RowsUp
  <2>5. RowsUp(u.ledger, m, n + 1) # {} <=> \E k \in DOMAIN u.ledger \ DOMAIN t.ledger : u.ledger[k].qty > 0
    <3>1. \A k \in DOMAIN t.ledger : u.ledger[k] = t.ledger[k] /\ ~(t.ledger[k].move = m /\ t.ledger[k].line = n + 1)
      <4>1. n + 1 \notin 1..n
        OBVIOUS
      <4> QED BY <2>2, <2>3, <4>1 DEF Grown
    <3>2. \A k \in DOMAIN u.ledger \ DOMAIN t.ledger : u.ledger[k].move = m /\ u.ledger[k].line = n + 1
      BY <2>2 DEF Grown
    <3> QED BY <3>1, <3>2 DEF RowsUp
  <2>6. Between(d, up, Cardinality(d.lines[n + 1].serials), w) = LineEffect(u.ledger, m, d, n + 1, w)
    <3>1. CASE d.type = "adjustment"
      <4>1. up = (RowsUp(u.ledger, m, n + 1) # {})
        BY <2>1, <2>5, <3>1
      <4> QED BY <4>1 DEF LineEffect
    <3>2. CASE d.type # "adjustment"
      BY <3>2 DEF LineEffect, Between, Shift, Gains, Gives
    <3> QED BY <3>1, <3>2
  <2>7. n <= Len(d.lines) /\ Len(d.lines) \in Nat
    BY LinesTyped
  <2>8. /\ Effects(u.ledger, m, d, n + 1, w) = Effects(u.ledger, m, d, n, w) + LineEffect(u.ledger, m, d, n + 1, w)
        /\ Effects(u.ledger, m, d, n, w) = Effects(t.ledger, m, d, n, w)
        /\ Effects(t.ledger, m, d, n, w) \in Int
    BY <2>4, <2>7, EffectsMore
  <2>9. LineEffect(u.ledger, m, d, n + 1, w) \in Int
    <3>1. n + 1 \in 1..Len(d.lines)
      BY <2>7
    <3> QED BY <3>1, LinesTyped
  <2>10. /\ t.level[w].on_hand = s.level[w].on_hand + Effects(t.ledger, m, d, n, w)
         /\ UnitsAt(t.serial, w) = UnitsAt(s.serial, w) + Effects(t.ledger, m, d, n, w)
    BY <1>5 DEF LinesDone
  <2>11. UnitsAt(s.serial, w) \in Int /\ s.level[w].on_hand \in Int
    BY <1>3, UnitsAtType
  <2> QED BY <2>1, <2>6, <2>8, <2>9, <2>10, <2>11
<1> QED BY <1>1, <1>2, <1>4, <1>5 DEF LinesDone

\* A document whose lines may all be applied moves levels, rows and units alike.
LEMMA PostedIs ==
    ASSUME M!SetUp, Good(M!Stock), NEW m \in Moves, \A k \in DOMAIN ledger : ledger[k].move # m,
           NEW d \in M!Documents, M!ValidHeader(d.type, d.from, d.to),
           \A i \in 1..Len(d.lines) : M!CanApplyLine(M!Posted(m, d)[i - 1], m, d, i)
    PROVE  LinesDone(M!Stock, M!Posted(m, d)[Len(d.lines)], m, d, Len(d.lines))
<1>1. PICK run : run = M!Posted(m, d)
  OBVIOUS
<1>2. PICK s : s = M!Stock
  OBVIOUS
<1>3. /\ Len(d.lines) \in Nat /\ DOMAIN d.lines = 1..Len(d.lines)
  BY LinesTyped
<1>4. run[0] = s /\ \A k \in 1..Len(d.lines) : run[k] = M!apply_line(run[k - 1], m, d, k)
  BY <1>1, <1>2, <1>3, PostedRun
<1>5. Good(s) /\ s.ledger = ledger /\ \A k \in DOMAIN s.ledger : s.ledger[k].move # m
  BY <1>2 DEF M!Stock
<1> DEFINE J == { j \in Nat : j <= Len(d.lines) => LinesDone(s, run[j], m, d, j) }
<1>6. 0 \in J
  <2>1. Grown(s.ledger, s.ledger, m, 1..0)
    BY <1>5, GoodTypes DEF Grown
  <2>2. ASSUME NEW w \in Warehouses PROVE MovedIn(s.ledger, m, w) + s.level[w].on_hand = s.level[w].on_hand
    <3>1. RowsIn(s.ledger, m, w) = {}
      BY <1>5 DEF RowsIn
    <3>2. MovedIn(s.ledger, m, w) = 0
      BY <3>1, QtyNone DEF MovedIn
    <3>3. s.level[w].on_hand \in Int
      BY <1>5, GoodTypes
    <3> QED BY <3>2, <3>3
  <2>3. ASSUME NEW w \in Warehouses
        PROVE  /\ s.level[w].on_hand = s.level[w].on_hand + Effects(s.ledger, m, d, 0, w)
               /\ UnitsAt(s.serial, w) = UnitsAt(s.serial, w) + Effects(s.ledger, m, d, 0, w)
    <3>1. 0 \in Nat /\ 0 <= Len(d.lines)
      BY <1>3
    <3>2. Effects(s.ledger, m, d, 0, w) = 0
      BY <3>1, EffectsMore
    <3>3. s.level[w].on_hand \in Int /\ UnitsAt(s.serial, w) \in Int
      BY <1>5, GoodTypes, UnitsAtType
    <3> QED BY <3>2, <3>3
  <2>4. LinesDone(s, s, m, d, 0)
    BY <1>5, <2>1, <2>2, <2>3 DEF LinesDone
  <2> QED BY <1>4, <2>4
<1>7. ASSUME NEW j \in Nat, j \in J PROVE j + 1 \in J
  <2> SUFFICES ASSUME j + 1 <= Len(d.lines) PROVE LinesDone(s, run[j + 1], m, d, j + 1)
    OBVIOUS
  <2>1. LinesDone(s, run[j], m, d, j)
    BY <1>3, <1>7
  <2>2. j + 1 \in 1..Len(d.lines) /\ (j + 1) - 1 = j
    BY <1>3
  <2>3. run[j + 1] = M!apply_line(run[j], m, d, j + 1) /\ M!CanApplyLine(run[j], m, d, j + 1)
    BY <1>1, <1>4, <2>2
  <2>4. Good(run[j])
    BY <2>1 DEF LinesDone
  <2>5. LineDone(run[j], run[j + 1], m, d, j + 1)
    BY <1>3, <2>2, <2>3, <2>4, LineIs
  <2> QED BY <1>5, <2>1, <2>5, LinesOneMore
<1>8. \A j \in Nat : j \in J
  <2> HIDE DEF J
  <2> QED BY <1>6, <1>7, SetInduction
<1>9. LinesDone(s, run[Len(d.lines)], m, d, Len(d.lines))
  BY <1>3, <1>8
<1> QED BY <1>1, <1>2, <1>9

(* A document taken back row by row.                                        *)

LotRowsIn(a, m, w, lot) == { k \in DOMAIN a : a[k].move = m /\ a[k].warehouse = w /\ a[k].lot = lot }

LotMovedIn(a, m, w, lot) == M!QtyOf(a, LotRowsIn(a, m, w, lot))

\* One row more in what a document moved of a lot.
LEMMA LotMovedMore ==
    ASSUME NEW rows \in Seq(M!Rows), NEW row \in M!Rows, NEW m, NEW w, NEW lot
    PROVE  /\ LotMovedIn(rows, m, w, lot) \in Int
           /\ LotMovedIn(Append(rows, row), m, w, lot) = LotMovedIn(rows, m, w, lot)
                + (IF row.move = m /\ row.warehouse = w /\ row.lot = lot THEN row.qty ELSE 0)
<1> DEFINE more == Append(rows, row)
           n == Len(rows) + 1
           K == LotRowsIn(rows, m, w, lot)
           L == LotRowsIn(more, m, w, lot)
<1>1. /\ DOMAIN more = DOMAIN rows \cup {n}
      /\ \A k \in DOMAIN rows : more[k] = rows[k]
      /\ more[n] = row
  OBVIOUS
<1>2. K \subseteq DOMAIN rows
  BY DEF LotRowsIn
<1>3. L = IF row.move = m /\ row.warehouse = w /\ row.lot = lot THEN K \cup {n} ELSE K
  <2> HIDE DEF more, n
  <2> QED BY <1>1 DEF LotRowsIn
<1> HIDE DEF K, L
<1>4. /\ M!QtyOf(more, K) = M!QtyOf(rows, K) /\ M!QtyOf(rows, K) \in Int
      /\ M!QtyOf(more, K \cup {n}) = M!QtyOf(rows, K) + row.qty
  BY <1>2, QtyAppend
<1> QED BY <1>3, <1>4 DEF LotMovedIn, K, L

\* The rows of a document among the first k.
RowsTo(a, k, m, w) == { j \in 1..k : a[j].move = m /\ a[j].warehouse = w }
LotRowsTo(a, k, m, w, lot) == { j \in 1..k : a[j].move = m /\ a[j].warehouse = w /\ a[j].lot = lot }

\* The rows of a document among the first of the ledger, with one row more.
LEMMA RowsToMore ==
    ASSUME NEW a \in Seq(M!Rows), NEW k \in Nat, k + 1 <= Len(a), NEW m, NEW w, NEW lot
    PROVE  /\ M!QtyOf(a, RowsTo(a, k, m, w)) \in Int /\ M!QtyOf(a, LotRowsTo(a, k, m, w, lot)) \in Int
           /\ M!QtyOf(a, RowsTo(a, k + 1, m, w)) = M!QtyOf(a, RowsTo(a, k, m, w))
                + (IF a[k + 1].move = m /\ a[k + 1].warehouse = w THEN a[k + 1].qty ELSE 0)
           /\ M!QtyOf(a, LotRowsTo(a, k + 1, m, w, lot)) = M!QtyOf(a, LotRowsTo(a, k, m, w, lot))
                + (IF a[k + 1].move = m /\ a[k + 1].warehouse = w /\ a[k + 1].lot = lot THEN a[k + 1].qty ELSE 0)
<1>1. DOMAIN a = 1..Len(a) /\ Len(a) \in Nat
  OBVIOUS
<1>2. k + 1 \in DOMAIN a /\ 1..k \subseteq DOMAIN a /\ 1..(k + 1) = (1..k) \cup {k + 1} /\ k + 1 \notin 1..k
  BY <1>1
<1>3. \A K \in SUBSET DOMAIN a : IsFiniteSet(K) /\ M!QtyOf(a, K) \in Int /\ \A j \in K : a[j].qty \in Int
  BY RowsFinite
<1>4. ASSUME NEW K, K \subseteq 1..k
      PROVE  M!QtyOf(a, K) \in Int /\ M!QtyOf(a, K \cup {k + 1}) = M!QtyOf(a, K) + a[k + 1].qty
  <2>1. K \in SUBSET DOMAIN a /\ K \cup {k + 1} \in SUBSET DOMAIN a /\ k + 1 \notin K
    BY <1>2, <1>4
  <2>2. IsFiniteSet(K) /\ M!QtyOf(a, K) \in Int /\ \A j \in K \cup {k + 1} : a[j].qty \in Int
    BY <1>3, <2>1
  <2> QED BY <2>1, <2>2, QtyMore
<1> DEFINE K == RowsTo(a, k, m, w)
           L == LotRowsTo(a, k, m, w, lot)
           n == k + 1
<1> HIDE DEF n
<1>5. /\ RowsTo(a, n, m, w) = IF a[n].move = m /\ a[n].warehouse = w THEN K \cup {n} ELSE K
      /\ LotRowsTo(a, n, m, w, lot) = IF a[n].move = m /\ a[n].warehouse = w /\ a[n].lot = lot THEN L \cup {n} ELSE L
  <2>1. 1..n = (1..k) \cup {n}
    BY <1>2 DEF n
  <2> QED BY <2>1 DEF RowsTo, LotRowsTo
<1>6. K \subseteq 1..k /\ L \subseteq 1..k
  BY DEF RowsTo, LotRowsTo
<1> HIDE DEF K, L
<1>7. /\ M!QtyOf(a, K) \in Int /\ M!QtyOf(a, K \cup {n}) = M!QtyOf(a, K) + a[n].qty
      /\ M!QtyOf(a, L) \in Int /\ M!QtyOf(a, L \cup {n}) = M!QtyOf(a, L) + a[n].qty
  BY <1>4, <1>6 DEF n
<1> QED BY <1>5, <1>7 DEF K, L, n

\* After k rows of the ledger.
RowsBack(s, t, m, r, k) ==
    /\ Good(t) /\ t.serial = s.serial
    /\ Grown(s.ledger, t.ledger, r, Nat)
    /\ \A w \in Warehouses :
         t.level[w].on_hand = s.level[w].on_hand - M!QtyOf(s.ledger, RowsTo(s.ledger, k, m, w))
    /\ \A w \in Warehouses, lot \in Lots \cup {NoLot} :
         LotMovedIn(t.ledger, r, w, lot) = -M!QtyOf(s.ledger, LotRowsTo(s.ledger, k, m, w, lot))

\* The mirror of a row is a movement of the opposite quantity.
LEMMA MirrorIs ==
    ASSUME NEW row \in M!Rows
    PROVE  /\ IsMovement(M!Mirror(row)) /\ M!Mirror(row).warehouse = row.warehouse
           /\ (IF M!Mirror(row).in THEN M!Mirror(row).qty ELSE -M!Mirror(row).qty) = -row.qty
<1>1. row.qty \in Int /\ row.unit_cost \in Int /\ row.warehouse \in Warehouses
  BY DEF M!Rows
<1>2. CASE row.qty > 0
  <2>1. M!Mirror(row) = [warehouse |-> row.warehouse, in |-> FALSE, qty |-> row.qty, cost |-> 0]
    BY <1>2 DEF M!Mirror, M!Out
  <2> QED BY <1>1, <2>1 DEF IsMovement
<1>3. CASE ~(row.qty > 0)
  <2>1. M!Mirror(row) = [warehouse |-> row.warehouse, in |-> TRUE, qty |-> -row.qty, cost |-> row.unit_cost]
    BY <1>3 DEF M!Mirror, M!In
  <2> QED BY <1>1, <2>1 DEF IsMovement
<1> QED BY <1>2, <1>3

\* One row more taken back.
LEMMA RowsBackMore ==
    ASSUME M!SetUp, NEW s, Good(s), NEW m \in Moves, NEW r \in Moves,
           NEW k \in Nat, k + 1 <= Len(s.ledger), NEW t, RowsBack(s, t, m, r, k),
           NEW row, row = s.ledger[k + 1],
           row.move = m => M!CanApply(t, M!Mirror(row)),
           NEW u, u = IF row.move = m THEN M!apply(t, r, row.line, row.lot, M!Mirror(row)) ELSE t
    PROVE  RowsBack(s, u, m, r, k + 1)
<1>1. s.ledger \in Seq(M!Rows) /\ k + 1 \in DOMAIN s.ledger /\ row \in M!Rows
  <2>1. s.ledger \in Seq(M!Rows)
    BY GoodTypes
  <2> QED BY <2>1
<1>2. Good(t) /\ t.ledger \in Seq(M!Rows) /\ t.serial = s.serial /\ Grown(s.ledger, t.ledger, r, Nat)
  BY GoodTypes DEF RowsBack
<1>3. /\ row.line \in Nat /\ row.lot \in Lots \cup {NoLot} /\ row.qty \in Int /\ row.warehouse \in Warehouses
      /\ M!TrackBatches => row.lot \in Lots
  <2>1. M!TrackBatches => row.lot \in Lots
    BY <1>1 DEF Good, LotsTie
  <2> QED BY <1>1, <2>1 DEF M!Rows
<1> DEFINE Q(w) == M!QtyOf(s.ledger, RowsTo(s.ledger, k, m, w))
           P(w) == M!QtyOf(s.ledger, RowsTo(s.ledger, k + 1, m, w))
           B(w, lot) == M!QtyOf(s.ledger, LotRowsTo(s.ledger, k, m, w, lot))
           C(w, lot) == M!QtyOf(s.ledger, LotRowsTo(s.ledger, k + 1, m, w, lot))
<1>4. \A w, lot :
        /\ Q(w) \in Int /\ B(w, lot) \in Int
        /\ P(w) = Q(w) + (IF row.move = m /\ row.warehouse = w THEN row.qty ELSE 0)
        /\ C(w, lot) = B(w, lot) + (IF row.move = m /\ row.warehouse = w /\ row.lot = lot THEN row.qty ELSE 0)
  BY <1>1, RowsToMore
<1>5. /\ \A w \in Warehouses : t.level[w].on_hand = s.level[w].on_hand - Q(w)
      /\ \A w \in Warehouses, lot \in Lots \cup {NoLot} : LotMovedIn(t.ledger, r, w, lot) = -B(w, lot)
  BY DEF RowsBack
<1>6. \A w \in Warehouses : s.level[w].on_hand \in Int
  BY GoodTypes
<1> HIDE DEF Q, P, B, C
<1>7. CASE row.move # m
  <2>1. u = t
    BY <1>7
  <2>3. ASSUME NEW w, NEW lot PROVE P(w) = Q(w) /\ C(w, lot) = B(w, lot)
    <3>1. Q(w) \in Int /\ B(w, lot) \in Int /\ P(w) = Q(w) + 0 /\ C(w, lot) = B(w, lot) + 0
      BY <1>4, <1>7
    <3> QED BY <3>1
  <2> QED BY <1>2, <1>5, <2>1, <2>3 DEF RowsBack, P, C
<1>8. CASE row.move = m
  <2> DEFINE n == Len(t.ledger) + 1
  <2>1. u = M!apply(t, r, row.line, row.lot, M!Mirror(row)) /\ M!CanApply(t, M!Mirror(row))
    BY <1>8
  <2>2. PICK mv, new : /\ mv = M!Mirror(row) /\ new = u.ledger[n]
    OBVIOUS
  <2>3. IsMovement(mv) /\ mv.warehouse = row.warehouse /\ (IF mv.in THEN mv.qty ELSE -mv.qty) = -row.qty
    BY <1>1, <2>2, MirrorIs
  <2>4. /\ Stepped(t, u, r, row.line)
        /\ new \in M!Rows /\ u.ledger = Append(t.ledger, new)
        /\ new.move = r /\ new.lot = row.lot /\ new.warehouse = row.warehouse /\ new.qty = -row.qty
        /\ \A w \in Warehouses :
             u.level[w].on_hand = t.level[w].on_hand + (IF w = row.warehouse THEN -row.qty ELSE 0)
    <3>1. M!CanApply(t, mv) /\ u = M!apply(t, r, row.line, row.lot, mv)
      BY <2>1, <2>2
    <3> DEFINE q == IF mv.in THEN mv.qty ELSE -mv.qty
    <3>2. /\ Stepped(t, u, r, row.line)
          /\ u.ledger[n] \in M!Rows
          /\ u.ledger = Append(t.ledger, u.ledger[n])
          /\ u.ledger[n].move = r /\ u.ledger[n].lot = row.lot
          /\ u.ledger[n].warehouse = mv.warehouse /\ u.ledger[n].qty = q
          /\ \A w \in Warehouses : u.level[w].on_hand = t.level[w].on_hand + (IF w = mv.warehouse THEN q ELSE 0)
      <4>1. PICK i, lot : i = row.line /\ lot = row.lot
        OBVIOUS
      <4>2. i \in Nat /\ lot \in Lots \cup {NoLot} /\ (M!TrackBatches => lot \in Lots) /\ IsMovement(mv)
            /\ M!CanApply(t, mv) /\ u = M!apply(t, r, i, lot, mv)
        BY <1>3, <2>3, <3>1, <4>1
      <4>3. Grew(t, u, r, i, lot, mv)
        BY <1>2, <4>2, ApplyGrew
      <4> QED BY <4>1, <4>3 DEF Grew
    <3>3. q = -row.qty
      BY <2>3
    <3> HIDE DEF q, n
    <3>4. /\ u.ledger[n].warehouse = row.warehouse /\ u.ledger[n].qty = -row.qty
          /\ \A w \in Warehouses :
               u.level[w].on_hand = t.level[w].on_hand + (IF w = row.warehouse THEN -row.qty ELSE 0)
      BY <2>3, <3>2, <3>3
    <3> QED BY <2>2, <3>2, <3>4
  <2>5. Good(u) /\ u.serial = s.serial
    BY <1>2, <2>4 DEF Stepped
  <2>6. Grown(s.ledger, u.ledger, r, Nat)
    <3>1. Grown(s.ledger, u.ledger, r, Nat \cup {row.line})
      BY <1>2, <2>4, GrownTwice DEF Stepped
    <3>2. Nat \cup {row.line} = Nat
      BY <1>3
    <3> QED BY <3>1, <3>2
  <2>7. ASSUME NEW w \in Warehouses PROVE u.level[w].on_hand = s.level[w].on_hand - P(w)
    <3>1. t.level[w].on_hand = s.level[w].on_hand - Q(w) /\ s.level[w].on_hand \in Int /\ Q(w) \in Int
      BY <1>4, <1>5, <1>6
    <3>2. P(w) = Q(w) + (IF row.warehouse = w THEN row.qty ELSE 0)
      BY <1>4, <1>8
    <3>3. u.level[w].on_hand = t.level[w].on_hand + (IF w = row.warehouse THEN -row.qty ELSE 0)
      BY <2>4
    <3>4. CASE w = row.warehouse
      <4>1. P(w) = Q(w) + row.qty /\ u.level[w].on_hand = t.level[w].on_hand + -row.qty
        BY <3>2, <3>3, <3>4
      <4> QED BY <1>3, <3>1, <4>1
    <3>5. CASE w # row.warehouse
      <4>1. P(w) = Q(w) + 0 /\ u.level[w].on_hand = t.level[w].on_hand + 0
        BY <3>2, <3>3, <3>5
      <4> QED BY <3>1, <4>1
    <3> QED BY <3>4, <3>5
  <2>8. ASSUME NEW w \in Warehouses, NEW lot \in Lots \cup {NoLot}
        PROVE  LotMovedIn(u.ledger, r, w, lot) = -C(w, lot)
    <3>1. LotMovedIn(t.ledger, r, w, lot) = -B(w, lot) /\ B(w, lot) \in Int
      BY <1>4, <1>5
    <3>2. C(w, lot) = B(w, lot) + (IF row.warehouse = w /\ row.lot = lot THEN row.qty ELSE 0)
      BY <1>4, <1>8
    <3>3. LotMovedIn(u.ledger, r, w, lot) = LotMovedIn(t.ledger, r, w, lot)
             + (IF row.warehouse = w /\ row.lot = lot THEN -row.qty ELSE 0)
      <4>1. LotMovedIn(Append(t.ledger, new), r, w, lot) = LotMovedIn(t.ledger, r, w, lot)
              + (IF new.move = r /\ new.warehouse = w /\ new.lot = lot THEN new.qty ELSE 0)
        <5>1. t.ledger \in Seq(M!Rows) /\ new \in M!Rows
          BY <1>2, <2>4
        <5> QED BY <5>1, LotMovedMore
      <4> QED BY <2>4, <4>1
    <3> QED BY <1>3, <3>1, <3>2, <3>3
  <2> HIDE DEF n
  <2> QED BY <2>5, <2>6, <2>7, <2>8 DEF RowsBack, P, C
<1> QED BY <1>7, <1>8

\* When every row of a document is mirrored, its reversal moved the opposite.
LEMMA MirroredIs ==
    ASSUME M!SetUp, Good(M!Stock), NEW m \in Moves, NEW r \in Moves,
           \A k \in DOMAIN ledger : ledger[k].move # r,
           \A k \in DOMAIN ledger : ledger[k].move = m => M!CanApply(M!Mirrored(m, r)[k - 1], M!Mirror(ledger[k]))
    PROVE  LET t == M!Mirrored(m, r)[Len(ledger)]
           IN  /\ Good(t) /\ t.serial = serial
               /\ Grown(ledger, t.ledger, r, Nat)
               /\ \A w \in Warehouses : t.level[w].on_hand = shelf[w].on_hand - MovedIn(ledger, m, w)
               /\ \A w \in Warehouses, lot \in Lots \cup {NoLot} :
                    LotMovedIn(t.ledger, r, w, lot) = -LotMovedIn(ledger, m, w, lot)
<1>1. PICK run : run = M!Mirrored(m, r)
  OBVIOUS
<1>2. PICK s : s = M!Stock
  OBVIOUS
<1>3. Good(s) /\ s.ledger = ledger /\ s.serial = serial /\ s.level = shelf
  BY <1>2 DEF M!Stock
<1>4. ledger \in Seq(M!Rows) /\ Len(ledger) \in Nat /\ DOMAIN ledger = 1..Len(ledger)
  <2>1. ledger \in Seq(M!Rows)
    BY <1>3, GoodTypes
  <2> QED BY <2>1
<1>5. /\ run[0] = s
      /\ \A k \in 1..Len(ledger) :
           run[k] = IF ledger[k].move = m
                    THEN M!apply(run[k - 1], r, ledger[k].line, ledger[k].lot, M!Mirror(ledger[k]))
                    ELSE run[k - 1]
  BY <1>1, <1>2, <1>4, MirroredRun
<1> DEFINE J == { k \in Nat : k <= Len(ledger) => RowsBack(s, run[k], m, r, k) }
<1>6. 0 \in J
  <2>1. Grown(s.ledger, s.ledger, r, Nat)
    BY <1>3, GoodTypes DEF Grown
  <2>2. ASSUME NEW w \in Warehouses
        PROVE  s.level[w].on_hand = s.level[w].on_hand - M!QtyOf(s.ledger, RowsTo(s.ledger, 0, m, w))
    <3>1. RowsTo(s.ledger, 0, m, w) = {}
      BY DEF RowsTo
    <3>2. M!QtyOf(s.ledger, RowsTo(s.ledger, 0, m, w)) = 0 /\ s.level[w].on_hand \in Int
      BY <1>3, <3>1, QtyNone, GoodTypes
    <3> QED BY <3>2
  <2>3. ASSUME NEW w \in Warehouses, NEW lot \in Lots \cup {NoLot}
        PROVE  LotMovedIn(s.ledger, r, w, lot) = -M!QtyOf(s.ledger, LotRowsTo(s.ledger, 0, m, w, lot))
    <3>1. LotRowsTo(s.ledger, 0, m, w, lot) = {} /\ LotRowsIn(s.ledger, r, w, lot) = {}
      BY <1>3 DEF LotRowsTo, LotRowsIn
    <3>2. M!QtyOf(s.ledger, {}) = 0
      BY QtyNone
    <3> QED BY <3>1, <3>2 DEF LotMovedIn
  <2>4. RowsBack(s, s, m, r, 0)
    BY <1>3, <2>1, <2>2, <2>3 DEF RowsBack
  <2> QED BY <1>5, <2>4
<1>7. ASSUME NEW k \in Nat, k \in J PROVE k + 1 \in J
  <2> SUFFICES ASSUME k + 1 <= Len(ledger) PROVE RowsBack(s, run[k + 1], m, r, k + 1)
    OBVIOUS
  <2>1. RowsBack(s, run[k], m, r, k)
    BY <1>4, <1>7
  <2>2. k + 1 \in 1..Len(ledger) /\ (k + 1) - 1 = k /\ k + 1 \in DOMAIN ledger
    BY <1>4
  <2>3. PICK row : row = s.ledger[k + 1]
    OBVIOUS
  <2>4. /\ run[k + 1] = IF row.move = m THEN M!apply(run[k], r, row.line, row.lot, M!Mirror(row)) ELSE run[k]
        /\ row.move = m => M!CanApply(run[k], M!Mirror(row))
    BY <1>1, <1>3, <1>5, <2>2, <2>3
  <2> QED BY <1>3, <2>1, <2>3, <2>4, RowsBackMore
<1>8. \A k \in Nat : k \in J
  <2> HIDE DEF J
  <2> QED BY <1>6, <1>7, SetInduction
<1>9. PICK t : t = run[Len(ledger)]
  OBVIOUS
<1>10. RowsBack(s, t, m, r, Len(ledger))
  BY <1>4, <1>8, <1>9
<1>11. \A w : RowsTo(ledger, Len(ledger), m, w) = RowsIn(ledger, m, w)
  BY <1>4 DEF RowsTo, RowsIn
<1>12. \A w, lot : LotRowsTo(ledger, Len(ledger), m, w, lot) = LotRowsIn(ledger, m, w, lot)
  BY <1>4 DEF LotRowsTo, LotRowsIn
<1>13. /\ Good(t) /\ t.serial = serial
       /\ Grown(ledger, t.ledger, r, Nat)
       /\ \A w \in Warehouses : t.level[w].on_hand = shelf[w].on_hand - MovedIn(ledger, m, w)
       /\ \A w \in Warehouses, lot \in Lots \cup {NoLot} :
            LotMovedIn(t.ledger, r, w, lot) = -LotMovedIn(ledger, m, w, lot)
  BY <1>3, <1>10, <1>11, <1>12 DEF RowsBack, MovedIn, LotMovedIn
<1> QED BY <1>1, <1>9, <1>13

(* The units of a document taken back walk home.                            *)

WalkedBack(s, t, m, d, n) ==
    /\ Good(t) /\ t.level = s.level /\ t.ledger = s.ledger
    /\ \A w \in Warehouses : UnitsAt(t.serial, w) = UnitsAt(s.serial, w) - Effects(ledger, m, d, n, w)

\* The units of a line walk home.
LEMMA UnserialIs ==
    ASSUME M!SetUp, NEW s, Good(s), NEW m, NEW d \in M!Documents, M!ValidHeader(d.type, d.from, d.to),
           NEW i \in 1..Len(d.lines), M!CanUnserial(s, m, d, i)
    PROVE  LET u == M!Unserial(s, m, d, i)
           IN  /\ Good(u) /\ u.level = s.level /\ u.ledger = s.ledger
               /\ \A w \in Warehouses : UnitsAt(u.serial, w) = UnitsAt(s.serial, w) - LineEffect(ledger, m, d, i, w)
<1>0. PICK u : u = M!Unserial(s, m, d, i)
  OBVIOUS
<1>1. PICK names, up : names = d.lines[i].serials /\ up = M!WentUp(m, i)
  OBVIOUS
<1>2. up \in BOOLEAN /\ up = (RowsUp(ledger, m, i) # {})
  BY <1>1 DEF M!WentUp, RowsUp
<1>3. d.type \in M!MoveTypes /\ names \in SUBSET Serials /\ Cardinality(names) \in Int
  BY <1>1, LinesTyped
<1>4. PICK b : b = IF d.type \in {"issue", "transfer"} THEN d.from
                   ELSE IF d.type = "receipt" \/ up THEN "scrapped" ELSE d.from
  OBVIOUS
<1>5. u = [s EXCEPT !.serial = [x \in Serials |-> IF x \in names THEN b ELSE s.serial[x]]]
  <2>1. CASE d.type = "receipt"
    BY <1>0, <1>1, <1>4, <2>1 DEF M!Unserial, M!serials_out
  <2>2. CASE d.type = "issue"
    BY <1>0, <1>1, <1>4, <2>2 DEF M!Unserial, M!serials_in
  <2>3. CASE d.type = "transfer"
    BY <1>0, <1>1, <1>4, <2>3 DEF M!Unserial, M!serials_in
  <2>4. CASE d.type = "adjustment"
    BY <1>0, <1>1, <1>4, <2>4 DEF M!Unserial, M!serials_in, M!serials_out
  <2> QED BY <1>3, <2>1, <2>2, <2>3, <2>4 DEF M!MoveTypes
<1>6. PICK from, to : from = Gains(d, up) /\ to = Gives(d, up)
  OBVIOUS
<1>7. from # to
  BY <1>2, <1>3, <1>6, EndsDiffer
<1>8. NoWarehouse \notin Warehouses
  BY DEF M!SetUp
<1>9. (to \in Warehouses => b = to) /\ (to \notin Warehouses => b \in M!Away)
  BY <1>3, <1>4, <1>6, <1>8 DEF Gives, M!ValidHeader, M!MoveTypes, M!Away
<1>10. /\ from \in Warehouses => \A x \in names : s.serial[x] = from
       /\ from \notin Warehouses => \A x \in names : s.serial[x] \notin Warehouses
  <2>1. CASE d.type = "receipt"
    BY <1>1, <1>6, <1>8, <2>1 DEF Gains, M!ValidHeader, M!CanUnserial, M!in_stock_at
  <2>2. CASE d.type = "issue"
    BY <1>1, <1>6, <1>8, <2>2 DEF Gains, M!ValidHeader, M!CanUnserial, M!CanSerialsIn
  <2>3. CASE d.type = "transfer"
    BY <1>1, <1>6, <1>8, <2>3 DEF Gains, M!ValidHeader, M!CanUnserial, M!in_stock_at
  <2>4. CASE d.type = "adjustment"
    BY <1>1, <1>6, <1>8, <2>4 DEF Gains, M!ValidHeader, M!CanUnserial, M!in_stock_at, M!CanSerialsIn
  <2> QED BY <1>3, <2>1, <2>2, <2>3, <2>4 DEF M!MoveTypes
<1>11. PICK g : g = [x \in Serials |-> IF x \in names THEN b ELSE s.serial[x]]
  OBVIOUS
<1>12. s.serial \in [Serials -> Warehouses \cup M!Away] /\ s \in Stocks
  BY GoodTypes DEF Good
<1>13. g \in [Serials -> Warehouses \cup M!Away]
  <2>1. b \in Warehouses \cup M!Away
    BY <1>9
  <2> QED BY <1>11, <1>12, <2>1
<1>14. /\ u = [level |-> s.level, ledger |-> s.ledger, serial |-> g]
       /\ u.level = s.level /\ u.ledger = s.ledger /\ u.serial = g
  <2>1. u = [s EXCEPT !.serial = g]
    BY <1>5, <1>11
  <2> QED BY <1>12, <2>1 DEF Stocks
<1>15. Good(u)
  <2>1. u \in Stocks
    BY <1>12, <1>13, <1>14 DEF Stocks
  <2> QED BY <1>14, <2>1 DEF Good, LotsTie
<1>16. ASSUME NEW w \in Warehouses
       PROVE  UnitsAt(g, w) = UnitsAt(s.serial, w) - LineEffect(ledger, m, d, i, w)
  <2>1. UnitsAt(g, w) = UnitsAt(s.serial, w) + Shift(from, to, Cardinality(names), w)
    <3>1. PICK f : f = s.serial
      OBVIOUS
    <3>2. /\ f \in [Serials -> Warehouses \cup M!Away]
          /\ \A x \in names : IF to \in Warehouses THEN g[x] = to ELSE g[x] \in M!Away
          /\ \A x \in Serials \ names : g[x] = f[x]
          /\ from \in Warehouses => \A x \in names : f[x] = from
          /\ from \notin Warehouses => \A x \in names : f[x] \notin Warehouses
      BY <1>3, <1>9, <1>10, <1>11, <1>12, <3>1
    <3>3. UnitsAt(g, w) = UnitsAt(f, w) + Shift(from, to, Cardinality(names), w)
      BY <1>3, <1>7, <3>2, UnitsMove
    <3> QED BY <3>1, <3>3
  <2>2. LineEffect(ledger, m, d, i, w) = Shift(to, from, Cardinality(names), w)
    BY <1>1, <1>2, <1>6 DEF LineEffect, Between
  <2>3. UnitsAt(s.serial, w) \in Int
    BY UnitsAtType
  <2>4. Shift(from, to, Cardinality(names), w) = -Shift(to, from, Cardinality(names), w)
        /\ Shift(to, from, Cardinality(names), w) \in Int
    BY <1>3 DEF Shift
  <2> QED BY <2>1, <2>2, <2>3, <2>4
<1> QED BY <1>0, <1>14, <1>15, <1>16

\* The units of all lines walk home.
LEMMA WalkedIs ==
    ASSUME M!SetUp, NEW s, Good(s), NEW m, NEW d \in M!Documents, M!ValidHeader(d.type, d.from, d.to),
           \A i \in 1..Len(d.lines) : M!CanUnserial(M!Walked(s, m, d)[i - 1], m, d, i)
    PROVE  WalkedBack(s, M!Walked(s, m, d)[Len(d.lines)], m, d, Len(d.lines))
<1>1. PICK run : run = M!Walked(s, m, d)
  OBVIOUS
<1>2. Len(d.lines) \in Nat
  BY LinesTyped
<1>3. run[0] = s /\ \A k \in 1..Len(d.lines) : run[k] = M!Unserial(run[k - 1], m, d, k)
  BY <1>1, <1>2, WalkedRun
<1> DEFINE J == { j \in Nat : j <= Len(d.lines) => WalkedBack(s, run[j], m, d, j) }
<1>4. 0 \in J
  <2>1. ASSUME NEW w \in Warehouses PROVE UnitsAt(s.serial, w) = UnitsAt(s.serial, w) - Effects(ledger, m, d, 0, w)
    <3>1. 0 \in Nat /\ 0 <= Len(d.lines)
      BY <1>2
    <3>2. Effects(ledger, m, d, 0, w) = 0
      BY <3>1, EffectsMore
    <3> QED BY <3>2, UnitsAtType
  <2> QED BY <1>3, <2>1 DEF WalkedBack
<1>5. ASSUME NEW j \in Nat, j \in J PROVE j + 1 \in J
  <2> SUFFICES ASSUME j + 1 <= Len(d.lines) PROVE WalkedBack(s, run[j + 1], m, d, j + 1)
    OBVIOUS
  <2>1. WalkedBack(s, run[j], m, d, j) /\ j <= Len(d.lines)
    BY <1>2, <1>5
  <2>2. j + 1 \in 1..Len(d.lines) /\ (j + 1) - 1 = j
    BY <1>2
  <2>3. run[j + 1] = M!Unserial(run[j], m, d, j + 1) /\ M!CanUnserial(run[j], m, d, j + 1)
    BY <1>1, <1>3, <2>2
  <2>4. PICK t, u : t = run[j] /\ u = run[j + 1]
    OBVIOUS
  <2>5. Good(t) /\ t.level = s.level /\ t.ledger = s.ledger
    BY <2>1, <2>4 DEF WalkedBack
  <2>6. /\ Good(u) /\ u.level = t.level /\ u.ledger = t.ledger
        /\ \A w \in Warehouses : UnitsAt(u.serial, w) = UnitsAt(t.serial, w) - LineEffect(ledger, m, d, j + 1, w)
    <3>1. PICK i : i = j + 1
      OBVIOUS
    <3>2. i \in 1..Len(d.lines) /\ M!CanUnserial(t, m, d, i) /\ u = M!Unserial(t, m, d, i)
      BY <2>2, <2>3, <2>4, <3>1
    <3>3. /\ Good(u) /\ u.level = t.level /\ u.ledger = t.ledger
          /\ \A w \in Warehouses : UnitsAt(u.serial, w) = UnitsAt(t.serial, w) - LineEffect(ledger, m, d, i, w)
      BY <2>5, <3>2, UnserialIs
    <3> QED BY <3>1, <3>3
  <2>7. ASSUME NEW w \in Warehouses
        PROVE  UnitsAt(u.serial, w) = UnitsAt(s.serial, w) - Effects(ledger, m, d, j + 1, w)
    <3>1. UnitsAt(t.serial, w) = UnitsAt(s.serial, w) - Effects(ledger, m, d, j, w)
      BY <2>1, <2>4 DEF WalkedBack
    <3>2. /\ Effects(ledger, m, d, j, w) \in Int
          /\ Effects(ledger, m, d, j + 1, w) = Effects(ledger, m, d, j, w) + LineEffect(ledger, m, d, j + 1, w)
      BY <2>1, EffectsMore
    <3>3. LineEffect(ledger, m, d, j + 1, w) \in Int
      BY <2>2, LinesTyped
    <3>4. UnitsAt(s.serial, w) \in Int
      BY UnitsAtType
    <3> QED BY <2>6, <3>1, <3>2, <3>3, <3>4
  <2> QED BY <2>4, <2>5, <2>6, <2>7 DEF WalkedBack
<1>6. \A j \in Nat : j \in J
  <2> HIDE DEF J
  <2> QED BY <1>4, <1>5, SetInduction
<1> QED BY <1>1, <1>2, <1>6

(* The inductive invariant.                                                 *)

Headed(P) ==
    /\ DOMAIN P \subseteq Moves
    /\ \A x \in DOMAIN P : P[x] \in M!Documents /\ M!ValidHeader(P[x].type, P[x].from, P[x].to)

\* A reversal is no draft, and what it reverses exists and is reversed; what is
\* reversed has a reversal.
Linked(P) ==
    \A x \in DOMAIN P :
        /\ P[x].reverses # NoMove => /\ P[x].status # "draft"
                                     /\ P[x].reverses \in DOMAIN P
                                     /\ P[P[x].reverses].status = "reversed"
        /\ P[x].status = "reversed" => \E r \in DOMAIN P : P[r].reverses = x

\* Only documents that were posted have rows.
Booked(P, a) == \A k \in DOMAIN a : a[k].move \in DOMAIN P /\ P[a[k].move].status # "draft"

\* What the rows of a posted document add up to is what its lines moved in units.
RowsTie(P, a) == M!TrackSerials =>
    \A x \in DOMAIN P : P[x].status = "posted" /\ P[x].reverses = NoMove =>
        \A w \in Warehouses : MovedIn(a, x, w) = Effects(a, x, P[x], Len(P[x].lines), w)

UnitsTie(P, s) ==
    (\A x \in DOMAIN P : P[x].status = "reversed" => P[x].reverses = NoMove) /\ M!TrackSerials
        => \A w \in Warehouses : UnitsAt(s.serial, w) = s.level[w].on_hand

Family(P, x) == {x} \cup { r \in DOMAIN P : P[r].reverses = x }

FamilyRows(P, a, x, w, lot) ==
    { k \in DOMAIN a : a[k].move \in Family(P, x) /\ a[k].warehouse \in {w} /\ a[k].lot \in {lot} }

Undone(P, a) ==
    \A x \in DOMAIN P : P[x].status = "reversed" =>
        \A w \in Warehouses, lot \in Lots \cup {NoLot} : M!QtyOf(a, FamilyRows(P, a, x, w, lot)) = 0

Fits(P, s) ==
    /\ Headed(P) /\ Linked(P) /\ Booked(P, s.ledger) /\ Good(s)
    /\ RowsTie(P, s.ledger) /\ UnitsTie(P, s) /\ Undone(P, s.ledger)

MovesInv == item \in Tracking /\ Fits(paper, M!Stock)

\* Drafts come, change and go.
LEMMA DraftsEdited ==
    ASSUME M!SetUp, NEW P, NEW s, Fits(P, s), NEW Q, Headed(Q),
           \A x \in DOMAIN Q : Q[x].status = "draft" => Q[x].reverses = NoMove,
           \A x \in DOMAIN Q : Q[x].status # "draft" => x \in DOMAIN P /\ P[x] = Q[x],
           \A x \in DOMAIN P : P[x].status # "draft" => x \in DOMAIN Q /\ Q[x] = P[x]
    PROVE  Fits(Q, s)
<1>1. Headed(P) /\ Linked(P) /\ Booked(P, s.ledger) /\ Good(s)
      /\ RowsTie(P, s.ledger) /\ UnitsTie(P, s) /\ Undone(P, s.ledger)
  BY DEF Fits
<1>2. NoMove \notin Moves /\ "posted" # "draft" /\ "reversed" # "draft"
  BY DEF M!SetUp
<1>3. Linked(Q)
  <2>1. ASSUME NEW x \in DOMAIN Q, Q[x].reverses # NoMove
        PROVE  Q[x].status # "draft" /\ Q[x].reverses \in DOMAIN Q /\ Q[Q[x].reverses].status = "reversed"
    <3>1. Q[x].status # "draft" /\ x \in DOMAIN P /\ P[x] = Q[x]
      BY <2>1
    <3>2. P[x].reverses \in DOMAIN P /\ P[P[x].reverses].status = "reversed"
      BY <1>1, <2>1, <3>1 DEF Linked
    <3>3. P[x].reverses \in DOMAIN Q /\ Q[P[x].reverses] = P[P[x].reverses]
      BY <1>2, <3>2
    <3> QED BY <3>1, <3>2, <3>3
  <2>2. ASSUME NEW x \in DOMAIN Q, Q[x].status = "reversed" PROVE \E r \in DOMAIN Q : Q[r].reverses = x
    <3>1. x \in DOMAIN P /\ P[x].status = "reversed"
      BY <1>2, <2>2
    <3>2. PICK r \in DOMAIN P : P[r].reverses = x
      BY <1>1, <3>1 DEF Linked
    <3>3. P[r].reverses # NoMove
      BY <1>1, <1>2, <3>1, <3>2 DEF Headed
    <3>4. P[r].status # "draft"
      BY <1>1, <3>3 DEF Linked
    <3> QED BY <3>2, <3>4
  <2> QED BY <2>1, <2>2 DEF Linked
<1>4. Booked(Q, s.ledger)
  BY <1>1 DEF Booked
<1>5. RowsTie(Q, s.ledger)
  BY <1>1, <1>2 DEF RowsTie
<1>6. UnitsTie(Q, s)
  <2>1. (\A x \in DOMAIN Q : Q[x].status = "reversed" => Q[x].reverses = NoMove)
          => \A x \in DOMAIN P : P[x].status = "reversed" => P[x].reverses = NoMove
    BY <1>2
  <2> QED BY <1>1, <2>1 DEF UnitsTie
<1>7. Undone(Q, s.ledger)
  <2> SUFFICES ASSUME NEW x \in DOMAIN Q, Q[x].status = "reversed", NEW w \in Warehouses, NEW lot \in Lots \cup {NoLot}
               PROVE  M!QtyOf(s.ledger, FamilyRows(Q, s.ledger, x, w, lot)) = 0
    BY DEF Undone
  <2>1. x \in DOMAIN P /\ P[x].status = "reversed" /\ x # NoMove
    BY <1>1, <1>2 DEF Headed
  <2>2. ASSUME NEW r PROVE (r \in DOMAIN P /\ P[r].reverses = x) <=> (r \in DOMAIN Q /\ Q[r].reverses = x)
    <3>1. r \in DOMAIN P /\ P[r].reverses = x => P[r].status # "draft"
      BY <1>1, <2>1 DEF Linked
    <3>2. r \in DOMAIN Q /\ Q[r].reverses = x => Q[r].status # "draft"
      BY <2>1
    <3> QED BY <3>1, <3>2
  <2>3. Family(P, x) = Family(Q, x)
    BY <2>2 DEF Family
  <2>4. FamilyRows(P, s.ledger, x, w, lot) = FamilyRows(Q, s.ledger, x, w, lot)
    BY <2>3 DEF FamilyRows
  <2>5. M!QtyOf(s.ledger, FamilyRows(P, s.ledger, x, w, lot)) = 0
    BY <1>1, <2>1 DEF Undone
  <2> QED BY <2>4, <2>5
<1> QED BY <1>1, <1>3, <1>4, <1>5, <1>6, <1>7 DEF Fits

\* The effects of a document depend on its header and its lines.
LEMMA SameEffects ==
    ASSUME NEW d, NEW e, d.type = e.type, d.from = e.from, d.to = e.to, d.lines = e.lines
    PROVE  \A a, m, n, w : Effects(a, m, d, n, w) = Effects(a, m, e, n, w)
BY DEF Effects, LineEffect, Between, Gains, Gives

\* Families without the document stay undone.
LEMMA FamilyStays ==
    ASSUME NEW P, NEW Q, NEW a, NEW b, NEW m, NEW I, Grown(a, b, m, I), NEW x, Family(P, x) = Family(Q, x),
           m \notin Family(P, x), NEW w, NEW lot
    PROVE  M!QtyOf(b, FamilyRows(Q, b, x, w, lot)) = M!QtyOf(a, FamilyRows(P, a, x, w, lot))
<1> DEFINE K == FamilyRows(P, a, x, w, lot)
           L == FamilyRows(Q, b, x, w, lot)
<1>1. K = L
  BY DEF FamilyRows, Grown
<1>2. K \subseteq DOMAIN a /\ a \in Seq(M!Rows)
  BY DEF FamilyRows, Grown
<1> HIDE DEF K, L
<1>3. IsFiniteSet(K) /\ \A k \in K : a[k].qty \in Int
  BY <1>2, RowsFinite
<1>4. \A k \in K : a[k].qty \in Int /\ a[k].qty = b[k].qty
  BY <1>2, <1>3 DEF Grown
<1>5. M!QtyOf(a, K) = M!QtyOf(b, K)
  BY <1>3, <1>4, QtySame
<1> QED BY <1>1, <1>5 DEF K, L

\* Posting a draft.
LEMMA PostStep ==
    ASSUME M!SetUp, NEW P, NEW s, Fits(P, s), NEW m \in DOMAIN P, P[m].status = "draft",
           NEW t, LinesDone(s, t, m, P[m], Len(P[m].lines)),
           NEW Q, Q = [P EXCEPT ![m].status = "posted"]
    PROVE  Fits(Q, t)
<1> DEFINE d == P[m]
           n == Len(d.lines)
<1>1. Headed(P) /\ Linked(P) /\ Booked(P, s.ledger) /\ Good(s)
      /\ RowsTie(P, s.ledger) /\ UnitsTie(P, s) /\ Undone(P, s.ledger)
  BY DEF Fits
<1>2. /\ Good(t) /\ Grown(s.ledger, t.ledger, m, 1..n)
      /\ \A w \in Warehouses : MovedIn(t.ledger, m, w) + s.level[w].on_hand = t.level[w].on_hand
      /\ M!TrackSerials => \A w \in Warehouses :
           /\ t.level[w].on_hand = s.level[w].on_hand + Effects(t.ledger, m, d, n, w)
           /\ UnitsAt(t.serial, w) = UnitsAt(s.serial, w) + Effects(t.ledger, m, d, n, w)
  BY DEF LinesDone
<1>3. NoMove \notin Moves /\ m \in Moves /\ d \in M!Documents /\ d.reverses = NoMove
  BY <1>1 DEF M!SetUp, Headed, Linked
<1>4. /\ DOMAIN Q = DOMAIN P
      /\ \A x \in DOMAIN P \ {m} : Q[x] = P[x]
      /\ Q[m] = [d EXCEPT !.status = "posted"]
  OBVIOUS
<1>5. /\ Q[m] \in M!Documents /\ Q[m].status = "posted"
      /\ Q[m].type = d.type /\ Q[m].from = d.from /\ Q[m].to = d.to /\ Q[m].lines = d.lines
      /\ Q[m].reverses = d.reverses
  <2> HIDE DEF d
  <2> QED BY <1>3, <1>4 DEF M!Documents
<1> HIDE DEF d, n
<1>6. Headed(Q)
  <2>1. M!ValidHeader(d.type, d.from, d.to)
    BY <1>1 DEF Headed, d
  <2> QED BY <1>1, <1>4, <1>5, <2>1 DEF Headed
<1>7. \A x \in DOMAIN P : Q[x].reverses = P[x].reverses /\ (Q[x].status = "reversed" <=> P[x].status = "reversed")
  BY <1>4, <1>5 DEF d
<1>8. Linked(Q)
  <2>1. \A x \in DOMAIN P : P[x].status # "draft" => Q[x].status # "draft"
    BY <1>4, <1>5
  <2> QED BY <1>1, <1>4, <1>7, <2>1 DEF Linked
<1>9. Booked(Q, t.ledger)
  <2> SUFFICES ASSUME NEW k \in DOMAIN t.ledger
               PROVE  t.ledger[k].move \in DOMAIN Q /\ Q[t.ledger[k].move].status # "draft"
    BY DEF Booked
  <2>1. CASE k \in DOMAIN s.ledger
    <3>1. t.ledger[k] = s.ledger[k] /\ s.ledger[k].move \in DOMAIN P /\ P[s.ledger[k].move].status # "draft"
      BY <1>1, <1>2, <2>1 DEF Grown, Booked
    <3> QED BY <1>4, <1>5, <3>1
  <2>2. CASE k \notin DOMAIN s.ledger
    <3>1. t.ledger[k].move = m
      BY <1>2, <2>2 DEF Grown
    <3> QED BY <1>4, <1>5, <3>1
  <2> QED BY <2>1, <2>2
<1>10. RowsTie(Q, t.ledger)
  <2> SUFFICES ASSUME M!TrackSerials, NEW x \in DOMAIN Q, Q[x].status = "posted", Q[x].reverses = NoMove,
                      NEW w \in Warehouses
               PROVE  MovedIn(t.ledger, x, w) = Effects(t.ledger, x, Q[x], Len(Q[x].lines), w)
    BY DEF RowsTie
  <2>1. CASE x = m
    <3>1. t.level[w].on_hand \in Int /\ s.level[w].on_hand \in Int /\ MovedIn(t.ledger, m, w) \in Int
      BY <1>1, <1>2, GoodTypes
    <3>2. Effects(t.ledger, m, d, n, w) \in Int
      <4>1. Len(d.lines) \in Nat
        BY <1>3, LinesTyped
      <4>2. n \in Nat /\ n <= Len(d.lines)
        BY <4>1 DEF n
      <4> QED BY <1>3, <4>2, EffectsMore
    <3>3. /\ MovedIn(t.ledger, m, w) + s.level[w].on_hand = t.level[w].on_hand
          /\ t.level[w].on_hand = s.level[w].on_hand + Effects(t.ledger, m, d, n, w)
      BY <1>2
    <3>4. MovedIn(t.ledger, m, w) = Effects(t.ledger, m, d, n, w)
      BY <3>1, <3>2, <3>3
    <3>5. Effects(t.ledger, m, Q[m], n, w) = Effects(t.ledger, m, d, n, w)
      BY <1>5, SameEffects
    <3> QED BY <1>5, <2>1, <3>4, <3>5 DEF n
  <2>2. CASE x # m
    <3>1. Q[x] = P[x] /\ x \in DOMAIN P /\ P[x] \in M!Documents
      BY <1>1, <1>4, <2>2 DEF Headed
    <3>2. MovedIn(s.ledger, x, w) = Effects(s.ledger, x, P[x], Len(P[x].lines), w)
      BY <1>1, <3>1 DEF RowsTie
    <3>3. MovedIn(t.ledger, x, w) = MovedIn(s.ledger, x, w) /\ \A i : RowsUp(t.ledger, x, i) = RowsUp(s.ledger, x, i)
      BY <1>2, <2>2, OtherRowsStay
    <3>4. Len(P[x].lines) \in Nat /\ Len(P[x].lines) <= Len(P[x].lines)
      BY <3>1, LinesTyped
    <3>5. Effects(t.ledger, x, P[x], Len(P[x].lines), w) = Effects(s.ledger, x, P[x], Len(P[x].lines), w)
      BY <3>1, <3>3, <3>4, EffectsMore
    <3> QED BY <3>1, <3>2, <3>3, <3>5
  <2> QED BY <2>1, <2>2
<1>11. UnitsTie(Q, t)
  <2> SUFFICES ASSUME \A x \in DOMAIN Q : Q[x].status = "reversed" => Q[x].reverses = NoMove,
                      M!TrackSerials, NEW w \in Warehouses
               PROVE  UnitsAt(t.serial, w) = t.level[w].on_hand
    BY DEF UnitsTie
  <2>1. UnitsAt(s.serial, w) = s.level[w].on_hand
    BY <1>1, <1>4, <1>7 DEF UnitsTie
  <2> QED BY <1>2, <2>1
<1>12. Undone(Q, t.ledger)
  <2> SUFFICES ASSUME NEW x \in DOMAIN Q, Q[x].status = "reversed", NEW w \in Warehouses, NEW lot \in Lots \cup {NoLot}
               PROVE  M!QtyOf(t.ledger, FamilyRows(Q, t.ledger, x, w, lot)) = 0
    BY DEF Undone
  <2>1. x \in DOMAIN P /\ P[x].status = "reversed" /\ x # m /\ x # NoMove
    BY <1>1, <1>3, <1>4, <1>5 DEF Headed
  <2>2. Family(P, x) = Family(Q, x)
    BY <1>4, <1>7 DEF Family
  <2>3. m \notin Family(P, x)
    BY <1>3, <2>1 DEF Family, d
  <2>4. M!QtyOf(t.ledger, FamilyRows(Q, t.ledger, x, w, lot)) = M!QtyOf(s.ledger, FamilyRows(P, s.ledger, x, w, lot))
    BY <1>2, <2>2, <2>3, FamilyStays
  <2>5. M!QtyOf(s.ledger, FamilyRows(P, s.ledger, x, w, lot)) = 0
    BY <1>1, <2>1 DEF Undone
  <2> QED BY <2>4, <2>5
<1> QED BY <1>2, <1>6, <1>8, <1>9, <1>10, <1>11, <1>12 DEF Fits

\* What a reversal does to the ledger and the levels, and to the units.
StockReturned(s, t, m, r, d, n) ==
    /\ Good(t) /\ Grown(s.ledger, t.ledger, r, Nat)
    /\ \A w \in Warehouses :
         /\ t.level[w].on_hand = s.level[w].on_hand - MovedIn(s.ledger, m, w)
         /\ UnitsAt(t.serial, w) = UnitsAt(s.serial, w) - Effects(s.ledger, m, d, n, w)
    /\ \A w \in Warehouses, lot \in Lots \cup {NoLot} :
         LotMovedIn(t.ledger, r, w, lot) = -LotMovedIn(s.ledger, m, w, lot)

\* Rows that were there keep their quantities.
LEMMA OldRowsSame ==
    ASSUME NEW a, NEW b, NEW m, NEW I, Grown(a, b, m, I), NEW K, K \subseteq DOMAIN a
    PROVE  M!QtyOf(b, K) = M!QtyOf(a, K)
<1>1. IsFiniteSet(K) /\ \A k \in K : a[k].qty \in Int
  BY RowsFinite DEF Grown
<1>2. \A k \in K : a[k].qty \in Int /\ a[k].qty = b[k].qty
  BY <1>1 DEF Grown
<1> QED BY <1>1, <1>2, QtySame

\* A document with the header of another.
SameHeader(e, d) == e \in M!Documents /\ e.type = d.type /\ e.from = d.from /\ e.to = d.to

\* Reversing a posted document.
LEMMA ReverseStep ==
    ASSUME M!SetUp, NEW P, NEW s, Fits(P, s), NEW m \in DOMAIN P, P[m].status = "posted",
           NEW r \in Moves, r \notin DOMAIN P,
           NEW t, StockReturned(s, t, m, r, P[m], Len(P[m].lines)),
           NEW Q, DOMAIN Q = DOMAIN P \cup {r}, \A x \in DOMAIN P \ {m} : Q[x] = P[x],
           SameHeader(Q[r], P[m]), Q[r].status = "posted", Q[r].reverses = m,
           SameHeader(Q[m], P[m]), Q[m].status = "reversed", Q[m].reverses = P[m].reverses
    PROVE  Fits(Q, t)
<1> DEFINE d == P[m]
           n == Len(d.lines)
<1>1. Headed(P) /\ Linked(P) /\ Booked(P, s.ledger) /\ Good(s)
      /\ RowsTie(P, s.ledger) /\ UnitsTie(P, s) /\ Undone(P, s.ledger)
  BY DEF Fits
<1>2. /\ Good(t) /\ Grown(s.ledger, t.ledger, r, Nat)
      /\ \A w \in Warehouses :
           /\ t.level[w].on_hand = s.level[w].on_hand - MovedIn(s.ledger, m, w)
           /\ UnitsAt(t.serial, w) = UnitsAt(s.serial, w) - Effects(s.ledger, m, d, n, w)
      /\ \A w \in Warehouses, lot \in Lots \cup {NoLot} :
           LotMovedIn(t.ledger, r, w, lot) = -LotMovedIn(s.ledger, m, w, lot)
  BY DEF StockReturned
<1>3. /\ NoMove \notin Moves /\ m \in Moves /\ d \in M!Documents /\ r # m
      /\ M!ValidHeader(d.type, d.from, d.to)
  BY <1>1 DEF M!SetUp, Headed
<1>4. /\ Q[r] \in M!Documents /\ Q[r].status = "posted" /\ Q[r].reverses = m
      /\ Q[r].type = d.type /\ Q[r].from = d.from /\ Q[r].to = d.to
      /\ Q[m] \in M!Documents /\ Q[m].status = "reversed" /\ Q[m].reverses = d.reverses
      /\ Q[m].type = d.type /\ Q[m].from = d.from /\ Q[m].to = d.to
  BY DEF SameHeader
<1>5. \A x \in DOMAIN P : Q[x].reverses = P[x].reverses
  BY <1>4
<1>6. \A x \in DOMAIN P : P[x].reverses # m
  BY <1>1, <1>3 DEF Linked
<1>7. \A x \in DOMAIN P : P[x].status = "posted" \/ P[x].status = "reversed" \/ P[x].status = "draft"
  BY <1>1 DEF Headed, M!Documents
<1> HIDE DEF d, n
<1>8. Headed(Q)
  <2>1. ASSUME NEW x \in DOMAIN Q PROVE Q[x] \in M!Documents /\ M!ValidHeader(Q[x].type, Q[x].from, Q[x].to)
    <3>1. CASE x \in DOMAIN P \ {m}
      BY <1>1, <3>1 DEF Headed
    <3>2. CASE x = m \/ x = r
      BY <1>3, <1>4, <3>2
    <3> QED BY <3>1, <3>2
  <2> QED BY <1>1, <2>1 DEF Headed
<1>9. Linked(Q)
  <2>1. ASSUME NEW x \in DOMAIN Q, Q[x].reverses # NoMove
        PROVE  Q[x].status # "draft" /\ Q[x].reverses \in DOMAIN Q /\ Q[Q[x].reverses].status = "reversed"
    <3>1. CASE x = r
      BY <1>4, <3>1
    <3>2. CASE x \in DOMAIN P
      <4>1. P[x].reverses = Q[x].reverses
        BY <1>5, <3>2
      <4>2. P[x].status # "draft" /\ P[x].reverses \in DOMAIN P /\ P[P[x].reverses].status = "reversed"
        BY <1>1, <2>1, <3>2, <4>1 DEF Linked
      <4>3. Q[x].status # "draft"
        BY <1>4, <3>2, <4>2
      <4>4. Q[P[x].reverses].status = "reversed"
        BY <1>4, <4>2
      <4> QED BY <4>1, <4>2, <4>3, <4>4
    <3> QED BY <3>1, <3>2
  <2>2. ASSUME NEW x \in DOMAIN Q, Q[x].status = "reversed" PROVE \E y \in DOMAIN Q : Q[y].reverses = x
    <3>1. CASE x = m
      BY <1>4, <3>1
    <3>2. CASE x # m
      <4>1. x \in DOMAIN P /\ P[x].status = "reversed"
        BY <1>4, <2>2, <3>2
      <4> QED BY <1>1, <1>5, <4>1 DEF Linked
    <3> QED BY <3>1, <3>2
  <2> QED BY <2>1, <2>2 DEF Linked
<1>10. Booked(Q, t.ledger)
  <2> SUFFICES ASSUME NEW k \in DOMAIN t.ledger
               PROVE  t.ledger[k].move \in DOMAIN Q /\ Q[t.ledger[k].move].status # "draft"
    BY DEF Booked
  <2>1. CASE k \in DOMAIN s.ledger
    <3>1. t.ledger[k] = s.ledger[k] /\ s.ledger[k].move \in DOMAIN P /\ P[s.ledger[k].move].status # "draft"
      BY <1>1, <1>2, <2>1 DEF Grown, Booked
    <3>2. PICK x \in DOMAIN P : x = t.ledger[k].move /\ P[x].status # "draft"
      BY <3>1
    <3>3. x \in DOMAIN Q /\ Q[x].status # "draft"
      BY <1>4, <3>2
    <3> QED BY <3>2, <3>3
  <2>2. CASE k \notin DOMAIN s.ledger
    <3>1. t.ledger[k].move = r
      BY <1>2, <2>2 DEF Grown
    <3> QED BY <1>4, <3>1
  <2> QED BY <2>1, <2>2
<1>11. RowsTie(Q, t.ledger)
  <2> SUFFICES ASSUME M!TrackSerials, NEW x \in DOMAIN Q, Q[x].status = "posted", Q[x].reverses = NoMove,
                      NEW w \in Warehouses
               PROVE  MovedIn(t.ledger, x, w) = Effects(t.ledger, x, Q[x], Len(Q[x].lines), w)
    BY DEF RowsTie
  <2>1. x # m /\ x # r
    BY <1>3, <1>4
  <2>2. Q[x] = P[x] /\ x \in DOMAIN P /\ P[x] \in M!Documents
    BY <1>1, <2>1 DEF Headed
  <2>3. MovedIn(s.ledger, x, w) = Effects(s.ledger, x, P[x], Len(P[x].lines), w)
    BY <1>1, <2>2 DEF RowsTie
  <2>4. MovedIn(t.ledger, x, w) = MovedIn(s.ledger, x, w) /\ \A i : RowsUp(t.ledger, x, i) = RowsUp(s.ledger, x, i)
    BY <1>2, <2>1, OtherRowsStay
  <2>5. Len(P[x].lines) \in Nat /\ Len(P[x].lines) <= Len(P[x].lines)
    BY <2>2, LinesTyped
  <2>6. Effects(t.ledger, x, P[x], Len(P[x].lines), w) = Effects(s.ledger, x, P[x], Len(P[x].lines), w)
    BY <2>2, <2>4, <2>5, EffectsMore
  <2> QED BY <2>2, <2>3, <2>4, <2>6
<1>12. UnitsTie(Q, t)
  <2> SUFFICES ASSUME \A x \in DOMAIN Q : Q[x].status = "reversed" => Q[x].reverses = NoMove,
                      M!TrackSerials, NEW w \in Warehouses
               PROVE  UnitsAt(t.serial, w) = t.level[w].on_hand
    BY DEF UnitsTie
  <2>1. d.reverses = NoMove
    BY <1>4
  <2>2. \A x \in DOMAIN P : P[x].status = "reversed" => P[x].reverses = NoMove
    BY <1>5, <2>1 DEF d
  <2>3. UnitsAt(s.serial, w) = s.level[w].on_hand
    BY <1>1, <2>2 DEF UnitsTie
  <2>4. MovedIn(s.ledger, m, w) = Effects(s.ledger, m, d, n, w)
    BY <1>1, <2>1 DEF RowsTie, d, n
  <2> QED BY <1>2, <2>3, <2>4
<1>13. Undone(Q, t.ledger)
  <2> SUFFICES ASSUME NEW x \in DOMAIN Q, Q[x].status = "reversed", NEW w \in Warehouses, NEW lot \in Lots \cup {NoLot}
               PROVE  M!QtyOf(t.ledger, FamilyRows(Q, t.ledger, x, w, lot)) = 0
    BY DEF Undone
  <2>1. CASE x = m
    <3> DEFINE K == LotRowsIn(t.ledger, m, w, lot)
               L == LotRowsIn(t.ledger, r, w, lot)
               J == LotRowsIn(s.ledger, m, w, lot)
    <3>1. Family(Q, x) = {m, r}
      <4>1. ASSUME NEW y \in DOMAIN Q PROVE Q[y].reverses = m <=> y = r
        <5>1. CASE y = r
          BY <1>4, <5>1
        <5>2. CASE y # r
          <6>1. y \in DOMAIN P
            BY <5>2
          <6>2. Q[y].reverses = P[y].reverses /\ P[y].reverses # m
            BY <1>5, <1>6, <6>1
          <6> QED BY <5>2, <6>2
        <5> QED BY <5>1, <5>2
      <4>2. r \in DOMAIN Q
        OBVIOUS
      <4> QED BY <2>1, <4>1, <4>2 DEF Family
    <3>2. FamilyRows(Q, t.ledger, x, w, lot) = K \cup L
      BY <3>1 DEF FamilyRows, LotRowsIn
    <3>3. K \cap L = {} /\ K \subseteq DOMAIN t.ledger /\ L \subseteq DOMAIN t.ledger /\ J \subseteq DOMAIN s.ledger
      BY <1>3 DEF LotRowsIn
    <3>4. t.ledger \in Seq(M!Rows) /\ s.ledger \in Seq(M!Rows)
      BY <1>2 DEF Grown
    <3>5. K = J
      BY <1>2, <1>3 DEF LotRowsIn, Grown
    <3>6. \A k \in J : t.ledger[k] = s.ledger[k]
      BY <1>2, <3>3 DEF Grown
    <3> HIDE DEF K, L, J
    <3>7. /\ IsFiniteSet(K) /\ M!QtyOf(t.ledger, K) \in Int /\ \A k \in K : t.ledger[k].qty \in Int
          /\ IsFiniteSet(L) /\ M!QtyOf(t.ledger, L) \in Int /\ \A k \in L : t.ledger[k].qty \in Int
      BY <3>3, <3>4, RowsFinite
    <3>8. M!QtyOf(t.ledger, K \cup L) = M!QtyOf(t.ledger, K) + M!QtyOf(t.ledger, L)
      <4>1. \A k \in K \cup L : t.ledger[k].qty \in Int
        BY <3>7
      <4> QED BY <3>3, <3>7, <4>1, QtyUnion
    <3>9. M!QtyOf(t.ledger, K) = M!QtyOf(s.ledger, K)
      BY <1>2, <3>3, <3>5, OldRowsSame
    <3>10. M!QtyOf(t.ledger, L) = -M!QtyOf(s.ledger, J)
      BY <1>2 DEF LotMovedIn, L, J
    <3> QED BY <3>2, <3>5, <3>7, <3>8, <3>9, <3>10
  <2>2. CASE x # m
    <3>1. x \in DOMAIN P /\ P[x].status = "reversed" /\ x # r
      BY <1>4, <2>2
    <3>2. Family(P, x) = Family(Q, x)
      BY <1>4, <1>5, <2>2 DEF Family
    <3>3. r \notin Family(P, x)
      BY <3>1 DEF Family
    <3>4. M!QtyOf(t.ledger, FamilyRows(Q, t.ledger, x, w, lot)) = M!QtyOf(s.ledger, FamilyRows(P, s.ledger, x, w, lot))
      BY <1>2, <3>2, <3>3, FamilyStays
    <3>5. M!QtyOf(s.ledger, FamilyRows(P, s.ledger, x, w, lot)) = 0
      BY <1>1, <3>1 DEF Undone
    <3> QED BY <3>4, <3>5
  <2> QED BY <2>1, <2>2
<1> QED BY <1>2, <1>8, <1>9, <1>10, <1>11, <1>12, <1>13 DEF Fits

\* A reservation leaves the goods alone.
LEMMA ReserveStep ==
    ASSUME M!SetUp, NEW P, NEW s, Fits(P, s), NEW w \in Warehouses,
           NEW l \in M!Level, M!SoundLevel(l), l.on_hand = s.level[w].on_hand,
           NEW t, t = [s EXCEPT !.level = [s.level EXCEPT ![w] = l]]
    PROVE  Fits(P, t)
<1>1. Good(s) /\ s \in Stocks
  BY DEF Fits, Good
<1>2. /\ t.level = [s.level EXCEPT ![w] = l] /\ t.ledger = s.ledger /\ t.serial = s.serial
      /\ t \in Stocks
  BY <1>1 DEF Stocks
<1>3. \A x \in Warehouses : t.level[x].on_hand = s.level[x].on_hand
  BY <1>1, <1>2 DEF Stocks
<1>4. Good(t)
  <2>1. \A x \in Warehouses : M!SoundLevel(t.level[x])
    BY <1>1, <1>2 DEF Good, Stocks
  <2> QED BY <1>1, <1>2, <1>3, <2>1 DEF Good, LotsTie
<1> QED BY <1>2, <1>3, <1>4 DEF Fits, UnitsTie

(* The steps of the model.                                                  *)

\* Before there is any document, the invariant holds.
LEMMA MovesStart ==
    ASSUME M!SetUp, M!Init
    PROVE  MovesInv
<1>1. PICK s : s = M!Stock
  OBVIOUS
<1>2. /\ item \in Tracking /\ DOMAIN paper = {}
      /\ s.level = [w \in Warehouses |-> M!EmptyLevel] /\ s.ledger = << >>
      /\ s.serial = [x \in Serials |-> "unknown"]
      /\ s = [level |-> s.level, ledger |-> s.ledger, serial |-> s.serial]
  BY <1>1 DEF M!Init, M!Stock
<1>3. M!EmptyLevel \in M!Level /\ M!SoundLevel(M!EmptyLevel) /\ M!EmptyLevel.on_hand = 0
  BY DEF M!EmptyLevel, M!Level, M!SoundLevel
<1>4. s.ledger \in Seq(M!Rows) /\ DOMAIN s.ledger = {}
  BY <1>2
<1>5. s \in Stocks
  <2>1. s.level \in [Warehouses -> M!Level] /\ s.serial \in [Serials -> Warehouses \cup M!Away]
    BY <1>2, <1>3 DEF M!Away
  <2> QED BY <1>2, <1>4, <2>1 DEF Stocks
<1>6. \A w \in Warehouses : s.level[w].on_hand = 0 /\ M!SoundLevel(s.level[w])
  BY <1>2, <1>3
<1>7. LotsTie(s)
  <2>1. ASSUME NEW w \in Warehouses
        PROVE  Tally([lot \in Lots |-> M!LotOnHand(s.ledger, w, lot)], Lots) = 0
    <3> DEFINE f == [lot \in Lots |-> M!LotOnHand(s.ledger, w, lot)]
    <3>1. \A lot : M!LotOnHand(s.ledger, w, lot) = 0
      <4> TAKE lot
      <4>1. { k \in DOMAIN s.ledger : s.ledger[k].warehouse = w /\ s.ledger[k].lot = lot } = {}
        BY <1>4
      <4> QED BY <4>1, QtyNone DEF M!LotOnHand
    <3>2. \A lot \in Lots : f[lot] = 0
      BY <3>1
    <3>3. IsFiniteSet(Lots)
      BY MovesSizes DEF M!SetUp
    <3> HIDE DEF f
    <3>4. Tally(f, Lots) = 0
      BY <3>2, <3>3, TallyZero
    <3> QED BY <3>4 DEF f
  <2> QED BY <1>4, <1>6, <2>1 DEF LotsTie
<1>8. UnitsTie(paper, s)
  <2>1. ASSUME NEW w \in Warehouses PROVE UnitsAt(s.serial, w) = 0
    <3>1. "unknown" \notin Warehouses
      BY DEF M!SetUp, M!Away
    <3>2. { x \in Serials : s.serial[x] = w } = {}
      BY <1>2, <3>1
    <3> QED BY <3>2, FS_EmptySet DEF UnitsAt
  <2> QED BY <1>6, <2>1 DEF UnitsTie
<1>9. Headed(paper) /\ Linked(paper) /\ Booked(paper, s.ledger) /\ RowsTie(paper, s.ledger) /\ Undone(paper, s.ledger)
  BY <1>2, <1>4 DEF Headed, Linked, Booked, RowsTie, Undone
<1>10. Fits(paper, s)
  BY <1>5, <1>6, <1>7, <1>8, <1>9 DEF Fits, Good
<1> QED BY <1>1, <1>2, <1>10 DEF MovesInv

\* What an item tracks does not change, so the invariant is one of the rows.
LEMMA FitsNext ==
    ASSUME MovesInv, item' = item, NEW P, P = paper', NEW s, Fits(P, s),
           s = [level |-> shelf', ledger |-> ledger', serial |-> serial']
    PROVE  MovesInv'
<1>1. M!TrackBatches' = M!TrackBatches /\ M!TrackSerials' = M!TrackSerials
  BY DEF M!TrackBatches, M!TrackSerials
<1>2. M!Stock' = s
  BY DEF M!Stock
<1>3. Headed(paper)' /\ Linked(paper)'
  BY DEF Fits, Headed, Linked
<1>4. Booked(paper, M!Stock.ledger)'
  BY <1>2 DEF Fits, Booked
<1>5. Good(M!Stock)'
  BY <1>1, <1>2 DEF Fits, Good, LotsTie
<1>6. RowsTie(paper, M!Stock.ledger)'
  BY <1>1, <1>2 DEF Fits, RowsTie
<1>7. UnitsTie(paper, M!Stock)'
  BY <1>1, <1>2 DEF Fits, UnitsTie
<1>8. Undone(paper, M!Stock.ledger)'
  BY <1>2 DEF Fits, Undone
<1>9. Fits(paper, M!Stock)'
  BY <1>3, <1>4, <1>5, <1>6, <1>7, <1>8 DEF Fits
<1> QED BY <1>9 DEF MovesInv

\* A draft comes, changes or goes, and the stock stays.
LEMMA DraftChangeFits ==
    ASSUME M!SetUp, MovesInv, NEW m \in Moves,
           m \in DOMAIN paper => paper[m].status = "draft",
           UNCHANGED << item, shelf, ledger, serial >>,
           NEW Q, Q = paper',
           \/ DOMAIN Q = DOMAIN paper \ {m}
           \/ /\ DOMAIN Q = DOMAIN paper \cup {m}
              /\ Q[m] \in M!Documents /\ M!ValidHeader(Q[m].type, Q[m].from, Q[m].to)
              /\ Q[m].status = "draft" /\ Q[m].reverses = NoMove,
           \A x \in DOMAIN paper \ {m} : Q[x] = paper[x]
    PROVE  MovesInv'
<1>1. PICK P, s : P = paper /\ s = M!Stock
  OBVIOUS
<1>2. Fits(P, s) /\ Headed(P) /\ Linked(P)
  BY <1>1 DEF MovesInv, Fits
<1>3. Headed(Q)
  <2>1. DOMAIN Q \subseteq Moves
    BY <1>1, <1>2 DEF Headed
  <2>2. ASSUME NEW x \in DOMAIN Q PROVE Q[x] \in M!Documents /\ M!ValidHeader(Q[x].type, Q[x].from, Q[x].to)
    <3>1. CASE x = m
      BY <3>1
    <3>2. CASE x # m
      <4>1. x \in DOMAIN P /\ Q[x] = P[x]
        BY <1>1, <3>2
      <4> QED BY <1>2, <4>1 DEF Headed
    <3> QED BY <3>1, <3>2
  <2> QED BY <2>1, <2>2 DEF Headed
<1>4. \A x \in DOMAIN P : P[x].status = "draft" => P[x].reverses = NoMove
  BY <1>2 DEF Linked
<1>5. \A x \in DOMAIN Q : Q[x].status = "draft" => Q[x].reverses = NoMove
  BY <1>1, <1>4
<1>6. \A x \in DOMAIN Q : Q[x].status # "draft" => x \in DOMAIN P /\ P[x] = Q[x]
  BY <1>1
<1>7. \A x \in DOMAIN P : P[x].status # "draft" => x \in DOMAIN Q /\ Q[x] = P[x]
  BY <1>1
<1>8. Fits(Q, s)
  BY <1>2, <1>3, <1>5, <1>6, <1>7, DraftsEdited
<1>9. s = [level |-> shelf', ledger |-> ledger', serial |-> serial']
  BY <1>1 DEF M!Stock
<1> QED BY <1>8, <1>9, FitsNext

\* A draft is a document.
LEMMA DraftIsDocument ==
    ASSUME M!SetUp, NEW h \in M!Headers, NEW lines \in Seq(M!LineInputs), NEW d, d = M!Draft(h, lines)
    PROVE  /\ d \in M!Documents /\ M!ValidHeader(d.type, d.from, d.to)
           /\ d.status = "draft" /\ d.reverses = NoMove
BY DEF M!Headers, M!Draft, M!Documents

\* Drafts are created, edited and deleted.
LEMMA DraftsAreEdited ==
    ASSUME M!SetUp, MovesInv, NEW m \in Moves, M!create_draft(m) \/ M!update_draft(m) \/ M!delete_draft(m)
    PROVE  MovesInv'
<1>1. PICK Q : Q = paper'
  OBVIOUS
<1>2. CASE M!create_draft(m)
  <2>0. PICK h \in M!Headers, n \in 1..M!LineBound :
          \E lines \in [1..n -> M!Entered(h.type)] : Q = M!With(m, M!Draft(h, lines))
    BY <1>1, <1>2 DEF M!create_draft
  <2>1. PICK lines \in [1..n -> M!Entered(h.type)] : Q = M!With(m, M!Draft(h, lines))
    BY <2>0
  <2>2. lines \in Seq(M!LineInputs)
    <3>1. n \in Nat
      BY DEF M!LineBound, M!SetUp
    <3>2. M!Entered(h.type) \subseteq M!LineInputs
      BY DEF M!Entered
    <3> QED BY <2>1, <3>1, <3>2
  <2>3. PICK d : d = M!Draft(h, lines)
    OBVIOUS
  <2>4. DOMAIN Q = DOMAIN paper \cup {m} /\ Q[m] = d /\ \A x \in DOMAIN paper \ {m} : Q[x] = paper[x]
    BY <2>1, <2>3 DEF M!With
  <2>5. /\ d \in M!Documents /\ M!ValidHeader(d.type, d.from, d.to)
        /\ d.status = "draft" /\ d.reverses = NoMove
    BY <2>2, <2>3, DraftIsDocument
  <2>6. m \notin DOMAIN paper /\ UNCHANGED << item, shelf, ledger, serial >>
    BY <1>2 DEF M!create_draft
  <2>7. /\ Q[m] \in M!Documents /\ M!ValidHeader(Q[m].type, Q[m].from, Q[m].to)
        /\ Q[m].status = "draft" /\ Q[m].reverses = NoMove
    BY <2>4, <2>5
  <2>8. m \in DOMAIN paper => paper[m].status = "draft"
    BY <2>6
  <2> QED BY <1>1, <2>4, <2>6, <2>7, <2>8, DraftChangeFits
<1>3. CASE M!update_draft(m)
  <2>0. PICK h \in M!Headers : \E line \in M!Entered(h.type) : Q = M!With(m, M!Draft(h, << line >>))
    BY <1>1, <1>3 DEF M!update_draft
  <2>1. PICK line \in M!Entered(h.type) : Q = M!With(m, M!Draft(h, << line >>))
    BY <2>0
  <2>2. << line >> \in Seq(M!LineInputs)
    BY <2>1 DEF M!Entered
  <2>3. PICK d : d = M!Draft(h, << line >>)
    OBVIOUS
  <2>4. DOMAIN Q = DOMAIN paper \cup {m} /\ Q[m] = d /\ \A x \in DOMAIN paper \ {m} : Q[x] = paper[x]
    BY <2>1, <2>3 DEF M!With
  <2>5. /\ d \in M!Documents /\ M!ValidHeader(d.type, d.from, d.to)
        /\ d.status = "draft" /\ d.reverses = NoMove
    BY <2>2, <2>3, DraftIsDocument
  <2>6. paper[m].status = "draft" /\ UNCHANGED << item, shelf, ledger, serial >>
    BY <1>3 DEF M!update_draft
  <2>7. /\ Q[m] \in M!Documents /\ M!ValidHeader(Q[m].type, Q[m].from, Q[m].to)
        /\ Q[m].status = "draft" /\ Q[m].reverses = NoMove
    BY <2>4, <2>5
  <2>8. m \in DOMAIN paper => paper[m].status = "draft"
    BY <2>6
  <2> QED BY <1>1, <2>4, <2>6, <2>7, <2>8, DraftChangeFits
<1>4. CASE M!delete_draft(m)
  <2>1. /\ paper[m].status = "draft" /\ UNCHANGED << item, shelf, ledger, serial >>
        /\ Q = [x \in DOMAIN paper \ {m} |-> paper[x]]
    BY <1>1, <1>4 DEF M!delete_draft
  <2>2. DOMAIN Q = DOMAIN paper \ {m} /\ \A x \in DOMAIN paper \ {m} : Q[x] = paper[x]
    BY <2>1
  <2> QED BY <1>1, <2>1, <2>2, DraftChangeFits
<1> QED BY <1>2, <1>3, <1>4

\* The stock a handler leaves is the stock of the next state.
LEMMA GoodStocks ==
    ASSUME NEW t, Good(t), M!Become(t)
    PROVE  t = [level |-> shelf', ledger |-> ledger', serial |-> serial'] /\ item' = item
BY DEF Good, Stocks, M!Become

\* Posting keeps the invariant.
LEMMA PostingFits ==
    ASSUME M!SetUp, MovesInv, NEW m \in Moves, M!post(m)
    PROVE  MovesInv'
<1>1. PICK d, n, t, s : d = paper[m] /\ n = Len(d.lines) /\ t = M!Posted(m, d)[n] /\ s = M!Stock
  OBVIOUS
<1>2. /\ m \in DOMAIN paper /\ d.status = "draft"
      /\ \A i \in 1..Len(d.lines) : M!CanApplyLine(M!Posted(m, d)[i - 1], m, d, i)
      /\ M!Become(t)
      /\ paper' = [paper EXCEPT ![m].status = "posted"]
  BY <1>1 DEF M!post
<1>3. Fits(paper, s) /\ Good(s) /\ Headed(paper) /\ Booked(paper, ledger)
  BY <1>1 DEF MovesInv, Fits, M!Stock
<1>4. d \in M!Documents /\ M!ValidHeader(d.type, d.from, d.to) /\ \A k \in DOMAIN ledger : ledger[k].move # m
  BY <1>1, <1>2, <1>3 DEF Headed, Booked
<1>5. LinesDone(s, t, m, d, n)
  BY <1>1, <1>2, <1>3, <1>4, PostedIs
<1>6. PICK Q : Q = paper'
  OBVIOUS
<1>7. Fits(Q, t)
  BY <1>1, <1>2, <1>3, <1>5, <1>6, PostStep
<1>8. t = [level |-> shelf', ledger |-> ledger', serial |-> serial'] /\ item' = item
  <2>1. Good(t)
    BY <1>5 DEF LinesDone
  <2> QED BY <1>2, <2>1, GoodStocks
<1> QED BY <1>6, <1>7, <1>8, FitsNext

\* Reversing keeps the invariant.
LEMMA ReversingFits ==
    ASSUME M!SetUp, MovesInv, NEW m \in Moves, NEW r \in Moves, M!reverse(m, r)
    PROVE  MovesInv'
<1>1. PICK d, n, t, s, u :
        /\ d = paper[m] /\ n = Len(d.lines) /\ t = M!Mirrored(m, r)[Len(ledger)] /\ s = M!Stock
        /\ u = M!Walked(t, m, d)[n]
  OBVIOUS
<1>2. /\ m \in DOMAIN paper /\ d.status = "posted" /\ r \notin DOMAIN paper
      /\ \A k \in DOMAIN ledger : ledger[k].move = m => M!CanApply(M!Mirrored(m, r)[k - 1], M!Mirror(ledger[k]))
      /\ \A i \in 1..Len(d.lines) : M!CanUnserial(M!Walked(t, m, d)[i - 1], m, d, i)
      /\ M!Become(u)
      /\ paper' = [M!With(r, [d EXCEPT !.reverses = m]) EXCEPT ![m].status = "reversed", ![m].reversed_by = r]
  BY <1>1 DEF M!reverse, M!CanReverse
<1>3. Fits(paper, s) /\ Good(s) /\ Headed(paper) /\ Booked(paper, ledger)
  BY <1>1 DEF MovesInv, Fits, M!Stock
<1>4. d \in M!Documents /\ M!ValidHeader(d.type, d.from, d.to) /\ \A k \in DOMAIN ledger : ledger[k].move # r
  BY <1>1, <1>2, <1>3 DEF Headed, Booked
<1>5. s.level = shelf /\ s.ledger = ledger /\ s.serial = serial
  BY <1>1 DEF M!Stock
<1>6. /\ Good(t) /\ t.serial = serial /\ Grown(ledger, t.ledger, r, Nat)
      /\ \A w \in Warehouses : t.level[w].on_hand = shelf[w].on_hand - MovedIn(ledger, m, w)
      /\ \A w \in Warehouses, lot \in Lots \cup {NoLot} :
           LotMovedIn(t.ledger, r, w, lot) = -LotMovedIn(ledger, m, w, lot)
  BY <1>1, <1>2, <1>3, <1>4, MirroredIs
<1>7. WalkedBack(t, u, m, d, n)
  BY <1>1, <1>2, <1>4, <1>6, WalkedIs
<1>8. StockReturned(s, u, m, r, d, n)
  BY <1>5, <1>6, <1>7 DEF WalkedBack, StockReturned
<1>9. PICK Q : Q = paper'
  OBVIOUS
<1>10. /\ DOMAIN Q = DOMAIN paper \cup {r}
       /\ \A x \in DOMAIN paper \ {m} : Q[x] = paper[x]
       /\ Q[r] = [d EXCEPT !.reverses = m]
       /\ Q[m] = [d EXCEPT !.status = "reversed", !.reversed_by = r]
  BY <1>1, <1>2, <1>9 DEF M!With
<1>11. Fits(Q, u)
  <2>1. PICK P : P = paper
    OBVIOUS
  <2>2. /\ Fits(P, s) /\ m \in DOMAIN P /\ P[m].status = "posted" /\ r \notin DOMAIN P
        /\ StockReturned(s, u, m, r, P[m], Len(P[m].lines))
    BY <1>1, <1>2, <1>3, <1>8, <2>1
  <2>3. /\ DOMAIN Q = DOMAIN P \cup {r} /\ \A x \in DOMAIN P \ {m} : Q[x] = P[x]
        /\ SameHeader(Q[r], P[m]) /\ Q[r].status = "posted" /\ Q[r].reverses = m
        /\ SameHeader(Q[m], P[m]) /\ Q[m].status = "reversed" /\ Q[m].reverses = P[m].reverses
    <3>1. P[m] \in M!Documents /\ P[m].status = "posted" /\ d = P[m]
      BY <1>1, <1>2, <1>4, <2>1
    <3> QED BY <1>10, <2>1, <3>1 DEF SameHeader, M!Documents
  <2> QED BY <2>2, <2>3, ReverseStep
<1>12. u = [level |-> shelf', ledger |-> ledger', serial |-> serial'] /\ item' = item
  <2>1. Good(u)
    BY <1>7 DEF WalkedBack
  <2> QED BY <1>2, <2>1, GoodStocks
<1> QED BY <1>9, <1>11, <1>12, FitsNext

\* Reserving and releasing keep the invariant.
LEMMA ReservingFits ==
    ASSUME M!SetUp, MovesInv, NEW w \in Warehouses, NEW q \in EnteredQtys, M!Reserve(w, q) \/ M!Release(w, q)
    PROVE  MovesInv'
<1>1. PICK l, s : s = M!Stock /\ l = IF M!Reserve(w, q) THEN M!reserve_up_to(shelf[w], q)
                                                       ELSE M!release_reserved(shelf[w], q)
  OBVIOUS
<1>2. /\ UNCHANGED << item, paper, ledger, serial >> /\ shelf' = [shelf EXCEPT ![w] = l]
  BY <1>1 DEF M!Reserve, M!Release
<1>3. Fits(paper, s) /\ Good(s) /\ s.level = shelf
  BY <1>1 DEF MovesInv, Fits, M!Stock
<1>4. shelf[w] \in M!Level /\ M!SoundLevel(shelf[w])
  BY <1>3, GoodTypes
<1>5. l \in M!Level /\ M!SoundLevel(l) /\ l.on_hand = shelf[w].on_hand
  <2>1. q \in Int /\ 0 \in Int
    BY DEF M!SetUp
  <2> QED BY <1>1, <1>4, <2>1, MovesEngine
<1>6. PICK t : t = [s EXCEPT !.level = [s.level EXCEPT ![w] = l]]
  OBVIOUS
<1>7. Fits(paper, t)
  BY <1>3, <1>5, <1>6, ReserveStep
<1>8. t = [level |-> shelf', ledger |-> ledger', serial |-> serial']
  BY <1>1, <1>2, <1>3, <1>6 DEF M!Stock
<1>9. PICK P : P = paper'
  OBVIOUS
<1> QED BY <1>2, <1>7, <1>8, <1>9, FitsNext

\* Every step keeps the invariant.
LEMMA MovesStep ==
    ASSUME M!SetUp, MovesInv, [M!Next]_(M!vars)
    PROVE  MovesInv'
<1>1. CASE M!Next
  BY <1>1, DraftsAreEdited, PostingFits, ReversingFits, ReservingFits DEF M!Next
<1>2. CASE UNCHANGED M!vars
  <2>1. PICK P, s : P = paper' /\ s = M!Stock
    OBVIOUS
  <2>2. Fits(P, s) /\ item' = item /\ s = [level |-> shelf', ledger |-> ledger', serial |-> serial']
    BY <1>2, <2>1 DEF M!vars, MovesInv, M!Stock
  <2> QED BY <2>1, <2>2, FitsNext
<1> QED BY <1>1, <1>2

\* What the run checks follows.
LEMMA MovesAddUp ==
    ASSUME M!SetUp, MovesInv
    PROVE  M!StockAddsUp
<1>1. PICK s : s = M!Stock
  OBVIOUS
<1>2. s.level = shelf /\ s.ledger = ledger /\ s.serial = serial
  BY <1>1 DEF M!Stock
<1>3. Good(s) /\ Headed(paper) /\ UnitsTie(paper, s)
  BY <1>1 DEF MovesInv, Fits
<1>4. M!TypeOK
  <2>1. ledger \in Seq(M!Rows) /\ shelf \in [Warehouses -> M!Level] /\ serial \in [Serials -> Warehouses \cup M!Away]
    BY <1>2, <1>3 DEF Good, Stocks
  <2> QED BY <1>3, <2>1 DEF M!TypeOK, MovesInv, Headed
<1>5. M!LevelsSound
  BY <1>2, <1>3 DEF M!LevelsSound, Good
<1>6. M!LotsAddUp
  BY <1>2, <1>3, MovesTally DEF M!LotsAddUp, Good, LotsTie
<1>7. M!SerialsMatchOnHand
  <2>1. \A w : M!Cardinality({x \in Serials : serial[x] = w}) = UnitsAt(serial, w)
    BY MovesSizes DEF UnitsAt
  <2> QED BY <1>2, <1>3, <2>1 DEF M!SerialsMatchOnHand, M!UnitsAsOnHand, UnitsTie
<1> QED BY <1>4, <1>5, <1>6, <1>7 DEF M!StockAddsUp

\* A reversed document and its reversal cancel, in every warehouse and lot.
LEMMA MovesUndo ==
    ASSUME M!SetUp, MovesInv
    PROVE  M!ReversalUndoes
<1>1. PICK s : s = M!Stock
  OBVIOUS
<1>2. s.ledger = ledger
  BY <1>1 DEF M!Stock
<1>3. Linked(paper) /\ Undone(paper, ledger)
  BY <1>1, <1>2 DEF MovesInv, Fits
<1> SUFFICES ASSUME NEW m \in DOMAIN paper, paper[m].status = "reversed"
             PROVE  /\ m \in {paper[r].reverses : r \in DOMAIN paper}
                    /\ \A w \in Warehouses, lot \in Lots \cup {NoLot} :
                         M!Moved({m} \cup {r \in DOMAIN paper : paper[r].reverses = m}, w, lot) = 0
  BY DEF M!ReversalUndoes
<1>4. m \in {paper[r].reverses : r \in DOMAIN paper}
  BY <1>3 DEF Linked
<1>5. ASSUME NEW w \in Warehouses, NEW lot \in Lots \cup {NoLot}
      PROVE  M!Moved(Family(paper, m), w, lot) = 0
  <2>1. M!QtyOf(ledger, FamilyRows(paper, ledger, m, w, lot)) = 0
    BY <1>3 DEF Undone
  <2>2. FamilyRows(paper, ledger, m, w, lot)
          = { k \in DOMAIN ledger : /\ ledger[k].move \in Family(paper, m)
                                    /\ ledger[k].warehouse = w /\ ledger[k].lot = lot }
    BY DEF FamilyRows
  <2> QED BY <2>1, <2>2 DEF M!Moved
<1> QED BY <1>4, <1>5 DEF Family

\* Whatever is drafted, posted, counted, reversed and reserved, in whatever
\* order: no level is negative, promised twice or left with value on no stock;
\* the lots of a batch-tracked item add up to its level in every warehouse; and
\* a serial-tracked item has as many units in stock as its level says, until a
\* document that is itself a reversal is reversed (StockMoves, StockAddsUp).
THEOREM StockMovesAddUp == MovesSpec => []StockAddsUp
<1>1. MCInit => MovesInv
  BY StockMovesAssumption, MovesStart DEF MCInit
<1>2. MovesInv /\ [MovesNext]_<< vars, stock >> => MovesInv'
  <2>1. [MovesNext]_<< vars, stock >> => [M!Next]_(M!vars)
    BY DEF MovesNext, stock, M!vars
  <2> QED BY <2>1, StockMovesAssumption, MovesStep
<1>3. MovesInv => StockAddsUp
  BY StockMovesAssumption, MovesAddUp DEF StockAddsUp
<1> QED BY <1>1, <1>2, <1>3, PTL DEF MovesSpec

\* A document that is reversed has a reversal, and the two leave no quantity
\* behind in any warehouse and lot: what was posted is undone exactly once
\* (StockMoves, ReversalUndoes).
THEOREM ReversalsUndo == MovesSpec => []ReversalUndoes
<1>1. MCInit => MovesInv
  BY StockMovesAssumption, MovesStart DEF MCInit
<1>2. MovesInv /\ [MovesNext]_<< vars, stock >> => MovesInv'
  <2>1. [MovesNext]_<< vars, stock >> => [M!Next]_(M!vars)
    BY DEF MovesNext, stock, M!vars
  <2> QED BY <2>1, StockMovesAssumption, MovesStep
<1>3. MovesInv => ReversalUndoes
  BY StockMovesAssumption, MovesUndo DEF ReversalUndoes
<1> QED BY <1>1, <1>2, <1>3, PTL DEF MovesSpec

=============================================================================
