------------------------------ MODULE PosTill ------------------------------
(***************************************************************************)
(* A point-of-sale register (crates/nebula-apps/src/scm/pos/session.rs and *)
(* sale.rs): sessions that open, sell, refund, void, move cash and close.  *)
(*                                                                         *)
(* A request reads the session, the original sale and its refunds outside  *)
(* of the transaction that writes, so it is two steps: one that checks and *)
(* one that writes.  A void holds the row lock of its order from the check *)
(* to the write, and an insert that references a locked row waits.         *)
(*                                                                         *)
(* One item without batches is sold, at one money unit per piece and for   *)
(* cash; the opening float is zero; customers, prices and discounts are    *)
(* left out, and so are the sales a till has not sent yet.                 *)
(***************************************************************************)
EXTENDS StockEngine, LineSums, Sequences

CONSTANTS
    Threads,        \* the requests the server handles at a time
    Sessions,       \* the sessions of the register
    Uuids,          \* the idempotency keys of sales and refunds
    SaleQtys,       \* the quantities of a sale or a refund
    CashAmounts,    \* the amounts paid into or out of the drawer
    Counts,         \* the amounts a cashier may count at close
    MaxOnHand       \* bound on the stock of the level

VARIABLES
    session,        \* session[s]: the session rows, with their stored counts
    orders,         \* the orders, by receipt number
    drawer,         \* drawer[s]: what was paid in, less what was paid out
    books,          \* the consolidations: the stock moved and the cash booked
    stock,          \* the level of the item in the register's warehouse
    handler         \* handler[t]: the request a thread has checked and not written

vars == << session, orders, drawer, books, stock, handler >>

Idle == [op |-> "idle"]

Handlers ==
    {Idle}
    \cup [op : {"sale"}, uuid : Uuids, session : Sessions, qty : SaleQtys]
    \cup [op : {"refund"}, uuid : Uuids, session : Sessions, qty : SaleQtys, of : Nat]
    \cup [op : {"void"}, of : Nat]
    \cup [op : {"cash"}, session : Sessions, amount : CashAmounts]
    \cup [op : {"close"}, session : Sessions]

Orders == [uuid : Uuids, kind : {"sale", "refund"}, session : Sessions, qty : SaleQtys,
           of : Nat, status : {"captured", "voided"}]

TypeOK ==
    /\ session \in [Sessions -> [status : {"none", "open", "closing", "closed"},
                                 expected : Int, counted : Nat]]
    /\ orders \in Seq(Orders)
    /\ drawer \in [Sessions -> Int]
    /\ books \in Seq([session : Sessions, moved : Int, cash : Int])
    /\ stock \in Level
    /\ handler \in [Threads -> Handlers]

Init ==
    /\ session = [s \in Sessions |-> [status |-> "none", expected |-> 0, counted |-> 0]]
    /\ orders = << >>
    /\ drawer = [s \in Sessions |-> 0]
    /\ books = << >>
    /\ stock = EmptyLevel
    /\ handler = [t \in Threads |-> Idle]

----------------------------------------------------------------------------

Is(s, status) == session[s].status = status

\* find_by_client_uuid: the receipt numbers of an idempotency key.
Captured(u) == { n \in DOMAIN orders : orders[n].uuid = u }

Total(S) == Sum([n \in DOMAIN orders |-> orders[n].qty], S)

RefundsOf(n) ==
    { r \in DOMAIN orders :
        orders[r].kind = "refund" /\ orders[r].of = n /\ orders[r].status = "captured" }

CapturedIn(s, kind) ==
    { n \in DOMAIN orders :
        orders[n].session = s /\ orders[n].kind = kind /\ orders[n].status = "captured" }

\* What the session sold, net of refunds; at one money unit a piece it is
\* also the cash taken.
Net(s) == Total(CapturedIn(s, "sale")) - Total(CapturedIn(s, "refund"))

expected_cash(s) == Net(s) + drawer[s]

Begin(t, request) ==
    /\ handler[t] = Idle
    /\ handler' = [handler EXCEPT ![t] = request]

Finish(t) == handler' = [handler EXCEPT ![t] = Idle]

Locked(n) == \E t \in Threads : handler[t].op = "void" /\ handler[t].of = n

\* The partial unique index: one open or closing session per register.
open(s) ==
    /\ Is(s, "none")
    /\ \A x \in Sessions : ~Is(x, "open") /\ ~Is(x, "closing")
    /\ session' = [session EXCEPT ![s].status = "open"]
    /\ UNCHANGED << orders, drawer, books, stock, handler >>

----------------------------------------------------------------------------
(* Sales, refunds and voids.                                               *)

Sells(s) == Is(s, "open")

capture(t, u, s, q) ==
    /\ Captured(u) = {} /\ Sells(s)
    /\ Begin(t, [op |-> "sale", uuid |-> u, session |-> s, qty |-> q])
    /\ UNCHANGED << session, orders, drawer, books, stock >>

\* MUTANT of Refundable: every refund is compared with the whole sale.
Refundable_Whole(n, q) == orders[n].kind = "sale" /\ orders[n].status = "captured" /\ q <= orders[n].qty

\* A captured sale with the quantity left to refund.
Refundable(n, q) ==
    /\ orders[n].kind = "sale" /\ orders[n].status = "captured"
    /\ Total(RefundsOf(n)) + q <= orders[n].qty

refund(t, u, s, n, q) ==
    /\ Captured(u) = {} /\ Sells(s)
    /\ n \in DOMAIN orders /\ Refundable(n, q)
    /\ Begin(t, [op |-> "refund", uuid |-> u, session |-> s, qty |-> q, of |-> n])
    /\ UNCHANGED << session, orders, drawer, books, stock >>

\* MUTANT of Wins: nothing keeps a replay from writing a second order.
Wins_Always(u) == TRUE

\* The unique index on client_uuid: of two replays the first one wins.
Wins(u) == Captured(u) = {}

\* The order a checked request writes.
Ticket(h) ==
    [uuid |-> h.uuid, kind |-> h.op, session |-> h.session, qty |-> h.qty,
     of |-> IF h.op = "refund" THEN h.of ELSE 0, status |-> "captured"]

\* insert_order, in a transaction of its own; the loser of a race returns the
\* order that won.
insert_order(t) ==
    /\ handler[t].op \in {"sale", "refund"}
    /\ LET ticket == Ticket(handler[t])
       IN  /\ ~Locked(ticket.of)
           /\ orders' = IF Wins(ticket.uuid) THEN Append(orders, ticket) ELSE orders
    /\ Finish(t)
    /\ UNCHANGED << session, drawer, books, stock >>

\* void, up to its read of the session: it holds the lock of the order row.
void_check(t, n) ==
    /\ n \in DOMAIN orders /\ ~Locked(n)
    /\ orders[n].status = "captured"
    /\ Is(orders[n].session, "open")
    /\ Begin(t, [op |-> "void", of |-> n])
    /\ UNCHANGED << session, orders, drawer, books, stock >>

Voidable(n) == RefundsOf(n) = {}

void_mark(t) ==
    /\ handler[t].op = "void"
    /\ Voidable(handler[t].of)
    /\ orders' = [orders EXCEPT ![handler[t].of].status = "voided"]
    /\ Finish(t)
    /\ UNCHANGED << session, drawer, books, stock >>

\* cash_movement checks the session, then inserts.
cash_check(t, s, amount) ==
    /\ Is(s, "open")
    /\ Begin(t, [op |-> "cash", session |-> s, amount |-> amount])
    /\ UNCHANGED << session, orders, drawer, books, stock >>

\* The drawer moves once per session at most, a bound of the model.
cash_movement(t) ==
    /\ handler[t].op = "cash" /\ drawer[handler[t].session] = 0
    /\ drawer' = [drawer EXCEPT ![handler[t].session] = @ + handler[t].amount]
    /\ Finish(t)
    /\ UNCHANGED << session, orders, books, stock >>

----------------------------------------------------------------------------
(* Closing, in two transactions.                                           *)

\* MUTANT of Countable: a closing session is counted again.
Countable_Again(s) == session[s].status \in {"open", "closing"}

Countable(s) == Is(s, "open")

\* Step one: the count is stored beside the expectation of the moment.
close_count(t, s, counted) ==
    /\ Countable(s)
    /\ session' = [session EXCEPT ![s] = [status |-> "closing", expected |-> expected_cash(s),
                                          counted |-> counted]]
    /\ Begin(t, [op |-> "close", session |-> s])
    /\ UNCHANGED << orders, drawer, books, stock >>

\* A later close call finds the session closing and retries step two.
close_retry(t, s) ==
    /\ Is(s, "closing")
    /\ Begin(t, [op |-> "close", session |-> s])
    /\ UNCHANGED << session, orders, drawer, books, stock >>

\* Read under the lock of the session row.
Consolidable(s) == Is(s, "closing")

\* MUTANT of CashBooked: the difference the cashier counted is dropped.
CashBooked_Uncounted(s) == Net(s)

CashBooked(s) == Net(s) + (session[s].counted - session[s].expected)

\* Step two: one movement for the whole session, at the running average, and
\* one ledger request for its takings.
consolidate(t) ==
    /\ handler[t].op = "close"
    /\ LET s == handler[t].session
           net == Net(s)
       IN  /\ Consolidable(s)
           /\ net > 0 => CanIssue(stock, net, 0)
           /\ stock' = IF net > 0 THEN Issued(stock, net, 0)
                       ELSE IF net < 0 THEN Received(stock, -net, level_average(stock))
                       ELSE stock
           /\ books' = Append(books, [session |-> s, moved |-> net, cash |-> CashBooked(s)])
           /\ session' = [session EXCEPT ![s].status = "closed"]
    /\ Finish(t)
    /\ UNCHANGED << orders, drawer >>

\* A request fails, or its connection drops, before it writes.
abandon(t) ==
    /\ handler[t] # Idle
    /\ Finish(t)
    /\ UNCHANGED << session, orders, drawer, books, stock >>

\* Goods receipts fill the warehouse, sales orders reserve and release.
receive_stock(q) ==
    /\ stock.on_hand + q <= MaxOnHand
    /\ stock' = Received(stock, q, CostPerCent)
    /\ UNCHANGED << session, orders, drawer, books, handler >>

reserve_stock(q) ==
    /\ Grant(stock, q) > 0
    /\ stock' = reserve_up_to(stock, q)
    /\ UNCHANGED << session, orders, drawer, books, handler >>

release_stock(q) ==
    /\ stock.reserved > 0
    /\ stock' = release_reserved(stock, q)
    /\ UNCHANGED << session, orders, drawer, books, handler >>

Request(t, s) ==
    \/ \E u \in Uuids, q \in SaleQtys :
        capture(t, u, s, q) \/ \E n \in DOMAIN orders : refund(t, u, s, n, q)
    \/ \E amount \in CashAmounts : cash_check(t, s, amount)
    \/ \E counted \in Counts : close_count(t, s, counted)
    \/ close_retry(t, s)

Next ==
    \/ \E s \in Sessions : open(s) \/ \E t \in Threads : Request(t, s)
    \/ \E t \in Threads : \/ \E n \in DOMAIN orders : void_check(t, n)
                          \/ insert_order(t) \/ void_mark(t) \/ cash_movement(t)
                          \/ consolidate(t) \/ abandon(t)
    \/ \E q \in SaleQtys : receive_stock(q) \/ reserve_stock(q) \/ release_stock(q)

Spec == Init /\ [][Next]_vars

----------------------------------------------------------------------------

\* However often an offline queue replays a sale, and however the replays
\* overlap, it is written once: "a flaky network can never double-sell".
NeverDoubleSold == \A u \in Uuids : Cardinality(Captured(u)) <= 1

\* A session reaches the stock ledger and the books exactly once, when it
\* closes, whichever of several close calls and retries gets there.
ConsolidatedOnce ==
    \A s \in Sessions :
        Cardinality({ i \in DOMAIN books : books[i].session = s }) = IF Is(s, "closed") THEN 1 ELSE 0

\* The Z report "reads the stored counts, so it stays true forever": no retry
\* or second close call counts a session again.
CountsStand ==
    [][\A s \in Sessions :
        session[s].status \in {"closing", "closed"} =>
            /\ session'[s].counted = session[s].counted
            /\ session'[s].expected = session[s].expected]_vars

\* "Nothing sells outside an open one": every sale and refund is written while
\* its session is open.
NothingSellsOutside ==
    [][\A n \in DOMAIN orders' \ DOMAIN orders : Is(orders'[n].session, "open")]_vars

\* Refunds of a sale "cannot exceed the un-refunded remainder per line", over
\* all sessions and after voided refunds.
RefundsWithinSale ==
    \A n \in DOMAIN orders : Total(RefundsOf(n)) <= orders[n].qty

\* A sale is voided "only when no refund references it".
VoidedUnreferenced ==
    \A n \in DOMAIN orders : orders[n].status = "voided" => RefundsOf(n) = {}

\* The cash a session books is the effect of what was counted in the drawer.
CashIsCounted ==
    \A i \in DOMAIN books :
        books[i].cash = session[books[i].session].counted - drawer[books[i].session]

\* A closed session moved exactly what it sold net of its refunds, also when
\* orders were voided on the way.
ClosedIsConsolidated == \A i \in DOMAIN books : books[i].moved = Net(books[i].session)

=============================================================================
