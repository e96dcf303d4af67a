----------------------------- MODULE MCPosTill -----------------------------
(***************************************************************************)
(* Small instances of PosTill and Takings for TLC.  On the serial side one *)
(* request is in hand at a time, over two sessions of the register; on the *)
(* overlapping side two requests overlap anywhere, in one session and with *)
(* few keys; on the takings side one session's money is reckoned.          *)
(***************************************************************************)
EXTENDS StockEngine, LineSums, Sequences, TLC

CONSTANTS t1, t2, u1, u2, u3, s1, s2,
    Threads, Sessions, Uuids, SaleQtys, CashAmounts, Counts, MaxOnHand,
    MaxKeys,     \* bound: the keys used when requests overlap
    Prices, Baskets, Splits, Variances, MaxReceipts

\* What is sold are positive quantities that fit the column of a line; prices
\* are not negative, and a discount is a percentage.
ASSUME TillAssumption ==
    /\ IsFiniteSet(Threads)
    /\ SaleQtys \subseteq 1..MaxQty
    /\ CashAmounts \subseteq Int
    /\ Counts \subseteq Nat
    /\ Prices \subseteq Nat /\ Prices # {}
    /\ \A basket \in Baskets : basket \in Seq([qty : Nat \ {0}, discount_pct : 0..100, rate : Nat])
    /\ Splits \subseteq [cash : Int, mpesa : Int]
    /\ Variances \subseteq Int

VARIABLES side, session, orders, drawer, books, stock, handler, price, receipts, entry

P == INSTANCE PosTill

Line(qty, discount_pct, rate) == [qty |-> qty, discount_pct |-> discount_pct, rate |-> rate]

\* What is sold at once, how tenders depart from all cash (whole cents, or
\* fractions of one) and how a drawer is miscounted.
MCBaskets == { << Line(3, 0, 16) >>, << Line(2, 50, 16), Line(1, 0, 0) >> }
MCSplits == { [cash |-> 0, mpesa |-> 0], [cash |-> 25, mpesa |-> 25] }
MCVariances == {-10, 0}

Till == INSTANCE Takings

sales == << session, orders, drawer, books, stock, handler >>
money == << price, receipts, entry >>
serial == side = "serial"

MCInit ==
    /\ side \in {"serial", "overlapping", "takings"}
    /\ P!Init
    /\ Till!Init
    /\ side # "takings" => price = CHOOSE p \in Prices : TRUE

Busy == { t \in Threads : handler[t] # P!Idle }
Opened == { s \in Sessions : session[s].status # "none" }
Keyed == { orders[n].uuid : n \in DOMAIN orders }
         \cup { handler[t].uuid : t \in { x \in Threads : handler[x].op \in {"sale", "refund"} } }

\* Bounds on the two kinds of behaviours.
Bounded == IF serial THEN Cardinality(Busy) <= 1 ELSE Cardinality(Opened) <= 1 /\ Cardinality(Keyed) <= MaxKeys

MCNext ==
    /\ UNCHANGED side
    /\ \/ side # "takings" /\ P!Next /\ Bounded' /\ UNCHANGED money
       \/ side = "takings" /\ Till!Next /\ UNCHANGED sales

MCSpec == MCInit /\ [][MCNext]_<< side, sales, money >>

Symmetric == Permutations({t1, t2}) \cup Permutations({u1, u2, u3})
                \cup Permutations({s1, s2})

\* Of requests that do not overlap: no sale is refunded beyond what it sold,
\* over all sessions and after voided refunds, and no sale is voided under its
\* refunds.
RefundsFitSales == serial => P!RefundsWithinSale /\ P!VoidedUnreferenced

\* Of requests that do not overlap: a closed session booked the cash that was
\* counted and moved what it sold net of refunds and voids.
BooksFitSessions == P!TypeOK /\ (serial => P!CashIsCounted /\ P!ClosedIsConsolidated)

\* Refunds never exceed what was sold, also when requests overlap.
RefundsWithinSale == P!RefundsWithinSale

\* The money of the session ties (Takings).
TakingsTie == Till!TakingsTie

\* Of requests that do not overlap: every sale and refund, of a session or of
\* an earlier one, is written while its session is open.
SellsInside == [][serial => \A n \in DOMAIN orders' \ DOMAIN orders : P!Is(orders'[n].session, "open")]_sales

\* Each key sells once and each session is consolidated once, whichever of
\* replays, retries and overlapping close calls gets there.
OncePerKeyAndSession == P!NeverDoubleSold /\ P!ConsolidatedOnce

\* What was counted at a close stands, and nothing sells outside of an open
\* session.
SessionsStand == P!CountsStand /\ SellsInside
=============================================================================
