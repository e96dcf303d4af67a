----------------------------- MODULE MCJournal -----------------------------
(***************************************************************************)
(* Small instances for TLC of the books.  A behaviour is one of "ledger",  *)
(* the journal with its chart, its calendar and the statements read off    *)
(* it, the chart and the calendar changed between the requests; "closing", *)
(* where months are closed and accounts retired while requests on two      *)
(* entries are underway; "documents", what two documents of any kind book, *)
(* of two items; and "purchases", what the documents of the purchase of    *)
(* one item book.                                                          *)
(***************************************************************************)
EXTENDS Journal, TLC

CONSTANTS t1, t2, e1, e2, e3, a1, a2, a3, y1, y2, i1, i2, i3

VARIABLES side, role, account, stock, drifted, papers

gl == << role, account, stock, drifted, papers >>

\* One pair of lines that balances and one that does not.
PairsOfLines ==
    { [a \in Accounts |-> CASE a = a1 -> d [] a = a2 -> -1 [] OTHER -> 0] : d \in {1, 2} }

MCType == [a \in Accounts |-> CASE a = a1 -> "asset" [] a = a2 -> "revenue" [] OTHER -> "expense"]

MCHeaders == { [discount |-> 0, charges |-> 0], [discount |-> 10, charges |-> 30] }
MCSales == { [net |-> 10, tax |-> 10], [net |-> 30, tax |-> 10] }

D == INSTANCE GlEntries WITH
       Items <- {i1, i2}, StockRoles <- {"inventory", "finished"}, Price <- 50, RateNum <- 5, RateDen <- 2,
       Qtys <- {1}, Headers <- MCHeaders, Sales <- MCSales, Amounts <- {30}, Costs <- {130}, Drifts <- {10},
       MaxPapers <- 2, MaxPurchases <- 2

P == INSTANCE GlEntries WITH
       Items <- {i3}, StockRoles <- {"inventory"}, Price <- 50, RateNum <- 5, RateDen <- 2,
       Qtys <- {1, 2}, Headers <- MCHeaders, Sales <- {}, Amounts <- {}, Costs <- {0}, Drifts <- {},
       MaxPapers <- 1, MaxPurchases <- 4

J == INSTANCE Journal WITH Overlapping <- {}

Sides == {"ledger", "closing", "documents", "purchases"}

\* Two entries that balance, one year, one month of it that closes and one
\* account that retires.
Closing ==
    /\ Cardinality({ e \in Ids : entries'[e] # None }) <= 2
    /\ Cardinality({ y \in Years : calendar'[y] # [m \in Months |-> None] }) <= 1
    /\ \A y \in Years : calendar'[y][2] \in {None, "open"}
    /\ chart'[a2].state = "active"
    /\ \A t \in Threads :
         /\ request'[t].op \in {"create", "create_posted"} => Balanced(request'[t].lines)
         /\ request'[t].op \notin {"update", "delete", "open_account", "delete_account"}

MCInit ==
    /\ side \in Sides
    /\ Init
    /\ IF side = "purchases" THEN P!Init ELSE D!Init

MCNext ==
    /\ UNCHANGED side
    /\ \/ side = "ledger" /\ J!Next /\ UNCHANGED gl
       \/ side = "closing" /\ Next /\ Closing /\ UNCHANGED gl
       \/ side = "documents" /\ D!Next /\ UNCHANGED vars
       \/ side = "purchases" /\ P!Next /\ UNCHANGED vars

MCSpec == MCInit /\ [][MCNext]_<< side, vars, gl >>

Symmetric == Permutations({t1, t2}) \cup Permutations({e1, e2, e3}) \cup Permutations({y1, y2})

\* The statements tie to the entries of the ledger, and what the documents book
\* balances and follows the stock (GlEntries).
EntriesTie == StatementsTie /\ IF side = "purchases" THEN P!EntriesTie ELSE D!EntriesTie
\* The interim account of goods received and not billed clears (GlEntries).
InterimClears == IF side = "purchases" THEN P!InterimClears ELSE D!InterimClears
=============================================================================
