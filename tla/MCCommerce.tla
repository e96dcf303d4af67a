----------------------------- MODULE MCCommerce ------------------------------
(***************************************************************************)
(* Small instances for TLC of what comes before an order binds anybody:    *)
(* the sourcing of purchases, the offers and commitments of sales, and the *)
(* prices.  They share no state; a behaviour is one of them, "side".       *)
(***************************************************************************)
EXTENDS SalesCommitments, TLC

CONSTANTS
    Requisitions, Rfqs, Suppliers, Purchases, Requests,
    Lists, ListedLines, Partners, Groups,   \* the partners that are groups, the others are customers
    PricedLists, LineSets, Queries, Currency, Window, ItemPrices

ASSUME NamesAssumption == None \notin Requisitions \cup Rfqs \cup Purchases \cup Lists

\* Lists are numbered by age, and the lines of a list are replaced together, none
\* twice for one unit and break (replace_lines).
ASSUME PricingAssumption ==
    /\ PricedLists \subseteq Nat /\ IsFiniteSet(PricedLists) /\ None \notin PricedLists
    /\ \A lines \in LineSets :
        /\ IsFiniteSet(lines)
        /\ \A line \in lines : line.min_qty \in Int
        /\ \A a, b \in lines : a.uom = b.uom /\ a.min_qty = b.min_qty => a = b

VARIABLES side, requisition, rfq, purchase, request, died,
          prices, own, group, selling_price, asked,
          list, pointer, pricing

sourcing == << requisition, rfq, purchase, request, died >>
resolution == << prices, own, group, selling_price, asked >>
lists == << list, pointer, pricing >>

S == INSTANCE Sourcing WITH Orders <- Purchases, order <- purchase

Fixed(uom, min_qty, price) == [uom |-> uom, min_qty |-> min_qty, unit_price |-> price, discount_pct |-> None]
Off(uom, min_qty, pct) == [uom |-> uom, min_qty |-> min_qty, unit_price |-> None, discount_pct |-> pct]

\* No line, a price, a break, a line for one unit, a percentage with a break.
MCLineSets == {
    {},
    { Fixed(None, 0, 90) },
    { Fixed(None, 0, 90), Fixed(None, 2, 70) },
    { Fixed(None, 0, 90), Fixed("box", 0, 80) },
    { Off(None, 0, 50), Fixed("box", 2, 60) } }

MCQueries == [qty : {1, 2}, uom : {None, "box"}, currency : {"EUR"}, date : {1}]
             \cup [qty : {2}, uom : {None}, currency : {"EUR", "USD"}, date : {1, 2}]

P == INSTANCE PriceResolution WITH Lists <- PricedLists, Prices <- ItemPrices, list <- prices

MCKind == [p \in Partners |-> IF p \in Groups THEN "group" ELSE "customer"]

L == INSTANCE PriceLists WITH LineSets <- ListedLines, Kind <- MCKind, request <- pricing

Sides == {"sourcing", "commitments", "resolution", "lists"}

MCInit ==
    /\ side \in Sides
    /\ Init /\ S!Init /\ L!Init
    /\ IF side = "resolution" THEN P!Init
       ELSE /\ prices = << >> /\ own = None /\ group = None /\ selling_price = None /\ asked = None

MCNext ==
    /\ UNCHANGED side
    /\ \/ side = "sourcing" /\ S!Next /\ UNCHANGED << vars, resolution, lists >>
       \/ side = "commitments" /\ Next /\ UNCHANGED << sourcing, resolution, lists >>
       \/ side = "resolution" /\ P!Next /\ UNCHANGED << vars, sourcing, lists >>
       \/ side = "lists" /\ L!Next /\ UNCHANGED << vars, sourcing, resolution >>

MCSpec == MCInit /\ [][MCNext]_<< side, vars, sourcing, resolution, lists >>

Symmetric == Permutations(Requests)

ClaimsHold == S!ClaimsHold
DraftsAreClaimed == S!DraftsAreClaimed
ClaimsStick == S!ClaimsStick

\* A converted requisition and an awarded request for quotation have an order
\* that was drafted for them, and a draft that lost the race to be claimed is
\* removed, unless the process died.
OrdersAreClaimed == TypeOK /\ S!TypeOK /\ ClaimsHold /\ DraftsAreClaimed
ResolvesByTheRule == P!ResolvesByTheRule
RetiredListsRest == L!RetiredListsRest

\* What was decided stays decided: an award or a conversion keeps its order, an
\* accepted offer its prices, an archived price list its lines but for what a
\* request that read the list before it was archived still writes.
DecisionsStand == ClaimsStick /\ OffersStand /\ RetiredListsRest
=============================================================================
