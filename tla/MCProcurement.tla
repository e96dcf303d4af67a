--------------------------- MODULE MCProcurement ---------------------------
(***************************************************************************)
(* Small instances of Procurement and of StockMoves for TLC.  The purchase *)
(* documents and the stock documents are checked apart: a run starts both  *)
(* and moves one of them.                                                  *)
(***************************************************************************)
EXTENDS Procurement, TLC

CONSTANTS
    o1, o2, g1, l1, l2, l3,
    Moves, Warehouses, Lots, Serials, Tracking, NoMove, NoWarehouse, NoLot, NoCost,
    EnteredQtys, EnteredCosts, MaxLines, MaxTrackedLines, MaxEntered, MaxDrafts, ReversalDepth

VARIABLES item, paper, shelf, ledger, serial

\* The stock documents, the levels they move, their ledger and the units.
M == INSTANCE StockMoves WITH Qtys <- EnteredQtys, Costs <- EnteredCosts, doc <- paper, level <- shelf

ASSUME StockMovesAssumption == M!SetUp

\* An order with two lines and one with a single line, all delivered to the
\* same level.
MCOrderOf == [l \in Lines |-> IF l = l3 THEN o2 ELSE o1]
MCGateOf == [l \in Lines |-> g1]

stock == << item, paper, shelf, ledger, serial >>

MCInit == Init /\ M!Init

PurchaseNext == Next /\ UNCHANGED stock
PurchaseSpec == MCInit /\ [][PurchaseNext]_<< vars, stock >>

MovesNext == M!Next /\ UNCHANGED vars
MovesSpec == MCInit /\ [][MovesNext]_<< vars, stock >>

\* What StockMoves checks of the stock documents: levels, lots and units agree
\* and are sound, and a reversed document leaves no quantity behind.
StockAddsUp == M!StockAddsUp
ReversalUndoes == M!ReversalUndoes

Symmetric == Permutations(Receipts) \cup Permutations({l1, l2})
\* Documents, warehouses, lots and units are alike.
AlikeMoves == M!Symmetric
=============================================================================
