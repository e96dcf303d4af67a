----------------------------- MODULE StockMoves -----------------------------
(***************************************************************************)
(* Stock movement documents (crates/nebula-apps/src/scm/inventory/moves.rs *)
(* and batch.rs): receipts, issues, transfers and adjustments of one item, *)
(* drafted, posted and reversed.                                           *)
(*                                                                         *)
(* Posting and reversing lock the document row and every level they touch  *)
(* before they read them, so each handler is one atomic step.  Items do    *)
(* not share levels, lots or serials; one item is modelled, with the       *)
(* tracking its master data asks for.  Sales orders reserve and release    *)
(* the same levels.  Dates, memos, units of measure, activity flags and    *)
(* the staged ledger request are left out.                                 *)
(***************************************************************************)
EXTENDS StockEngine, Sequences, FiniteSets, FiniteSetsExt, TLC

CONSTANTS
    Moves,              \* the identifiers documents may take
    Warehouses, Lots, Serials,
    Tracking,           \* what an item may be set up to track
    NoMove, NoWarehouse, NoLot, NoCost,
    Qtys,               \* the quantities users enter (0 only in a count)
    Costs,              \* the unit costs users enter
    MaxLines,           \* bound on the lines of a document about an item that tracks nothing,
    MaxTrackedLines,    \* and about one that tracks lots or units
    MaxEntered,         \* bound on the lines entered in all documents
    MaxDrafts,          \* bound on the drafts that wait at a time
    ReversalDepth       \* bound on chains of reversals of reversals

\* Where a serial unit is: in stock at a warehouse, or one of these.
Away == {"unknown", "issued", "scrapped"}

SetUp ==
    /\ Tracking \subseteq SUBSET {"batches", "serials"}
    /\ Qtys \subseteq Nat /\ Costs \subseteq Nat
    /\ {MaxLines, MaxTrackedLines, MaxEntered, MaxDrafts, ReversalDepth} \subseteq Nat
    /\ IsFiniteSet(Lots) /\ IsFiniteSet(Serials)
    /\ NoMove \notin Moves /\ NoLot \notin Lots /\ Warehouses \cap (Away \cup {NoWarehouse}) = {}

MoveTypes == {"receipt", "issue", "transfer", "adjustment"}

LineInputs == [qty : Qtys, cost : Costs \cup {NoCost}, lot : Lots \cup {NoLot},
          serials : SUBSET Serials]

VARIABLES
    item,       \* what the item tracks, set up before it has stock
    doc,        \* doc[m]: the documents that exist, by identifier
    level,      \* level[w]: the item's level row in warehouse w
    ledger,     \* the stock ledger, in seq order
    serial      \* serial[x]: the whereabouts of serial unit x

vars == << item, doc, level, ledger, serial >>

TrackBatches == "batches" \in item
TrackSerials == "serials" \in item

Documents ==
    [type : MoveTypes, from : Warehouses \cup {NoWarehouse},
     to : Warehouses \cup {NoWarehouse}, lines : Seq(LineInputs),
     status : {"draft", "posted", "reversed"},
     reverses : Moves \cup {NoMove}, reversed_by : Moves \cup {NoMove}]

Rows == [move : Moves, line : Nat, warehouse : Warehouses, lot : Lots \cup {NoLot},
         qty : Int, unit_cost : Int, value : Int]

TypeOK ==
    /\ item \in Tracking
    /\ DOMAIN doc \subseteq Moves
    /\ \A m \in DOMAIN doc : doc[m] \in Documents
    /\ level \in [Warehouses -> Level]
    /\ ledger \in Seq(Rows)
    /\ serial \in [Serials -> Warehouses \cup Away]

Init ==
    /\ item \in Tracking
    /\ doc = [m \in {} |-> NoMove]
    /\ level = [w \in Warehouses |-> EmptyLevel]
    /\ ledger = << >>
    /\ serial = [x \in Serials |-> "unknown"]

Tally(f, S) == MapThenSumSet(LAMBDA x : f[x], S)

\* What rows of a ledger add up to.
QtyOf(rows, K) == Tally([k \in K |-> rows[k].qty], K)

----------------------------------------------------------------------------
(* Draft validation (validate_move).                                       *)

ValidHeader(type, from, to) ==
    CASE type = "receipt"    -> from = NoWarehouse /\ to \in Warehouses
      [] type = "issue"      -> from \in Warehouses /\ to = NoWarehouse
      [] type = "transfer"   -> from \in Warehouses /\ to \in Warehouses /\ from # to
      [] type = "adjustment" -> from \in Warehouses /\ to = NoWarehouse

ValidLine(type, ln) ==
    /\ type # "adjustment" => ln.qty > 0
    /\ type \in {"issue", "transfer"} => ln.cost = NoCost

Headers ==
    { h \in [type : MoveTypes, from : Warehouses \cup {NoWarehouse}, to : Warehouses \cup {NoWarehouse}] :
        ValidHeader(h.type, h.from, h.to) }

\* The lines a user enters: what the item does not track is left empty.
Entered(type) ==
    { ln \in LineInputs :
        /\ ValidLine(type, ln)
        /\ ln.lot # NoLot => TrackBatches
        /\ ln.serials # {} => TrackSerials }

EnteredIn(S) == Tally([m \in S |-> IF doc[m].reverses = NoMove THEN Len(doc[m].lines) ELSE 0], S)

Draft(h, lines) ==
    [type |-> h.type, from |-> h.from, to |-> h.to, lines |-> lines,
     status |-> "draft", reverses |-> NoMove, reversed_by |-> NoMove]

----------------------------------------------------------------------------
(* Applying a line.  The stock a transaction works on is a record of the   *)
(* levels, the ledger and the serials.                                     *)

Stock == [level |-> level, ledger |-> ledger, serial |-> serial]

LotOnHand(rows, w, lot) == QtyOf(rows, { k \in DOMAIN rows : rows[k].warehouse = w /\ rows[k].lot = lot })

In(w, qty, cost) == [warehouse |-> w, in |-> TRUE, qty |-> qty, cost |-> cost]
Out(w, qty)      == [warehouse |-> w, in |-> FALSE, qty |-> qty, cost |-> 0]

CanApply(s, mv) ==
    LET l == s.level[mv.warehouse]
    IN  IF mv.in THEN CanReceive(l, mv.qty, mv.cost) ELSE CanIssue(l, mv.qty, 0)

apply(s, m, i, lot, mv) ==
    LET w == mv.warehouse
        l == s.level[w]
        next == IF mv.in THEN Received(l, mv.qty, mv.cost) ELSE Issued(l, mv.qty, 0)
    IN  [s EXCEPT !.level[w] = next,
                  !.ledger = Append(@,
                     [move |-> m, line |-> i, warehouse |-> w, lot |-> lot,
                      qty |-> next.on_hand - l.on_hand,
                      unit_cost |-> IF mv.in THEN mv.cost ELSE level_average(l),
                      value |-> next.value - l.value])]

serials_in(s, w, names) == [s EXCEPT !.serial = [x \in Serials |-> IF x \in names THEN w ELSE @[x]]]
serials_out(s, names, st) == [s EXCEPT !.serial = [x \in Serials |-> IF x \in names THEN st ELSE @[x]]]

CanSerialsIn(s, names) == \A x \in names : s.serial[x] \notin Warehouses

\* MUTANT of in_stock_at: the unit is in stock, wherever that is.
in_stock_at_Anywhere(s, w, names) == \A x \in names : s.serial[x] \in Warehouses

in_stock_at(s, w, names) == \A x \in names : s.serial[x] = w

\* The counted difference of an adjustment line: against the lot's position
\* when the item is batch-tracked, against the level otherwise.
Delta(s, d, ln) ==
    ln.qty - IF TrackBatches THEN LotOnHand(s.ledger, d.from, ln.lot)
                             ELSE s.level[d.from].on_hand

UpCost(s, d, ln) == IF ln.cost = NoCost THEN level_average(s.level[d.from]) ELSE ln.cost

\* The engine movements of a line.
Movements(s, d, ln) ==
    CASE d.type = "receipt"  -> << In(d.to, ln.qty, ln.cost) >>
      [] d.type = "issue"    -> << Out(d.from, ln.qty) >>
      [] d.type = "transfer" -> << Out(d.from, ln.qty),
                                   In(d.to, ln.qty, level_average(s.level[d.from])) >>
      [] d.type = "adjustment" ->
            LET delta == Delta(s, d, ln)
            IN  CASE delta > 0 -> << In(d.from, delta, UpCost(s, d, ln)) >>
                  [] delta < 0 -> << Out(d.from, -delta) >>
                  [] delta = 0 -> << >>

\* What the line must name: a lot and the units that move, exactly when the
\* item tracks them.
NamesDimensions(s, d, ln) ==
    LET moved == IF d.type = "adjustment"
                 THEN LET delta == Delta(s, d, ln) IN Greatest(delta, -delta)
                 ELSE ln.qty
    IN  /\ (ln.lot # NoLot) <=> TrackBatches
        /\ IF TrackSerials THEN Cardinality(ln.serials) = moved ELSE ln.serials = {}

LotCovers(s, d, ln) ==
    TrackBatches /\ d.type \in {"issue", "transfer"} =>
        LotOnHand(s.ledger, d.from, ln.lot) >= ln.qty

SerialsCan(s, d, ln) ==
    CASE d.type = "receipt" -> CanSerialsIn(s, ln.serials)
      [] d.type \in {"issue", "transfer"} -> in_stock_at(s, d.from, ln.serials)
      [] d.type = "adjustment" ->
            IF Delta(s, d, ln) > 0 THEN CanSerialsIn(s, ln.serials)
                                   ELSE in_stock_at(s, d.from, ln.serials)

SerialsMoved(before, s, d, ln) ==
    CASE d.type = "receipt"  -> serials_in(s, d.to, ln.serials)
      [] d.type = "issue"    -> serials_out(s, ln.serials, "issued")
      [] d.type = "transfer" -> serials_in(s, d.to, ln.serials)
      [] d.type = "adjustment" ->
            IF Delta(before, d, ln) > 0 THEN serials_in(s, d.from, ln.serials)
                                        ELSE serials_out(s, ln.serials, "scrapped")

\* The movements applied one after the other; the last state is the result.
Applied(s, m, i, lot, mvs) ==
    LET run[k \in 0..Len(mvs)] == IF k = 0 THEN s ELSE apply(run[k - 1], m, i, lot, mvs[k])
    IN  run

AllCanApply(s, m, i, lot, mvs) ==
    \A k \in 1..Len(mvs) : CanApply(Applied(s, m, i, lot, mvs)[k - 1], mvs[k])

CanApplyLine(s, m, d, i) ==
    LET ln == d.lines[i]
    IN  /\ NamesDimensions(s, d, ln)
        /\ d.type = "receipt" => ln.cost # NoCost
        \* counting up from zero stock needs a unit cost
        /\ d.type = "adjustment" /\ Delta(s, d, ln) > 0 /\ ln.cost = NoCost
               => s.level[d.from].on_hand # 0
        /\ LotCovers(s, d, ln)
        /\ AllCanApply(s, m, i, ln.lot, Movements(s, d, ln))
        /\ SerialsCan(s, d, ln)

apply_line(s, m, d, i) ==
    LET ln == d.lines[i]
        mvs == Movements(s, d, ln)
    IN  SerialsMoved(s, Applied(s, m, i, ln.lot, mvs)[Len(mvs)], d, ln)

Become(s) == level' = s.level /\ ledger' = s.ledger /\ serial' = s.serial /\ item' = item

----------------------------------------------------------------------------
(* The document handlers.                                                  *)

With(m, d) == [x \in DOMAIN doc \cup {m} |-> IF x = m THEN d ELSE doc[x]]

LineBound == IF item = {} THEN MaxLines ELSE MaxTrackedLines

create_draft(m) ==
    /\ m \notin DOMAIN doc
    /\ Cardinality({x \in DOMAIN doc : doc[x].status = "draft"}) < MaxDrafts
    /\ \E h \in Headers, n \in 1..LineBound :
         /\ EnteredIn(DOMAIN doc) + n <= MaxEntered
         /\ \E lines \in [1..n -> Entered(h.type)] : doc' = With(m, Draft(h, lines))
    /\ UNCHANGED << item, level, ledger, serial >>

\* An edit replaces the lines wholesale (by one line here) and may change the
\* warehouses.
update_draft(m) ==
    /\ m \in DOMAIN doc /\ doc[m].status = "draft"
    /\ \E h \in {x \in Headers : x.type = doc[m].type} :
         \E line \in Entered(h.type) : doc' = With(m, Draft(h, << line >>))
    /\ UNCHANGED << item, level, ledger, serial >>

delete_draft(m) ==
    /\ m \in DOMAIN doc /\ doc[m].status = "draft"
    /\ doc' = [x \in DOMAIN doc \ {m} |-> doc[x]]
    /\ UNCHANGED << item, level, ledger, serial >>

\* The stock after each line of a document.
Posted(m, d) ==
    LET run[i \in 0..Len(d.lines)] == IF i = 0 THEN Stock ELSE apply_line(run[i - 1], m, d, i)
    IN  run

post(m) ==
    /\ m \in DOMAIN doc /\ doc[m].status = "draft"
    /\ LET d == doc[m]
           run == Posted(m, d)
       IN  /\ \A i \in 1..Len(d.lines) : CanApplyLine(run[i - 1], m, d, i)
           /\ Become(run[Len(d.lines)])
           /\ doc' = [doc EXCEPT ![m].status = "posted"]

\* The chain of reversals a document stands at the end of.
Depth(m) ==
    LET depth[x \in DOMAIN doc] ==
            IF doc[x].reverses = NoMove THEN 0 ELSE depth[doc[x].reverses] + 1
    IN  depth[m]

Mirror(row) ==
    IF row.qty > 0 THEN Out(row.warehouse, row.qty)
                   ELSE In(row.warehouse, -row.qty, row.unit_cost)

\* The serial side of a reversal goes by the document's type, and for an
\* adjustment by the way its count went.
WentUp(m, i) == \E k \in DOMAIN ledger : ledger[k].move = m /\ ledger[k].line = i /\ ledger[k].qty > 0

CanUnserial(s, m, d, i) ==
    LET names == d.lines[i].serials
    IN  CASE d.type = "receipt"  -> in_stock_at(s, d.to, names)
          [] d.type = "issue"    -> CanSerialsIn(s, names)
          [] d.type = "transfer" -> in_stock_at(s, d.to, names)
          [] d.type = "adjustment" ->
                IF WentUp(m, i) THEN in_stock_at(s, d.from, names) ELSE CanSerialsIn(s, names)

Unserial(s, m, d, i) ==
    LET names == d.lines[i].serials
    IN  CASE d.type = "receipt"  -> serials_out(s, names, "scrapped")
          [] d.type = "issue"    -> serials_in(s, d.from, names)
          [] d.type = "transfer" -> serials_in(s, d.from, names)
          [] d.type = "adjustment" ->
                IF WentUp(m, i) THEN serials_out(s, names, "scrapped")
                                   ELSE serials_in(s, d.from, names)

\* MUTANT of CanReverse: a document that is already reversed is not refused.
CanReverse_Again(m) == doc[m].status \in {"posted", "reversed"}

CanReverse(m) == doc[m].status = "posted"

\* The stock after each row of the ledger: a row of m is mirrored, in seq order,
\* against the copied line of r.
Mirrored(m, r) ==
    LET run[k \in 0..Len(ledger)] ==
            IF k = 0 THEN Stock
            ELSE LET row == ledger[k] IN
                 IF row.move = m THEN apply(run[k - 1], r, row.line, row.lot, Mirror(row)) ELSE run[k - 1]
    IN  run

\* The stock s after the units of each line of m went back.
Walked(s, m, d) ==
    LET run[i \in 0..Len(d.lines)] == IF i = 0 THEN s ELSE Unserial(run[i - 1], m, d, i)
    IN  run

\* Every ledger row of the original is mirrored; then the serials; then the
\* two documents are linked.
reverse(m, r) ==
    /\ m \in DOMAIN doc /\ CanReverse(m)
    /\ Depth(m) < ReversalDepth
    /\ r \notin DOMAIN doc
    /\ LET d == doc[m]
           mirrored == Mirrored(m, r)
           walked == Walked(mirrored[Len(ledger)], m, d)
       IN  /\ \A k \in DOMAIN ledger : ledger[k].move = m => CanApply(mirrored[k - 1], Mirror(ledger[k]))
           /\ \A i \in 1..Len(d.lines) : CanUnserial(walked[i - 1], m, d, i)
           /\ Become(walked[Len(d.lines)])
           /\ doc' = [With(r, [d EXCEPT !.reverses = m]) EXCEPT
                         ![m].status = "reversed", ![m].reversed_by = r]

\* A sales document takes or gives back a reservation on the level.
Reserve(w, want) ==
    /\ Grant(level[w], want) > 0
    /\ level' = [level EXCEPT ![w] = reserve_up_to(@, want)]
    /\ UNCHANGED << item, doc, ledger, serial >>

Release(w, qty) ==
    /\ level[w].reserved > 0
    /\ level' = [level EXCEPT ![w] = release_reserved(@, qty)]
    /\ UNCHANGED << item, doc, ledger, serial >>

Next ==
    \/ \E m \in Moves : create_draft(m) \/ update_draft(m) \/ delete_draft(m) \/ post(m)
    \/ \E m, r \in Moves : reverse(m, r)
    \/ \E w \in Warehouses, q \in Qtys : Reserve(w, q) \/ Release(w, q)

Spec == Init /\ [][Next]_vars

----------------------------------------------------------------------------

\* Stock is never negative and never promised twice: plain movements and
\* their reversals leave what sales orders hold, and an emptied warehouse
\* keeps no residue of value.
LevelsSound == \A w \in Warehouses : SoundLevel(level[w])

\* The stock of a batch-tracked item is the stock of its lots: no movement,
\* count or mirror goes past the lot dimension, so the per-lot checks that
\* sum ledger rows see everything the level row holds.
LotsAddUp ==
    TrackBatches => \A w \in Warehouses :
        level[w].on_hand = Tally([lot \in Lots |-> LotOnHand(ledger, w, lot)], Lots)

\* No lot gives out more than it received: "reversing a receipt whose stock
\* has since been issued fails the negative-stock check instead of corrupting
\* the ledger".
LotsNeverNegative ==
    \A w \in Warehouses, lot \in Lots : LotOnHand(ledger, w, lot) >= 0

UnitsAsOnHand ==
    TrackSerials => \A w \in Warehouses :
        Cardinality({x \in Serials : serial[x] = w}) = level[w].on_hand

\* A serial-tracked item has as many units in stock at a warehouse as its
\* level says, through posts, counts and reversals, until a document that is
\* itself a reversal is reversed.
SerialsMatchOnHand ==
    (\A m \in DOMAIN doc : doc[m].status = "reversed" => doc[m].reverses = NoMove)
        => UnitsAsOnHand

\* "What a receipt brought in leaves, what an issue took out comes back, a
\* transfer walks home": the same for every document that can be reversed.
UnitsWalkHome == UnitsAsOnHand

Moved(S, w, lot) ==
    QtyOf(ledger, { k \in DOMAIN ledger :
                      ledger[k].move \in S /\ ledger[k].warehouse = w /\ ledger[k].lot = lot })

\* A reversed document and everything that reverses it leave no quantity
\* behind, in any warehouse and lot: it is undone exactly once.
ReversalUndoes ==
    \A m \in DOMAIN doc : doc[m].status = "reversed" =>
        LET both == {m} \cup {r \in DOMAIN doc : doc[r].reverses = m}
        IN  /\ m \in {doc[r].reverses : r \in DOMAIN doc}
            /\ \A w \in Warehouses, lot \in Lots \cup {NoLot} : Moved(both, w, lot) = 0

\* The stock levels, the lots and the serial units agree and are sound: nothing
\* is negative, promised twice or left as value on an empty level, and no post,
\* count or reversal moves the level without the lots and units it is made of.
StockAddsUp == TypeOK /\ LevelsSound /\ LotsAddUp /\ SerialsMatchOnHand

\* Documents, warehouses, lots and units are alike.
Symmetric ==
    Permutations(Moves) \cup Permutations(Warehouses) \cup Permutations(Lots) \cup Permutations(Serials)

=============================================================================
