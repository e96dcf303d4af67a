------------------------------ MODULE Reorder -------------------------------
(***************************************************************************)
(* Automatic reordering                                                    *)
(* (crates/nebula-apps/src/scm/procurement/reorder.rs) of one item at one  *)
(* warehouse.  A run holds an advisory lock, reads the level, then the     *)
(* orders that the level does not carry yet, and drafts an order for what  *)
(* is short.  The reads see what others commit between them.  The item is  *)
(* purchasable and has a supplier who is not on hold; others are skipped.  *)
(***************************************************************************)
EXTENDS LineSums, Integers

CONSTANTS
    Orders,
    Runs,           \* the worker and the manual runs
    ReorderLevel,
    MaxLevel,       \* the level to order up to
    MinOrderQty,
    OrderMultiple

VARIABLES
    onHand,
    onOrder,    \* what approved orders still bring
    order,      \* order[o]: its status and quantity
    run,        \* run[w]: what a run has read
    overtaken   \* an order was approved between the two reads of a run

vars == << onHand, onOrder, order, run, overtaken >>

NoOrder == [status |-> "none", qty |-> 0]
NoRun == [status |-> "idle", position |-> 0]

TypeOK ==
    /\ onHand \in Qtys /\ onOrder \in Nat
    /\ order \in [Orders -> [status : {"none", "draft", "submitted", "approved"}, qty : Qtys]]
    /\ run \in [Runs -> [status : {"idle", "level"}, position : Nat]]
    /\ overtaken \in BOOLEAN

Init ==
    /\ onHand = 0 /\ onOrder = 0
    /\ order = [o \in Orders |-> NoOrder]
    /\ run = [w \in Runs |-> NoRun]
    /\ overtaken = FALSE

----------------------------------------------------------------------------

Pipeline == { o \in Orders : order[o].status \in {"draft", "submitted"} }
qty == [o \in Orders |-> order[o].qty]
drafted == Sum(qty, Pipeline)

\* The advisory lock of the database.
Locked(w) == \E v \in Runs : run[v] # NoRun

run_begin(w) ==
    /\ ~Locked(w)
    /\ run' = [run EXCEPT ![w] = [status |-> "level", position |-> onHand + onOrder]]
    /\ UNCHANGED << onHand, onOrder, order, overtaken >>

Raised(q) == IF q < MinOrderQty THEN MinOrderQty ELSE q
Rounded(q) == ((q + OrderMultiple - 1) \div OrderMultiple) * OrderMultiple

\* How much to order: up to the maximum, at least the minimum, in multiples.
order_qty(position) == Rounded(Raised(MaxLevel - position))

\* MUTANT of position: what is drafted and submitted is not counted.
position_NoDrafts(w) == run[w].position

position(w) == run[w].position + drafted

run_finish(w) ==
    /\ run[w] # NoRun
    /\ IF position(w) > ReorderLevel \/ order_qty(position(w)) <= 0
         THEN UNCHANGED order
         ELSE \E o \in Orders :
                /\ order[o] = NoOrder
                /\ order' = [order EXCEPT ![o] = [status |-> "draft", qty |-> order_qty(position(w))]]
    /\ run' = [run EXCEPT ![w] = NoRun]
    /\ UNCHANGED << onHand, onOrder, overtaken >>

----------------------------------------------------------------------------
(* The orders and the stock.                                               *)

submit(o) ==
    /\ order[o].status = "draft"
    /\ order' = [order EXCEPT ![o].status = "submitted"]
    /\ UNCHANGED << onHand, onOrder, run, overtaken >>

approve(o) ==
    /\ order[o].status = "submitted"
    /\ order' = [order EXCEPT ![o].status = "approved"]
    /\ onOrder' = onOrder + order[o].qty
    /\ overtaken' = (overtaken \/ \E w \in Runs : run[w] # NoRun)
    /\ UNCHANGED << onHand, run >>

\* Drafts are deleted, later orders cancelled.
drop(o) ==
    /\ order[o] # NoOrder
    /\ onOrder' = IF order[o].status = "approved" THEN onOrder - order[o].qty ELSE onOrder
    /\ order' = [order EXCEPT ![o] = NoOrder]
    /\ UNCHANGED << onHand, run, overtaken >>

receive(o) ==
    /\ order[o].status = "approved"
    /\ onHand + order[o].qty <= MaxQty
    /\ onHand' = onHand + order[o].qty
    /\ onOrder' = onOrder - order[o].qty
    /\ order' = [order EXCEPT ![o] = NoOrder]
    /\ UNCHANGED << run, overtaken >>

issue(q) ==
    /\ q <= onHand
    /\ onHand' = onHand - q
    /\ UNCHANGED << onOrder, order, run, overtaken >>

----------------------------------------------------------------------------

Next ==
    \/ \E w \in Runs : run_begin(w) \/ run_finish(w)
    \/ \E o \in Orders : submit(o) \/ approve(o) \/ drop(o) \/ receive(o)
    \/ \E q \in Qtys \ {0} : issue(q)

\* The worker wakes up again and again, and a run that began is answered.
Fairness == \A w \in Runs : WF_vars(run_finish(w)) /\ SF_vars(run_begin(w))

Spec == Init /\ [][Next]_vars /\ Fairness

----------------------------------------------------------------------------

\* The most the policy may have underway: an order drafted at a position that
\* was short.
Ceiling == { p + order_qty(p) : p \in 0..ReorderLevel }

\* No shortage is drafted twice: whatever runs overlap, and whatever is issued,
\* received, submitted and cancelled meanwhile, what is underway never exceeds
\* what one run may bring it to - unless an order was approved between the two
\* reads of a run.
OneShortageOneDraft == ~overtaken => \E c \in Ceiling : drafted + onOrder <= c

Short == onHand + onOrder + drafted <= ReorderLevel

\* A position that is short does not stay so: a run covers it.
ShortageCovered == Short ~> ~Short

=============================================================================
