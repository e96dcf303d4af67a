-------------------------- MODULE SalesFulfilment --------------------------
(***************************************************************************)
(* Sales orders and their deliveries against shared stock levels           *)
(* (crates/nebula-apps/src/scm/sales/order.rs, delivery.rs and the billing *)
(* counters of invoice.rs, over the stock engine).                         *)
(*                                                                         *)
(* Every handler that moves stock or a status locks its document, then the *)
(* order, then the levels it touches, and reads only what it has locked,   *)
(* so each one is an atomic step.  The draft editors validate on an        *)
(* unlocked read: a draft saved late is one saved when it was validated,   *)
(* and posting validates again.  The lines of a delivery on one level are  *)
(* issued together, which may round the value issued by a cent.            *)
(*                                                                         *)
(* The contents of the orders are constants, and the handlers that edit a  *)
(* draft order are left out with prices, dates and the credit check, which *)
(* may refuse a confirmation.  A delivery is the quantity it ships of each *)
(* order line: several delivery lines on one order line add up in the code *)
(* before they are checked.  The reversal document of a delivery is left   *)
(* out: reversing it would receive a negative quantity, which the engine   *)
(* refuses, so nothing changes it again.                                   *)
(***************************************************************************)
EXTENDS StockEngine, LineSums

CONSTANTS
    Orders,
    Lines,          \* the order lines, in line order
    OrderOf,        \* the order of a line
    GateOf,         \* the item x warehouse level a line ships from
    Ordered,        \* the quantity ordered
    Services,       \* the lines whose item is not stockable
    Gates,
    Deliveries,
    Costs,          \* the unit costs stock comes in at
    MaxStock        \* bound on the stock of a level

ASSUME FulfilmentAssumption ==
    /\ Lines \subseteq Nat /\ IsFiniteSet(Lines) /\ Services \subseteq Lines
    /\ OrderOf \in [Lines -> Orders]
    /\ GateOf \in [Lines -> Gates]
    /\ Ordered \in [Lines -> Qtys \ {0}]
    /\ IsFiniteSet(Deliveries)
    /\ Costs \subseteq Nat
    /\ MaxStock \in Nat

VARIABLES
    order,          \* order[o]: the status of an order
    reserved, delivered, billed,    \* the counters of each order line
    level,          \* level[g]: the stock level rows
    delivery        \* delivery[d]: the delivery documents

counters == << reserved, delivered, billed >>
vars == << order, reserved, delivered, billed, level, delivery >>

Deliverable == {"confirmed", "partially_delivered"}
Fulfilling == Deliverable \cup {"delivered"}

NoDelivery == [status |-> "none"]
DeliveryDocs == [status : {"draft", "posted", "reversed"}, order : Orders, qty : [Lines -> Qtys]]

TypeOK ==
    /\ order \in [Orders -> Fulfilling \cup {"draft", "closed", "cancelled"}]
    /\ reserved \in [Lines -> Qtys]
    /\ delivered \in [Lines -> Qtys]
    /\ billed \in [Lines -> Qtys]
    /\ level \in [Gates -> Level]
    /\ delivery \in [Deliveries -> DeliveryDocs \cup {NoDelivery}]

Init ==
    /\ order = [o \in Orders |-> "draft"]
    /\ reserved = [l \in Lines |-> 0]
    /\ delivered = [l \in Lines |-> 0]
    /\ billed = [l \in Lines |-> 0]
    /\ level = [g \in Gates |-> EmptyLevel]
    /\ delivery = [d \in Deliveries |-> NoDelivery]

LinesOf(o) == { l \in Lines : OrderOf[l] = o }

Stocked(o, g) == { l \in LinesOf(o) \ Services : GateOf[l] = g }
AtGate(g) == { l \in Lines : GateOf[l] = g }

----------------------------------------------------------------------------
(* Reservations.                                                           *)

\* What each level grants of the total wanted there is shared out over the
\* order's lines in line order.
Shared(o, want, take) ==
    /\ \A l \in Lines : take[l] <= want[l]
    /\ \A g \in Gates : Sum(take, Stocked(o, g)) = Grant(level[g], Sum(want, Stocked(o, g)))
    /\ \A k, l \in Lines : k < l /\ GateOf[k] = GateOf[l] /\ take[l] > 0 => take[k] = want[k]

Reserve(o, want) ==
    \E take \in [Lines -> Qtys] :
        /\ Shared(o, want, take)
        /\ reserved' = [l \in Lines |-> reserved[l] + take[l]]
        /\ level' = [g \in Gates |-> reserve_up_to(level[g], Sum(want, Stocked(o, g)))]

release_reservations(o) ==
    /\ reserved' = [l \in Lines |-> IF OrderOf[l] = o THEN 0 ELSE reserved[l]]
    /\ level' = [g \in Gates |-> release_reserved(level[g], Sum(reserved, Stocked(o, g)))]

\* The line counters start at zero, so a confirmation may add to them.
confirm(o) ==
    /\ order[o] = "draft"
    /\ LinesOf(o) # {}
    /\ Reserve(o, [l \in Lines |-> IF l \in LinesOf(o) \ Services THEN Ordered[l] ELSE 0])
    /\ order' = [order EXCEPT ![o] = "confirmed"]
    /\ UNCHANGED << delivered, billed, delivery >>

\* The part of a line that is neither shipped nor reserved.
Short(l) == Ordered[l] - delivered[l] - reserved[l]

reserve_more(o) ==
    /\ order[o] \in Deliverable
    /\ Reserve(o, [l \in Lines |-> IF l \in LinesOf(o) \ Services THEN Greatest(Short(l), 0) ELSE 0])
    /\ UNCHANGED << order, delivered, billed, delivery >>

cancel(o) ==
    /\ order[o] \in {"draft", "confirmed"}
    /\ release_reservations(o)
    /\ order' = [order EXCEPT ![o] = "cancelled"]
    /\ UNCHANGED << delivered, billed, delivery >>

close(o) ==
    /\ order[o] \in Fulfilling
    /\ release_reservations(o)
    /\ order' = [order EXCEPT ![o] = "closed"]
    /\ UNCHANGED << delivered, billed, delivery >>

----------------------------------------------------------------------------
(* Deliveries.                                                             *)

\* The status an order has once its lines have shipped the quantities del.
recompute_status(o, del) ==
    IF order[o] \notin Fulfilling THEN order[o]
    ELSE IF \A l \in LinesOf(o) : del[l] >= Ordered[l] THEN "delivered"
    ELSE IF \E l \in LinesOf(o) : del[l] > 0 THEN "partially_delivered"
    ELSE "confirmed"

\* A delivery names lines of its order, and no more than they have open.
ValidDelivery(o, qty) ==
    /\ order[o] \in Deliverable
    /\ \E l \in Lines : qty[l] > 0
    /\ \A l \in Lines : qty[l] > 0 => OrderOf[l] = o /\ delivered[l] + qty[l] <= Ordered[l]

create_draft(d, o, qty) ==
    /\ delivery[d] = NoDelivery
    /\ ValidDelivery(o, qty)
    /\ delivery' = [delivery EXCEPT ![d] = [status |-> "draft", order |-> o, qty |-> qty]]
    /\ UNCHANGED << order, counters, level >>

update_draft(d, qty) ==
    /\ delivery[d].status = "draft"
    /\ ValidDelivery(delivery[d].order, qty)
    /\ delivery' = [delivery EXCEPT ![d].qty = qty]
    /\ UNCHANGED << order, counters, level >>

delete_draft(d) ==
    /\ delivery[d].status = "draft"
    /\ delivery' = [delivery EXCEPT ![d] = NoDelivery]
    /\ UNCHANGED << order, counters, level >>

\* The order can still ship, and its lines have the quantity open now.
StillOpen(d) ==
    /\ order[delivery[d].order] \in Deliverable
    /\ \A l \in Lines : delivered[l] + delivery[d].qty[l] <= Ordered[l]

\* The reservation of a line is spent first, free stock covers the rest.
Covered(d) == [l \in Lines |-> Least(reserved[l], delivery[d].qty[l])]

Shipped(d, g) == Sum(delivery[d].qty, Stocked(delivery[d].order, g))
CoveredAt(d, g) == Sum(Covered(d), Stocked(delivery[d].order, g))

\* What the stock engine asks of the lines of a delivery.
CanShip(d) ==
    /\ \A l \in Services : delivery[d].qty[l] = 0
    /\ \A g \in Gates : Shipped(d, g) > 0 => CanIssue(level[g], Shipped(d, g), CoveredAt(d, g))

Delivering(d) == [l \in Lines |-> delivered[l] + delivery[d].qty[l]]

\* MUTANT of post: the reservation that covered the goods stays on the line.
post_KeepReserved(d) ==
    /\ delivery[d].status = "draft"
    /\ StillOpen(d) /\ CanShip(d)
    /\ delivered' = Delivering(d)
    /\ LET o == delivery[d].order
       IN  order' = [order EXCEPT ![o] = recompute_status(o, Delivering(d))]
    /\ level' = [g \in Gates |-> IF Shipped(d, g) = 0 THEN level[g]
                                 ELSE Issued(level[g], Shipped(d, g), CoveredAt(d, g))]
    /\ delivery' = [delivery EXCEPT ![d].status = "posted"]
    /\ UNCHANGED << reserved, billed >>

post(d) ==
    /\ delivery[d].status = "draft"
    /\ StillOpen(d) /\ CanShip(d)
    /\ delivered' = Delivering(d)
    /\ LET o == delivery[d].order
       IN  order' = [order EXCEPT ![o] = recompute_status(o, Delivering(d))]
    /\ reserved' = [l \in Lines |-> reserved[l] - Covered(d)[l]]
    /\ level' = [g \in Gates |-> IF Shipped(d, g) = 0 THEN level[g]
                                 ELSE Issued(level[g], Shipped(d, g), CoveredAt(d, g))]
    /\ delivery' = [delivery EXCEPT ![d].status = "posted"]
    /\ UNCHANGED billed

Unbilled(d) ==
    \A l \in Lines : delivery[d].qty[l] > 0 => billed[l] <= delivered[l] - delivery[d].qty[l]

\* The goods come back at the cost they left at.  An order that is still open,
\* or had just been completed, reserves again what comes back, line by line in
\* no particular order, so at most one line of a level is granted a part.
reverse(d) ==
    /\ delivery[d].status = "posted"
    /\ Unbilled(d)
    /\ \E cost \in Costs, take \in [Lines -> Qtys] :
        LET o == delivery[d].order
            qty == delivery[d].qty
            del == [l \in Lines |-> delivered[l] - qty[l]]
            back == [g \in Gates |-> IF Shipped(d, g) = 0 THEN level[g]
                                     ELSE Received(level[g], Shipped(d, g), cost)]
            wanted(g) == IF order[o] \in Fulfilling THEN Shipped(d, g) ELSE 0
        IN  /\ \A l \in Lines : take[l] <= qty[l]
            /\ \A g \in Gates : Sum(take, Stocked(o, g)) = Grant(back[g], wanted(g))
            /\ \A k, l \in Lines :
                 GateOf[k] = GateOf[l] /\ take[k] \in 1..(qty[k] - 1) /\ take[l] \in 1..(qty[l] - 1) => k = l
            /\ level' = [g \in Gates |-> reserve_up_to(back[g], wanted(g))]
            /\ delivered' = del
            /\ reserved' = [l \in Lines |-> reserved[l] + take[l]]
            /\ order' = [order EXCEPT ![o] = recompute_status(o, del)]
    /\ delivery' = [delivery EXCEPT ![d].status = "reversed"]
    /\ UNCHANGED billed

----------------------------------------------------------------------------
(* Billing and the other users of the same levels.                         *)

\* A posted invoice bills what was delivered and not billed yet; cancelling it
\* gives the quantity back.
bill(l, q) ==
    /\ q > 0 /\ billed[l] + q <= delivered[l]
    /\ billed' = [billed EXCEPT ![l] = @ + q]
    /\ UNCHANGED << order, reserved, delivered, level, delivery >>

unbill(l, q) ==
    /\ q > 0 /\ q <= billed[l]
    /\ billed' = [billed EXCEPT ![l] = @ - q]
    /\ UNCHANGED << order, reserved, delivered, level, delivery >>

\* Goods receipts, stock movements and till sales move the same levels.
receive_stock(g, q, cost) ==
    /\ CanReceive(level[g], q, cost)
    /\ level[g].on_hand + q <= MaxStock
    /\ level' = [level EXCEPT ![g] = Received(@, q, cost)]
    /\ UNCHANGED << order, counters, delivery >>

issue_stock(g, q) ==
    /\ CanIssue(level[g], q, 0)
    /\ level' = [level EXCEPT ![g] = Issued(@, q, 0)]
    /\ UNCHANGED << order, counters, delivery >>

Next ==
    \/ \E o \in Orders : confirm(o) \/ reserve_more(o) \/ cancel(o) \/ close(o)
    \/ \E d \in Deliveries, o \in Orders, qty \in [Lines -> Qtys] : create_draft(d, o, qty)
    \/ \E d \in Deliveries, qty \in [Lines -> Qtys] : update_draft(d, qty)
    \/ \E d \in Deliveries : delete_draft(d) \/ post(d) \/ reverse(d)
    \/ \E l \in Lines, q \in Qtys : bill(l, q) \/ unbill(l, q)
    \/ \E g \in Gates, q \in Qtys, c \in Costs : receive_stock(g, q, c)
    \/ \E g \in Gates, q \in Qtys : issue_stock(g, q)

Spec == Init /\ [][Next]_vars

----------------------------------------------------------------------------

\* What a level holds reserved is exactly what open order lines believe they
\* hold: no cancel, close, partial grant, delivery or reversal leaks or
\* forgets a unit ("the grant can never promise the same stock twice").
ReservationsBacked == \A g \in Gates : level[g].reserved = Sum(reserved, AtGate(g))

\* A line never holds or ships more than was ordered, and never bills more
\* than it shipped: "billed goods cannot be silently un-delivered".
LineBounds ==
    \A l \in Lines :
        /\ reserved[l] + delivered[l] <= Ordered[l]
        /\ billed[l] <= delivered[l]

\* Only an order that can still ship holds stock.
OnlyOpenOrdersHold ==
    \A l \in Lines : reserved[l] > 0 => order[OrderOf[l]] \in Deliverable

\* The delivered counter is the sum of the posted deliveries, so a reversal
\* takes back exactly what its delivery shipped.
DeliveredIsPosted ==
    \A l \in Lines :
        delivered[l] = Sum([d \in Deliveries |-> delivery[d].qty[l]],
                           { d \in Deliveries : delivery[d].status = "posted" })

\* The status of an open order says what its lines say, also after reversals:
\* completed when everything has shipped, untouched when nothing has.
StatusFollowsLines ==
    \A o \in Orders :
        order[o] \in Fulfilling =>
            /\ order[o] = "delivered" <=> \A l \in LinesOf(o) : delivered[l] = Ordered[l]
            /\ order[o] = "confirmed" <=> \A l \in LinesOf(o) : delivered[l] = 0

\* A reservation is honoured: a drafted delivery that ships no more than its
\* lines hold reserved is never refused for lack of stock.
ReservationHonoured ==
    \A d \in Deliveries :
        /\ delivery[d].status = "draft"
        /\ \A l \in Lines : delivery[d].qty[l] <= reserved[l]
        => StillOpen(d) /\ CanShip(d)

\* What was reserved can be shipped by the order that holds it, what the lines
\* delivered is what posted deliveries carry, and statuses follow the lines.
PromisesKept == ReservationHonoured /\ DeliveredIsPosted /\ StatusFollowsLines

=============================================================================
