----------------------- MODULE SalesFulfilmentProofs -----------------------
(* What SalesFulfilment guarantees for every number of orders, lines, levels *)
(* and deliveries: levels stay sound, what they hold reserved is what the    *)
(* lines of open orders hold, and lines never ship or bill too much.  And    *)
(* what the till guarantees for every number of sessions, keys and orders:   *)
(* keys sell once, sessions are consolidated once and, of requests that do   *)
(* not overlap, refunds fit sales and books fit sessions; and the money of a *)
(* session ties, for every basket, price, split and number of receipts.      *)
EXTENDS SalesFulfilment, MCPosTill, Sequences, StockProofs

(* Orders and deliveries.                                                  *)

LevelsSound == \A g \in Gates : SoundLevel(level[g])

ServicesHoldNothing == \A l \in Services : reserved[l] = 0

\* The counters of the lines of a draft order are at zero.
DraftsUntouched == \A l \in Lines : order[OrderOf[l]] = "draft" => delivered[l] = 0

\* A delivery ships lines of its order only, and has shipped no services.
DeliveriesOwn ==
    \A d \in Deliveries, l \in Lines :
        delivery[d].status # "none" /\ delivery[d].qty[l] > 0 =>
            /\ OrderOf[l] = delivery[d].order
            /\ delivery[d].status # "draft" => l \notin Services

FulfilInv ==
    /\ LevelsSound /\ ReservationsBacked
    /\ LineBounds /\ OnlyOpenOrdersHold
    /\ ServicesHoldNothing /\ DraftsUntouched /\ DeliveriesOwn

----------------------------------------------------------------------------
(* Sums over the lines of a level.                                         *)

LEMMA LinesFinite ==
    ASSUME NEW g \in Gates, NEW o \in Orders
    PROVE  /\ IsFiniteSet(AtGate(g)) /\ IsFiniteSet(Stocked(o, g))
           /\ AtGate(g) \subseteq Lines /\ Stocked(o, g) \subseteq AtGate(g)
<1>1. AtGate(g) \subseteq Lines /\ Stocked(o, g) \subseteq AtGate(g)
  BY DEF AtGate, Stocked, LinesOf
<1>2. IsFiniteSet(Lines)
  BY FulfilmentAssumption DEF FulfilmentAssumption
<1> QED BY <1>1, <1>2, FS_Subset

\* When every line of an order changes by what it takes, and no other line
\* does, each level changes by what its lines of the order take.
LEMMA SumTaken ==
    ASSUME NEW g \in Gates, NEW o \in Orders,
           NEW f \in [Lines -> Qtys], NEW take \in [Lines -> Qtys], NEW h \in [Lines -> Qtys],
           \A l \in Lines : h[l] = f[l] + take[l],
           \A l \in Lines : take[l] > 0 => l \in LinesOf(o) \ Services
    PROVE  Sum(h, AtGate(g)) = Sum(f, AtGate(g)) + Sum(take, Stocked(o, g))
<1>1. \A l \in AtGate(g) : /\ f[l] \in Nat /\ take[l] \in Nat
                           /\ h[l] = f[l] + take[l] /\ h[l] <= MaxQty
  BY LinesFinite, MaxQtyAssumption DEF Qtys
<1>2. Sum(h, AtGate(g)) = Sum(f, AtGate(g)) + Sum(take, AtGate(g))
  BY <1>1, LinesFinite, SumAdd
<1>3. \A l \in AtGate(g) \ Stocked(o, g) : take[l] = 0
  <2>1. SUFFICES ASSUME NEW l \in AtGate(g), take[l] # 0 PROVE l \in Stocked(o, g)
    OBVIOUS
  <2>2. l \in Lines /\ take[l] > 0
    BY <1>1, <2>1, LinesFinite
  <2> QED BY <2>1, <2>2 DEF AtGate, Stocked
<1>4. Sum(take, AtGate(g)) = Sum(take, Stocked(o, g))
  BY <1>3, LinesFinite, SumSupport
<1> QED BY <1>2, <1>4

LEMMA SumsAreNat ==
    ASSUME NEW g \in Gates, NEW o \in Orders, NEW f
    PROVE  Sum(f, AtGate(g)) \in Nat /\ Sum(f, Stocked(o, g)) \in Nat
BY LinesFinite, SumType

----------------------------------------------------------------------------
(* What reserving and releasing do to the lines and the levels together.   *)

\* The levels and the reserved counters have changed together.
Balanced ==
    /\ reserved \in [Lines -> Qtys] /\ level \in [Gates -> Level]
    /\ LevelsSound /\ ReservationsBacked /\ ServicesHoldNothing

\* An order whose lines can take what they want reserves up to that.
LEMMA ReserveStep ==
    ASSUME TypeOK, FulfilInv, NEW o \in Orders, NEW want \in [Lines -> Qtys],
           \A l \in Lines : want[l] > 0 => l \in LinesOf(o) \ Services,
           \A l \in Lines : reserved[l] + want[l] <= Ordered[l],
           Reserve(o, want)
    PROVE  /\ Balanced'
           /\ \A l \in Lines :
                 /\ reserved'[l] \in reserved[l]..(reserved[l] + want[l])
<1>1. PICK take \in [Lines -> Qtys] :
          /\ Shared(o, want, take)
          /\ reserved' = [l \in Lines |-> reserved[l] + take[l]]
          /\ level' = [g \in Gates |-> reserve_up_to(level[g], Sum(want, Stocked(o, g)))]
  BY DEF Reserve
<1>2. \A l \in Lines : /\ reserved[l] \in Nat /\ take[l] \in Nat /\ want[l] \in Nat
                       /\ take[l] <= want[l] /\ Ordered[l] \in Nat /\ Ordered[l] <= MaxQty
  BY <1>1, FulfilmentAssumption, MaxQtyAssumption
     DEF Shared, TypeOK, Qtys, FulfilmentAssumption
<1>3. \A l \in Lines : /\ reserved'[l] \in reserved[l]..(reserved[l] + want[l])
                       /\ reserved'[l] \in Qtys
  BY <1>1, <1>2, MaxQtyAssumption DEF Qtys
<1>4. reserved' \in [Lines -> Qtys]
  BY <1>1, <1>3
<1>5. ASSUME NEW g \in Gates
      PROVE  /\ level'[g] \in Level /\ SoundLevel(level'[g])
             /\ level'[g].reserved = Sum(reserved', AtGate(g))
  <2> DEFINE wanted == Sum(want, Stocked(o, g))
             taken == Sum(take, Stocked(o, g))
  <2>1. wanted \in Int
    BY SumsAreNat
  <2>2. level[g] \in Level /\ SoundLevel(level[g])
    BY DEF TypeOK, FulfilInv, LevelsSound
  <2>3. level'[g] = reserve_up_to(level[g], wanted)
    BY <1>1
  <2>4. level'[g] \in Level /\ SoundLevel(level'[g]) /\ Grant(level[g], wanted) \in Nat
    BY <2>1, <2>2, <2>3, ReserveKeepsSound
  <2>5. taken = Grant(level[g], wanted)
    BY <1>1 DEF Shared
  <2>6. \A l \in Lines : take[l] > 0 => l \in LinesOf(o) \ Services
    BY <1>2
  <2>7. \A l \in Lines : reserved'[l] = reserved[l] + take[l]
    BY <1>1
  <2>8. Sum(reserved', AtGate(g)) = Sum(reserved, AtGate(g)) + taken
    <3>1. reserved \in [Lines -> Qtys]
      BY DEF TypeOK
    <3> QED BY <1>4, <2>6, <2>7, <3>1, SumTaken
  <2>9. level'[g].reserved = level[g].reserved + Grant(level[g], wanted)
    BY <2>2, <2>3 DEF reserve_up_to, Level
  <2> QED BY <2>4, <2>5, <2>8, <2>9 DEF FulfilInv, ReservationsBacked
<1>6. ServicesHoldNothing'
  <2>1. ASSUME NEW l \in Services PROVE reserved'[l] = 0
    <3>1. l \in Lines /\ reserved[l] = 0 /\ want[l] = 0
      BY <1>2, FulfilmentAssumption DEF FulfilInv, ServicesHoldNothing, FulfilmentAssumption
    <3> QED BY <1>3, <3>1
  <2> QED BY <2>1 DEF ServicesHoldNothing
<1>7. level' \in [Gates -> Level]
  BY <1>1, <1>5
<1> QED BY <1>3, <1>4, <1>5, <1>6, <1>7 DEF Balanced, LevelsSound, ReservationsBacked

\* Releasing an order empties its lines and gives the same back to the levels.
LEMMA ReleaseStep ==
    ASSUME TypeOK, FulfilInv, NEW o \in Orders, release_reservations(o)
    PROVE  /\ Balanced'
           /\ \A l \in Lines : reserved'[l] = IF OrderOf[l] = o THEN 0 ELSE reserved[l]
<1> DEFINE take == [l \in Lines |-> IF OrderOf[l] = o THEN reserved[l] ELSE 0]
<1>1. \A l \in Lines : reserved'[l] = IF OrderOf[l] = o THEN 0 ELSE reserved[l]
  BY DEF release_reservations
<1>2. \A l \in Lines : reserved[l] \in Qtys /\ 0 \in Qtys /\ reserved[l] \in Nat
  BY MaxQtyAssumption DEF TypeOK, Qtys
<1>3. reserved' \in [Lines -> Qtys] /\ take \in [Lines -> Qtys]
  BY <1>2 DEF release_reservations
<1>4. \A l \in Lines : /\ reserved[l] = reserved'[l] + take[l]
                       /\ take[l] > 0 => l \in LinesOf(o) \ Services
  <2>1. ASSUME NEW l \in Lines PROVE reserved[l] = reserved'[l] + take[l]
    BY <1>1, <1>2
  <2>2. ASSUME NEW l \in Lines, take[l] > 0 PROVE l \in LinesOf(o) \ Services
    BY <2>2 DEF FulfilInv, ServicesHoldNothing, LinesOf
  <2> QED BY <2>1, <2>2
<1>5. ASSUME NEW g \in Gates
      PROVE  /\ level'[g] \in Level /\ SoundLevel(level'[g])
             /\ level'[g].reserved = Sum(reserved', AtGate(g))
  <2> DEFINE held == Sum(reserved, Stocked(o, g))
  <2>1. level[g] \in Level /\ SoundLevel(level[g])
    BY DEF TypeOK, FulfilInv, LevelsSound
  <2>2. level'[g] = release_reserved(level[g], held)
    BY DEF release_reservations
  <2>3. held \in Nat /\ Sum(reserved', AtGate(g)) \in Nat
    BY SumsAreNat
  <2>4. level'[g] \in Level /\ SoundLevel(level'[g])
    <3>1. held \in Int
      BY <2>3
    <3> QED BY <2>1, <2>2, <3>1, ReleaseKeepsSound
  <2>5. Sum(take, Stocked(o, g)) = held
    <3>1. \A l \in Stocked(o, g) : take[l] = reserved[l]
      BY DEF Stocked, LinesOf
    <3> HIDE DEF take
    <3> QED BY <3>1, SumSame
  <2>6. Sum(reserved, AtGate(g)) = Sum(reserved', AtGate(g)) + held
    <3>1. reserved \in [Lines -> Qtys]
      BY DEF TypeOK
    <3> HIDE DEF take
    <3> QED BY <1>3, <1>4, <2>5, <3>1, SumTaken
  <2>7. level[g].reserved = Sum(reserved', AtGate(g)) + held
    BY <2>6 DEF FulfilInv, ReservationsBacked
  <2> HIDE DEF held
  <2>8. level'[g].reserved = Sum(reserved', AtGate(g))
    BY <2>1, <2>2, <2>3, <2>7 DEF release_reserved, Least, Level
  <2> QED BY <2>4, <2>8
<1>6. ServicesHoldNothing'
  BY <1>1, FulfilmentAssumption DEF FulfilInv, ServicesHoldNothing, FulfilmentAssumption
<1>7. level' \in [Gates -> Level]
  BY <1>5 DEF release_reservations
<1> QED BY <1>1, <1>3, <1>5, <1>6, <1>7 DEF Balanced, LevelsSound, ReservationsBacked

----------------------------------------------------------------------------
(* The handlers of an order.                                               *)

LEMMA ConfirmStep ==
    ASSUME TypeOK, FulfilInv, NEW o \in Orders, confirm(o)
    PROVE  TypeOK' /\ FulfilInv'
<1> DEFINE want == [l \in Lines |-> IF l \in LinesOf(o) \ Services THEN Ordered[l] ELSE 0]
<1>1. \A l \in Lines : /\ Ordered[l] \in Qtys /\ Ordered[l] \in Nat /\ 0 \in Qtys
                       /\ reserved[l] \in Nat /\ delivered[l] \in Nat
  BY FulfilmentAssumption, MaxQtyAssumption DEF FulfilmentAssumption, TypeOK, Qtys
<1>2. \A l \in LinesOf(o) : reserved[l] = 0 /\ delivered[l] = 0
  BY <1>1 DEF confirm, FulfilInv, OnlyOpenOrdersHold, DraftsUntouched, LinesOf, Deliverable
<1>3. \A l \in Lines : /\ want[l] > 0 => l \in LinesOf(o) \ Services
                       /\ reserved[l] + want[l] + delivered[l] <= Ordered[l]
  BY <1>1, <1>2 DEF FulfilInv, LineBounds
<1>4. want \in [Lines -> Qtys] /\ Reserve(o, want)
  BY <1>1 DEF confirm
<1> HIDE DEF want
<1>5. \A l \in Lines : want[l] \in Nat /\ reserved[l] + want[l] <= Ordered[l]
  BY <1>1, <1>3, <1>4, MaxQtyAssumption DEF Qtys
<1>6. /\ Balanced'
      /\ \A l \in Lines : reserved'[l] \in reserved[l]..(reserved[l] + want[l])
  BY <1>3, <1>4, <1>5, ReserveStep
<1>7. order' = [order EXCEPT ![o] = "confirmed"] /\ UNCHANGED << delivered, billed, delivery >>
  BY DEF confirm
<1>8. TypeOK'
  BY <1>6, <1>7 DEF TypeOK, Balanced, Fulfilling, Deliverable
<1>9. LineBounds'
  BY <1>1, <1>3, <1>5, <1>6, <1>7 DEF FulfilInv, LineBounds
<1>10. OnlyOpenOrdersHold'
  <2>1. SUFFICES ASSUME NEW l \in Lines, reserved'[l] > 0, OrderOf[l] # o
                 PROVE  reserved[l] > 0
    BY <1>7, FulfilmentAssumption
       DEF FulfilInv, OnlyOpenOrdersHold, Deliverable, TypeOK, FulfilmentAssumption
  <2>2. want[l] = 0
    BY <1>3, <1>5, <2>1 DEF LinesOf
  <2> QED BY <1>1, <1>6, <2>1, <2>2
<1>11. DraftsUntouched' /\ DeliveriesOwn'
  BY <1>7, FulfilmentAssumption
     DEF FulfilInv, DraftsUntouched, DeliveriesOwn, TypeOK, FulfilmentAssumption
<1> QED BY <1>6, <1>8, <1>9, <1>10, <1>11 DEF FulfilInv, Balanced

LEMMA ReserveMoreStep ==
    ASSUME TypeOK, FulfilInv, NEW o \in Orders, reserve_more(o)
    PROVE  TypeOK' /\ FulfilInv'
<1> DEFINE want == [l \in Lines |-> IF l \in LinesOf(o) \ Services
                                    THEN Greatest(Short(l), 0) ELSE 0]
<1>1. \A l \in Lines : /\ Ordered[l] \in Nat /\ Ordered[l] <= MaxQty
                       /\ reserved[l] \in Nat /\ delivered[l] \in Nat
                       /\ reserved[l] + delivered[l] <= Ordered[l]
  BY FulfilmentAssumption, MaxQtyAssumption
     DEF FulfilmentAssumption, TypeOK, Qtys, FulfilInv, LineBounds
<1>2. \A l \in Lines : /\ Greatest(Short(l), 0) \in Qtys /\ 0 \in Qtys
                       /\ Greatest(Short(l), 0) = Ordered[l] - delivered[l] - reserved[l]
  BY <1>1, MaxQtyAssumption DEF Greatest, Short, Qtys
<1>3. \A l \in Lines : /\ want[l] > 0 => l \in LinesOf(o) \ Services
                       /\ reserved[l] + want[l] + delivered[l] <= Ordered[l]
  BY <1>1, <1>2
<1>4. want \in [Lines -> Qtys] /\ Reserve(o, want)
  BY <1>2 DEF reserve_more
<1> HIDE DEF want
<1>5. \A l \in Lines : want[l] \in Nat /\ reserved[l] + want[l] <= Ordered[l]
  BY <1>1, <1>3, <1>4, MaxQtyAssumption DEF Qtys
<1>6. /\ Balanced'
      /\ \A l \in Lines : reserved'[l] \in reserved[l]..(reserved[l] + want[l])
  BY <1>3, <1>4, <1>5, ReserveStep
<1>7. order[o] \in Deliverable /\ UNCHANGED << order, delivered, billed, delivery >>
  BY DEF reserve_more
<1>8. TypeOK'
  BY <1>6, <1>7 DEF TypeOK, Balanced
<1>9. LineBounds'
  BY <1>1, <1>3, <1>5, <1>6, <1>7 DEF FulfilInv, LineBounds
<1>10. OnlyOpenOrdersHold'
  <2>1. SUFFICES ASSUME NEW l \in Lines, reserved'[l] > 0, OrderOf[l] # o
                 PROVE  reserved[l] > 0
    BY <1>7 DEF FulfilInv, OnlyOpenOrdersHold
  <2>2. want[l] = 0
    BY <1>3, <1>5, <2>1 DEF LinesOf
  <2> QED BY <1>1, <1>6, <2>1, <2>2
<1>11. DraftsUntouched' /\ DeliveriesOwn'
  BY <1>7 DEF FulfilInv, DraftsUntouched, DeliveriesOwn
<1> QED BY <1>6, <1>8, <1>9, <1>10, <1>11 DEF FulfilInv, Balanced

\* cancel and close: the order ends and gives back what it holds.
LEMMA EndStep ==
    ASSUME TypeOK, FulfilInv, NEW o \in Orders, cancel(o) \/ close(o)
    PROVE  TypeOK' /\ FulfilInv'
<1>1. PICK end \in {"cancelled", "closed"} : order' = [order EXCEPT ![o] = end]
  BY DEF cancel, close
<1>2. release_reservations(o) /\ UNCHANGED << delivered, billed, delivery >>
  BY DEF cancel, close
<1>3. /\ Balanced'
      /\ \A l \in Lines : reserved'[l] = IF OrderOf[l] = o THEN 0 ELSE reserved[l]
  BY <1>2, ReleaseStep
<1>4. \A l \in Lines : OrderOf[l] \in Orders
  BY FulfilmentAssumption DEF FulfilmentAssumption
<1>5. TypeOK'
  BY <1>1, <1>2, <1>3 DEF TypeOK, Balanced
<1>6. LineBounds'
  <2>1. \A l \in Lines : Ordered[l] \in Nat /\ reserved[l] \in Nat /\ delivered[l] \in Nat
    BY FulfilmentAssumption, MaxQtyAssumption DEF TypeOK, Qtys, FulfilmentAssumption
  <2> QED BY <1>2, <1>3, <2>1 DEF FulfilInv, LineBounds
<1>7. OnlyOpenOrdersHold'
  BY <1>1, <1>3, <1>4 DEF FulfilInv, OnlyOpenOrdersHold, TypeOK
<1>8. DraftsUntouched' /\ DeliveriesOwn'
  BY <1>1, <1>2, <1>4 DEF FulfilInv, DraftsUntouched, DeliveriesOwn, TypeOK
<1> QED BY <1>3, <1>5, <1>6, <1>7, <1>8 DEF FulfilInv, Balanced

----------------------------------------------------------------------------
(* The handlers of a delivery.                                             *)

LEMMA DeliveryShape ==
    ASSUME TypeOK, NEW d \in Deliveries, delivery[d].status # "none"
    PROVE  /\ delivery[d].order \in Orders /\ delivery[d].qty \in [Lines -> Qtys]
           /\ delivery[d].status \in {"draft", "posted", "reversed"}
           /\ delivery[d] = [status |-> delivery[d].status, order |-> delivery[d].order,
                             qty |-> delivery[d].qty]
<1>1. delivery[d] \in DeliveryDocs
  BY DEF TypeOK, NoDelivery
<1> QED BY <1>1 DEF DeliveryDocs

\* A delivery takes another status and changes in nothing else.
LEMMA StatusStep ==
    ASSUME TypeOK, FulfilInv, NEW d \in Deliveries, delivery[d].status # "none",
           NEW s \in {"posted", "reversed"},
           delivery' = [delivery EXCEPT ![d].status = s],
           \A l \in Lines : delivery[d].qty[l] > 0 => l \notin Services
    PROVE  delivery' \in [Deliveries -> DeliveryDocs \cup {NoDelivery}] /\ DeliveriesOwn'
<1> DEFINE o == delivery[d].order
           qty == delivery[d].qty
           x == [status |-> s, order |-> o, qty |-> qty]
<1>1. o \in Orders /\ qty \in [Lines -> Qtys]
  BY DeliveryShape
<1>2. [delivery[d] EXCEPT !.status = s] = x
  <2>1. delivery[d] = [status |-> delivery[d].status, order |-> o, qty |-> qty]
    BY DeliveryShape
  <2>2. [delivery[d] EXCEPT !.status = s]
          = [[status |-> delivery[d].status, order |-> o, qty |-> qty] EXCEPT !.status = s]
    BY <2>1
  <2> QED BY <2>2
<1>3. delivery' = [delivery EXCEPT ![d] = x]
  BY <1>2
<1>4. x \in DeliveryDocs
  BY <1>1 DEF DeliveryDocs
<1>5. x.qty = qty /\ x.order = o /\ x.status \notin {"none", "draft"}
  OBVIOUS
<1> HIDE DEF x
<1>6. delivery' \in [Deliveries -> DeliveryDocs \cup {NoDelivery}]
  BY <1>3, <1>4 DEF TypeOK
<1>7. delivery'[d] = x /\ \A e \in Deliveries \ {d} : delivery'[e] = delivery[e]
  BY <1>3 DEF TypeOK
<1>8. DeliveriesOwn'
  BY <1>5, <1>7 DEF FulfilInv, DeliveriesOwn
<1> QED BY <1>6, <1>8

LEMMA DraftStep ==
    ASSUME TypeOK, FulfilInv, NEW d \in Deliveries,
           \/ \E o \in Orders, qty \in [Lines -> Qtys] : create_draft(d, o, qty)
           \/ \E qty \in [Lines -> Qtys] : update_draft(d, qty)
           \/ delete_draft(d)
    PROVE  TypeOK' /\ FulfilInv'
<1>1. UNCHANGED << order, reserved, delivered, billed, level >>
  BY DEF create_draft, update_draft, delete_draft, counters
<1>2. ASSUME NEW o \in Orders, NEW qty \in [Lines -> Qtys], ValidDelivery(o, qty),
             delivery' = [delivery EXCEPT ![d] = [status |-> "draft", order |-> o, qty |-> qty]]
      PROVE  delivery' \in [Deliveries -> DeliveryDocs \cup {NoDelivery}] /\ DeliveriesOwn'
  <2> DEFINE x == [status |-> "draft", order |-> o, qty |-> qty]
  <2>1. x \in DeliveryDocs /\ x.status = "draft" /\ x.order = o /\ x.qty = qty
    BY DEF DeliveryDocs
  <2>2. delivery' = [delivery EXCEPT ![d] = x]
    BY <1>2
  <2> HIDE DEF x
  <2>3. delivery'[d] = x /\ \A e \in Deliveries \ {d} : delivery'[e] = delivery[e]
    BY <2>2 DEF TypeOK
  <2>4. \A l \in Lines : qty[l] > 0 => OrderOf[l] = o
    BY <1>2 DEF ValidDelivery
  <2>5. DeliveriesOwn'
    BY <2>1, <2>3, <2>4 DEF FulfilInv, DeliveriesOwn
  <2> QED BY <2>1, <2>2, <2>5 DEF TypeOK
<1>3. delivery' \in [Deliveries -> DeliveryDocs \cup {NoDelivery}] /\ DeliveriesOwn'
  <2>1. ASSUME NEW o \in Orders, NEW qty \in [Lines -> Qtys], create_draft(d, o, qty)
        PROVE  delivery' \in [Deliveries -> DeliveryDocs \cup {NoDelivery}] /\ DeliveriesOwn'
    BY <1>2, <2>1 DEF create_draft
  <2>2. ASSUME NEW qty \in [Lines -> Qtys], update_draft(d, qty)
        PROVE  delivery' \in [Deliveries -> DeliveryDocs \cup {NoDelivery}] /\ DeliveriesOwn'
    <3> DEFINE o == delivery[d].order
    <3>1. delivery[d].status = "draft" /\ ValidDelivery(o, qty)
      BY <2>2 DEF update_draft
    <3>2. o \in Orders
      BY <3>1, DeliveryShape
    <3>3. [delivery[d] EXCEPT !.qty = qty] = [status |-> "draft", order |-> o, qty |-> qty]
      <4>1. delivery[d] = [status |-> "draft", order |-> o, qty |-> delivery[d].qty]
        BY <3>1, DeliveryShape
      <4>2. [delivery[d] EXCEPT !.qty = qty]
              = [[status |-> "draft", order |-> o, qty |-> delivery[d].qty] EXCEPT !.qty = qty]
        BY <4>1
      <4> QED BY <4>2
    <3>4. delivery' = [delivery EXCEPT ![d] = [status |-> "draft", order |-> o, qty |-> qty]]
      BY <2>2, <3>3 DEF update_draft
    <3>5. PICK p \in Orders : p = o
      BY <3>2
    <3> QED BY <1>2, <3>1, <3>4, <3>5
  <2>3. CASE delete_draft(d)
    BY <2>3 DEF delete_draft, FulfilInv, DeliveriesOwn, TypeOK, NoDelivery
  <2> QED BY <2>1, <2>2, <2>3
<1>4. TypeOK'
  BY <1>1, <1>3 DEF TypeOK
<1>5. /\ LevelsSound' /\ ReservationsBacked' /\ LineBounds' /\ OnlyOpenOrdersHold'
      /\ ServicesHoldNothing' /\ DraftsUntouched'
  BY <1>1 DEF FulfilInv, LevelsSound, ReservationsBacked, LineBounds, OnlyOpenOrdersHold,
     ServicesHoldNothing, DraftsUntouched
<1> QED BY <1>3, <1>4, <1>5 DEF FulfilInv

\* What a delivery ships of each line, and what bounds it.
LEMMA LinesTyped ==
    ASSUME TypeOK, FulfilInv, NEW l \in Lines
    PROVE  /\ Ordered[l] \in Nat /\ Ordered[l] <= MaxQty /\ MaxQty \in Nat
           /\ reserved[l] \in Nat /\ delivered[l] \in Nat /\ billed[l] \in Nat
           /\ reserved[l] + delivered[l] <= Ordered[l] /\ billed[l] <= delivered[l]
           /\ OrderOf[l] \in Orders /\ GateOf[l] \in Gates
BY FulfilmentAssumption, MaxQtyAssumption
   DEF FulfilmentAssumption, TypeOK, Qtys, FulfilInv, LineBounds

\* The status an order gets once its lines have shipped del.
LEMMA StatusType ==
    ASSUME TypeOK, NEW o \in Orders, NEW del \in [Lines -> Qtys]
    PROVE  /\ recompute_status(o, del) \in Fulfilling \cup {"draft", "closed", "cancelled"}
           /\ recompute_status(o, del) = "draft" <=> order[o] = "draft"
           /\ recompute_status(o, del) = "delivered" =>
                  order[o] \in Fulfilling /\ \A l \in LinesOf(o) : del[l] >= Ordered[l]
           /\ recompute_status(o, del) \in Deliverable \cup {"delivered"} <=> order[o] \in Fulfilling
BY DEF recompute_status, Fulfilling, Deliverable, TypeOK

\* Posting ships each line out of its reservation first, and the levels out of
\* what their lines had reserved and out of free stock.
LEMMA PostStep ==
    ASSUME TypeOK, FulfilInv, NEW d \in Deliveries, post(d)
    PROVE  TypeOK' /\ FulfilInv'
<1> DEFINE o == delivery[d].order
           qty == delivery[d].qty
           take == Covered(d)
<1>1. delivery[d].status = "draft" /\ StillOpen(d) /\ CanShip(d)
  BY DEF post
<1>2. o \in Orders /\ qty \in [Lines -> Qtys]
  BY <1>1, DeliveryShape
<1>3. order[o] \in Deliverable
  BY <1>1 DEF StillOpen
<1>4. \A l \in Lines : /\ qty[l] \in Nat /\ delivered[l] + qty[l] <= Ordered[l]
                       /\ qty[l] > 0 => l \in LinesOf(o) \ Services
  <2>1. ASSUME NEW l \in Lines, qty[l] > 0 PROVE l \in LinesOf(o) \ Services
    <3>1. OrderOf[l] = o
      BY <1>1, <2>1 DEF FulfilInv, DeliveriesOwn
    <3>2. l \notin Services
      BY <1>1, <2>1 DEF CanShip
    <3> QED BY <3>1, <3>2 DEF LinesOf
  <2>2. \A l \in Lines : qty[l] \in Nat
    BY <1>2 DEF Qtys
  <2> QED BY <1>1, <2>1, <2>2 DEF StillOpen
<1>5. \A l \in Lines : /\ take[l] \in Nat /\ take[l] <= qty[l] /\ take[l] <= reserved[l]
                       /\ reserved[l] - take[l] + delivered[l] + qty[l] <= Ordered[l]
  BY <1>4, LinesTyped DEF Covered, Least
<1>6. take \in [Lines -> Qtys]
  BY <1>5, LinesTyped DEF Covered, Qtys
<1> HIDE DEF take
<1>7. /\ delivered' = [l \in Lines |-> delivered[l] + qty[l]]
      /\ reserved' = [l \in Lines |-> reserved[l] - take[l]]
      /\ order' = [order EXCEPT ![o] = recompute_status(o, delivered')]
      /\ delivery' = [delivery EXCEPT ![d].status = "posted"]
      /\ billed' = billed
  BY DEF post, Delivering, take
<1> HIDE DEF o, qty
<1>8. \A l \in Lines : delivered'[l] \in Qtys /\ reserved'[l] \in Qtys
  BY <1>4, <1>5, <1>7, LinesTyped DEF Qtys
<1>9. delivered' \in [Lines -> Qtys] /\ reserved' \in [Lines -> Qtys]
  BY <1>7, <1>8
<1>10. ASSUME NEW g \in Gates
       PROVE  /\ level'[g] \in Level /\ SoundLevel(level'[g])
              /\ level'[g].reserved = Sum(reserved', AtGate(g))
  <2> DEFINE out == Shipped(d, g)
             held == CoveredAt(d, g)
  <2>1. level[g] \in Level /\ SoundLevel(level[g])
    BY DEF TypeOK, FulfilInv, LevelsSound
  <2>2. level'[g] = IF out = 0 THEN level[g] ELSE Issued(level[g], out, held)
    BY DEF post
  <2>3. /\ out = Sum(qty, Stocked(o, g)) /\ held = Sum(take, Stocked(o, g))
        /\ out \in Nat /\ held \in Nat
    BY <1>2, SumsAreNat DEF Shipped, CoveredAt, o, qty, take
  <2>4. held <= out
    <3>1. \A l \in Stocked(o, g) : take[l] \in Nat /\ qty[l] \in Nat /\ take[l] <= qty[l]
      BY <1>2, <1>4, <1>5, LinesFinite
    <3>2. IsFiniteSet(Stocked(o, g))
      BY <1>2, LinesFinite
    <3> QED BY <2>3, <3>1, <3>2, SumMonotone
  <2>5. Sum(reserved, AtGate(g)) = Sum(reserved', AtGate(g)) + held
    <3>1. \A l \in Lines : /\ reserved[l] = reserved'[l] + take[l]
                           /\ take[l] > 0 => l \in LinesOf(o) \ Services
      BY <1>4, <1>5, <1>7, LinesTyped
    <3>2. reserved \in [Lines -> Qtys]
      BY DEF TypeOK
    <3>3. Sum(reserved, AtGate(g)) = Sum(reserved', AtGate(g)) + Sum(take, Stocked(o, g))
      BY <1>2, <1>6, <1>9, <3>1, <3>2, SumTaken
    <3> QED BY <2>3, <3>3
  <2>6. level[g].reserved = Sum(reserved', AtGate(g)) + held
        /\ Sum(reserved', AtGate(g)) \in Nat
    BY <1>2, <2>5, SumsAreNat DEF FulfilInv, ReservationsBacked
  <2>7. out > 0 => CanIssue(level[g], out, held)
    BY <1>1 DEF CanShip
  <2> HIDE DEF out, held
  <2>8. CASE out = 0
    BY <2>1, <2>2, <2>3, <2>4, <2>6, <2>8
  <2>9. CASE out # 0
    <3>1. CanIssue(level[g], out, held) /\ level'[g] = Issued(level[g], out, held)
      BY <2>2, <2>3, <2>7, <2>9
    <3>2. level'[g] \in Level /\ SoundLevel(level'[g])
      BY <2>1, <2>3, <3>1, IssueKeepsSound
    <3>3. level'[g].reserved = level[g].reserved - held
      BY <2>1, <3>1 DEF Issued, Level
    <3> QED BY <2>3, <2>6, <3>2, <3>3
  <2> QED BY <2>8, <2>9
<1>11. level' \in [Gates -> Level]
  <2>1. level' = [g \in Gates |-> level'[g]]
    BY DEF post
  <2> QED BY <1>10, <2>1
<1>12. recompute_status(o, delivered') \in Fulfilling \cup {"draft", "closed", "cancelled"}
  BY <1>2, <1>9, StatusType
<1>13. TypeOK' /\ DeliveriesOwn'
  <2>1. delivery' \in [Deliveries -> DeliveryDocs \cup {NoDelivery}] /\ DeliveriesOwn'
    BY <1>1, <1>4, <1>7, StatusStep DEF qty
  <2> QED BY <1>2, <1>7, <1>9, <1>11, <1>12, <2>1 DEF TypeOK
<1>14. LineBounds'
  BY <1>4, <1>5, <1>7, LinesTyped DEF LineBounds
<1>15. OnlyOpenOrdersHold'
  <2>1. SUFFICES ASSUME NEW l \in Lines, reserved'[l] > 0
                 PROVE  order'[OrderOf[l]] \in Deliverable
    BY DEF OnlyOpenOrdersHold
  <2>2. reserved[l] > 0 /\ order[OrderOf[l]] \in Deliverable
    BY <1>5, <1>7, <2>1, LinesTyped DEF FulfilInv, OnlyOpenOrdersHold
  <2>3. CASE OrderOf[l] # o
    BY <1>2, <1>7, <2>2, <2>3, LinesTyped DEF TypeOK
  <2>4. CASE OrderOf[l] = o
    <3>1. order'[o] = recompute_status(o, delivered')
      BY <1>2, <1>7 DEF TypeOK
    <3>2. delivered'[l] < Ordered[l]
      BY <1>4, <1>5, <1>7, <2>1, LinesTyped
    <3>3. recompute_status(o, delivered') # "delivered"
      <4>1. l \in LinesOf(o) /\ delivered'[l] \in Nat
        BY <1>8, <2>4 DEF LinesOf, Qtys
      <4> QED BY <1>2, <1>9, <3>2, <4>1, StatusType, LinesTyped
    <3> QED BY <1>2, <1>3, <1>9, <2>4, <3>1, <3>3, StatusType DEF Fulfilling
  <2> QED BY <2>3, <2>4
<1>16. DraftsUntouched'
  <2>1. SUFFICES ASSUME NEW l \in Lines, order'[OrderOf[l]] = "draft"
                 PROVE  delivered'[l] = 0
    BY DEF DraftsUntouched
  <2>2. order'[o] # "draft"
    BY <1>2, <1>3, <1>7, <1>9, StatusType DEF TypeOK, Deliverable
  <2>3. OrderOf[l] # o /\ order[OrderOf[l]] = "draft"
    BY <1>2, <1>7, <2>1, <2>2, LinesTyped DEF TypeOK
  <2>4. delivered[l] = 0 /\ qty[l] = 0
    BY <1>4, <2>3 DEF FulfilInv, DraftsUntouched, LinesOf
  <2> QED BY <1>7, <2>4
<1>17. ServicesHoldNothing'
  <2>1. ASSUME NEW l \in Services PROVE reserved'[l] = 0
    <3>1. l \in Lines /\ reserved[l] = 0
      BY FulfilmentAssumption DEF FulfilInv, ServicesHoldNothing, FulfilmentAssumption
    <3> QED BY <1>5, <1>7, <3>1
  <2> QED BY <2>1 DEF ServicesHoldNothing
<1> QED BY <1>10, <1>13, <1>14, <1>15, <1>16, <1>17
        DEF FulfilInv, LevelsSound, ReservationsBacked

\* A reversal brings the goods back to their levels, and an order that is
\* still open, or was just completed, reserves what free stock allows of them.
LEMMA ReverseStep ==
    ASSUME TypeOK, FulfilInv, NEW d \in Deliveries, reverse(d)
    PROVE  TypeOK' /\ FulfilInv'
<1> DEFINE o == delivery[d].order
           qty == delivery[d].qty
           back(cost) == [g \in Gates |-> IF Shipped(d, g) = 0 THEN level[g]
                                          ELSE Received(level[g], Shipped(d, g), cost)]
           wanted(g) == IF order[o] \in Fulfilling THEN Shipped(d, g) ELSE 0
<1>1. delivery[d].status = "posted" /\ Unbilled(d)
  BY DEF reverse
<1>2. o \in Orders /\ qty \in [Lines -> Qtys]
  BY <1>1, DeliveryShape
<1>3. PICK cost \in Costs, take \in [Lines -> Qtys] :
          /\ \A l \in Lines : take[l] <= qty[l]
          /\ \A g \in Gates : Sum(take, Stocked(o, g)) = Grant(back(cost)[g], wanted(g))
          /\ level' = [g \in Gates |-> reserve_up_to(back(cost)[g], wanted(g))]
          /\ delivered' = [l \in Lines |-> delivered[l] - qty[l]]
          /\ reserved' = [l \in Lines |-> reserved[l] + take[l]]
          /\ order' = [order EXCEPT ![o] = recompute_status(o, delivered')]
  BY DEF reverse
<1>4. delivery' = [delivery EXCEPT ![d].status = "reversed"] /\ billed' = billed
  BY DEF reverse
<1>5. \A l \in Lines : /\ qty[l] \in Nat /\ take[l] \in Nat /\ take[l] <= qty[l]
                       /\ qty[l] > 0 => l \in LinesOf(o) \ Services
                       /\ qty[l] > 0 => billed[l] <= delivered[l] - qty[l]
  <2>1. ASSUME NEW l \in Lines, qty[l] > 0
        PROVE  l \in LinesOf(o) \ Services /\ billed[l] <= delivered[l] - qty[l]
    BY <1>1, <2>1 DEF FulfilInv, DeliveriesOwn, LinesOf, Unbilled
  <2> QED BY <1>2, <1>3, <2>1 DEF Qtys
<1> HIDE DEF qty
<1>6. \A l \in Lines : /\ delivered'[l] = delivered[l] - qty[l]
                       /\ reserved'[l] = reserved[l] + take[l]
                       /\ delivered'[l] \in Nat /\ reserved'[l] \in Nat
                       /\ reserved'[l] + delivered'[l] <= Ordered[l]
                       /\ billed[l] <= delivered'[l]
  <2> SUFFICES ASSUME NEW l \in Lines
               PROVE  /\ delivered[l] - qty[l] \in Nat /\ reserved[l] + take[l] \in Nat
                      /\ reserved[l] + take[l] + delivered[l] - qty[l] <= Ordered[l]
                      /\ billed[l] <= delivered[l] - qty[l]
    BY <1>3, LinesTyped
  <2>1. CASE qty[l] = 0
    BY <1>5, <2>1, LinesTyped
  <2>2. CASE qty[l] > 0
    BY <1>5, <2>2, LinesTyped
  <2> QED BY <1>5, <2>1, <2>2
<1>7. delivered' \in [Lines -> Qtys] /\ reserved' \in [Lines -> Qtys]
  <2>1. \A l \in Lines : delivered'[l] \in Qtys /\ reserved'[l] \in Qtys
    BY <1>6, LinesTyped DEF Qtys
  <2> QED BY <1>3, <2>1
<1>8. \A l \in Lines : take[l] > 0 => l \in LinesOf(o) \ Services
  BY <1>5
<1> HIDE DEF o
<1>9. ASSUME NEW g \in Gates
      PROVE  /\ level'[g] \in Level /\ SoundLevel(level'[g])
             /\ level'[g].reserved = Sum(reserved', AtGate(g))
  <2> DEFINE came == Shipped(d, g)
             l0 == back(cost)[g]
             w == wanted(g)
  <2>1. level[g] \in Level /\ SoundLevel(level[g])
    BY DEF TypeOK, FulfilInv, LevelsSound
  <2>2. came \in Nat /\ cost \in Nat
    BY <1>2, SumsAreNat, FulfilmentAssumption DEF Shipped, o, FulfilmentAssumption
  <2>3. l0 = IF came = 0 THEN level[g] ELSE Received(level[g], came, cost)
    OBVIOUS
  <2>4. w \in Int /\ level'[g] = reserve_up_to(l0, w) /\ Sum(take, Stocked(o, g)) = Grant(l0, w)
    BY <1>3, <2>2
  <2> HIDE DEF came, l0, w
  <2>5. l0 \in Level /\ SoundLevel(l0) /\ l0.reserved = level[g].reserved
    <3>1. CASE came = 0
      BY <2>1, <2>3, <3>1
    <3>2. CASE came # 0
      <4>1. CanReceive(level[g], came, cost)
        BY <2>2, <3>2 DEF CanReceive
      <4>2. l0 = Received(level[g], came, cost) /\ l0 \in Level /\ SoundLevel(l0)
        BY <2>1, <2>2, <2>3, <3>2, <4>1, ReceiptKeepsSound
      <4> QED BY <2>1, <4>2 DEF Received, Level
    <3> QED BY <3>1, <3>2
  <2>6. level'[g] \in Level /\ SoundLevel(level'[g])
    BY <2>4, <2>5, ReserveKeepsSound
  <2>7. level'[g].reserved = level[g].reserved + Grant(l0, w)
    BY <2>4, <2>5 DEF reserve_up_to, Level
  <2>8. Sum(reserved', AtGate(g)) = Sum(reserved, AtGate(g)) + Sum(take, Stocked(o, g))
    <3>1. reserved \in [Lines -> Qtys]
      BY DEF TypeOK
    <3> QED BY <1>2, <1>6, <1>7, <1>8, <3>1, SumTaken
  <2> QED BY <2>4, <2>6, <2>7, <2>8 DEF FulfilInv, ReservationsBacked
<1>10. level' \in [Gates -> Level]
  BY <1>3, <1>9
<1>11. recompute_status(o, delivered') \in Fulfilling \cup {"draft", "closed", "cancelled"}
  BY <1>2, <1>7, StatusType
<1>12. TypeOK' /\ DeliveriesOwn'
  <2>1. delivery' \in [Deliveries -> DeliveryDocs \cup {NoDelivery}] /\ DeliveriesOwn'
    BY <1>1, <1>4, <1>5, StatusStep DEF qty
  <2> QED BY <1>2, <1>3, <1>4, <1>7, <1>10, <1>11, <2>1 DEF TypeOK
<1>13. LineBounds'
  BY <1>4, <1>6 DEF LineBounds
<1>14. order'[o] = recompute_status(o, delivered')
       /\ \A p \in Orders \ {o} : order'[p] = order[p]
  BY <1>2, <1>3 DEF TypeOK
<1>15. OnlyOpenOrdersHold'
  <2>1. SUFFICES ASSUME NEW l \in Lines, reserved'[l] > 0
                 PROVE  order'[OrderOf[l]] \in Deliverable
    BY DEF OnlyOpenOrdersHold
  <2>2. CASE OrderOf[l] # o
    <3>1. take[l] = 0
      BY <1>5, <1>8, <2>2 DEF LinesOf
    <3>2. reserved[l] > 0
      BY <1>6, <2>1, <3>1, LinesTyped
    <3> QED BY <1>14, <2>2, <3>2, LinesTyped DEF FulfilInv, OnlyOpenOrdersHold
  <2>3. CASE OrderOf[l] = o
    <3>1. order[o] \in Fulfilling
      <4>1. SUFFICES ASSUME order[o] \notin Fulfilling, take[l] > 0 PROVE FALSE
        <5>1. CASE take[l] = 0
          BY <1>6, <2>1, <2>3, <5>1, LinesTyped DEF FulfilInv, OnlyOpenOrdersHold, Fulfilling
        <5>2. CASE take[l] # 0
          BY <1>5, <4>1, <5>2
        <5> QED BY <5>1, <5>2
      <4>2. PICK g \in Gates : g = GateOf[l]
        BY LinesTyped
      <4>3. l \in Stocked(o, g)
        BY <1>8, <4>1, <4>2 DEF Stocked
      <4>4. Sum(take, Stocked(o, g)) = 0
        <5>1. Sum(take, Stocked(o, g)) = Grant(back(cost)[g], 0)
          BY <1>3, <4>1
        <5> HIDE DEF back
        <5> QED BY <5>1 DEF Grant
      <4>5. \A k \in Stocked(o, g) : take[k] \in Qtys
        BY <1>2, LinesFinite
      <4>6. take[l] = 0
        BY <1>2, <4>3, <4>4, <4>5, LinesFinite, SumZeroOnly
      <4> QED BY <4>1, <4>6
    <3>2. delivered'[l] < Ordered[l] /\ l \in LinesOf(o)
      BY <1>6, <2>1, <2>3, LinesTyped DEF LinesOf
    <3>3. recompute_status(o, delivered') # "delivered"
      BY <1>2, <1>6, <1>7, <3>2, StatusType, LinesTyped
    <3> QED BY <1>2, <1>7, <1>14, <2>3, <3>1, <3>3, StatusType
  <2> QED BY <2>2, <2>3
<1>16. DraftsUntouched'
  <2>1. SUFFICES ASSUME NEW l \in Lines, order'[OrderOf[l]] = "draft"
                 PROVE  delivered'[l] = 0
    BY DEF DraftsUntouched
  <2>2. order[OrderOf[l]] = "draft"
    <3>1. CASE OrderOf[l] = o
      BY <1>2, <1>7, <1>14, <2>1, <3>1, StatusType
    <3>2. CASE OrderOf[l] # o
      BY <1>14, <2>1, <3>2, LinesTyped
    <3> QED BY <3>1, <3>2
  <2>3. delivered[l] = 0
    BY <2>2 DEF FulfilInv, DraftsUntouched
  <2> QED BY <1>5, <1>6, <2>3, LinesTyped
<1>17. ServicesHoldNothing'
  <2>1. ASSUME NEW l \in Services PROVE reserved'[l] = 0
    <3>1. l \in Lines /\ reserved[l] = 0
      BY FulfilmentAssumption DEF FulfilInv, ServicesHoldNothing, FulfilmentAssumption
    <3> QED BY <1>5, <1>6, <1>8, <3>1
  <2> QED BY <2>1 DEF ServicesHoldNothing
<1> QED BY <1>9, <1>12, <1>13, <1>15, <1>16, <1>17
        DEF FulfilInv, LevelsSound, ReservationsBacked

----------------------------------------------------------------------------
(* Billing and the other users of the levels.                              *)

LEMMA BillStep ==
    ASSUME TypeOK, FulfilInv, NEW l \in Lines, NEW q \in Qtys, bill(l, q) \/ unbill(l, q)
    PROVE  TypeOK' /\ FulfilInv'
<1>1. UNCHANGED << order, reserved, delivered, level, delivery >>
  BY DEF bill, unbill
<1>2. q \in Nat
  BY DEF Qtys
<1>3. PICK b \in Int : billed' = [billed EXCEPT ![l] = b] /\ b \in 0..delivered[l]
  <2>1. CASE bill(l, q)
    <3>1. billed' = [billed EXCEPT ![l] = billed[l] + q]
      BY <2>1 DEF bill
    <3>2. billed[l] + q \in Int /\ billed[l] + q \in 0..delivered[l]
      BY <1>2, <2>1, LinesTyped DEF bill
    <3> QED BY <3>1, <3>2, Zenon
  <2>2. CASE unbill(l, q)
    <3>1. billed' = [billed EXCEPT ![l] = billed[l] - q]
      BY <2>2 DEF unbill
    <3>2. billed[l] - q \in Int /\ billed[l] - q \in 0..delivered[l]
      BY <1>2, <2>2, LinesTyped DEF unbill
    <3> QED BY <3>1, <3>2, Zenon
  <2> QED BY <2>1, <2>2
<1>4. b \in Qtys
  BY <1>3, LinesTyped DEF Qtys
<1>5. TypeOK'
  BY <1>1, <1>3, <1>4 DEF TypeOK
<1>6. LineBounds'
  BY <1>1, <1>3 DEF FulfilInv, LineBounds, TypeOK
<1>7. /\ LevelsSound' /\ ReservationsBacked' /\ OnlyOpenOrdersHold'
      /\ ServicesHoldNothing' /\ DraftsUntouched' /\ DeliveriesOwn'
  BY <1>1 DEF FulfilInv, LevelsSound, ReservationsBacked, OnlyOpenOrdersHold,
     ServicesHoldNothing, DraftsUntouched, DeliveriesOwn
<1> QED BY <1>5, <1>6, <1>7 DEF FulfilInv

\* A receipt or an issue of others leaves the reservations of a level alone.
LEMMA OthersStep ==
    ASSUME TypeOK, FulfilInv, NEW g \in Gates, NEW q \in Qtys,
           (\E c \in Costs : receive_stock(g, q, c)) \/ issue_stock(g, q)
    PROVE  TypeOK' /\ FulfilInv'
<1>1. UNCHANGED << order, reserved, delivered, billed, delivery >>
  BY DEF receive_stock, issue_stock, counters
<1>2. q \in Nat /\ level[g] \in Level /\ SoundLevel(level[g])
  BY DEF Qtys, TypeOK, FulfilInv, LevelsSound
<1>3. PICK x \in Level : /\ level' = [level EXCEPT ![g] = x]
                         /\ SoundLevel(x) /\ x.reserved = level[g].reserved
  <2>1. ASSUME NEW c \in Costs, receive_stock(g, q, c)
        PROVE  /\ level' = [level EXCEPT ![g] = Received(level[g], q, c)]
               /\ Received(level[g], q, c) \in Level /\ SoundLevel(Received(level[g], q, c))
               /\ Received(level[g], q, c).reserved = level[g].reserved
    <3>1. c \in Int /\ q \in Int
      BY <1>2, FulfilmentAssumption DEF FulfilmentAssumption
    <3>2. CanReceive(level[g], q, c)
          /\ level' = [level EXCEPT ![g] = Received(level[g], q, c)]
      BY <2>1 DEF receive_stock
    <3>3. Received(level[g], q, c) \in Level /\ SoundLevel(Received(level[g], q, c))
      BY <1>2, <3>1, <3>2, ReceiptKeepsSound
    <3>4. Received(level[g], q, c).reserved = level[g].reserved
      BY <1>2 DEF Received, Level
    <3> QED BY <3>2, <3>3, <3>4
  <2>2. ASSUME issue_stock(g, q)
        PROVE  /\ level' = [level EXCEPT ![g] = Issued(level[g], q, 0)]
               /\ Issued(level[g], q, 0) \in Level /\ SoundLevel(Issued(level[g], q, 0))
               /\ Issued(level[g], q, 0).reserved = level[g].reserved
    <3>1. CanIssue(level[g], q, 0) /\ level' = [level EXCEPT ![g] = Issued(level[g], q, 0)]
      BY <2>2 DEF issue_stock
    <3>2. Issued(level[g], q, 0) \in Level /\ SoundLevel(Issued(level[g], q, 0))
      BY <1>2, <3>1, IssueKeepsSound
    <3>3. Issued(level[g], q, 0).reserved = level[g].reserved
      BY <1>2 DEF Issued, Level
    <3> QED BY <3>1, <3>2, <3>3
  <2> QED BY <2>1, <2>2
<1>4. TypeOK'
  BY <1>1, <1>3 DEF TypeOK
<1>5. LevelsSound' /\ ReservationsBacked'
  BY <1>1, <1>3 DEF FulfilInv, LevelsSound, ReservationsBacked, TypeOK
<1>6. /\ LineBounds' /\ OnlyOpenOrdersHold' /\ ServicesHoldNothing'
      /\ DraftsUntouched' /\ DeliveriesOwn'
  BY <1>1 DEF FulfilInv, LineBounds, OnlyOpenOrdersHold, ServicesHoldNothing,
     DraftsUntouched, DeliveriesOwn
<1> QED BY <1>4, <1>5, <1>6 DEF FulfilInv

----------------------------------------------------------------------------

LEMMA FulfilInit == Init => TypeOK /\ FulfilInv
<1> SUFFICES ASSUME Init PROVE TypeOK /\ FulfilInv
  OBVIOUS
<1>1. 0 \in Qtys /\ EmptyLevel \in Level /\ SoundLevel(EmptyLevel)
  BY MaxQtyAssumption DEF Qtys, EmptyLevel, Level, SoundLevel
<1>2. TypeOK
  BY <1>1 DEF Init, TypeOK
<1>3. ReservationsBacked
  <2>1. ASSUME NEW g \in Gates PROVE Sum(reserved, AtGate(g)) = 0
    <3>1. \A l \in AtGate(g) : reserved[l] = 0
      BY DEF Init, AtGate
    <3> QED BY <3>1, SumZero
  <2> QED BY <2>1 DEF Init, ReservationsBacked, EmptyLevel
<1>4. LevelsSound /\ LineBounds /\ OnlyOpenOrdersHold
  BY <1>1, FulfilmentAssumption, MaxQtyAssumption
     DEF Init, LevelsSound, LineBounds, OnlyOpenOrdersHold, FulfilmentAssumption, Qtys
<1>5. ServicesHoldNothing /\ DraftsUntouched /\ DeliveriesOwn
  BY FulfilmentAssumption DEF Init, ServicesHoldNothing, DraftsUntouched, DeliveriesOwn,
     NoDelivery, FulfilmentAssumption
<1> QED BY <1>2, <1>3, <1>4, <1>5 DEF FulfilInv

LEMMA FulfilStep == TypeOK /\ FulfilInv /\ [Next]_vars => TypeOK' /\ FulfilInv'
<1> SUFFICES ASSUME TypeOK, FulfilInv, [Next]_vars PROVE TypeOK' /\ FulfilInv'
  OBVIOUS
<1>1. ASSUME NEW o \in Orders, confirm(o) \/ reserve_more(o) \/ cancel(o) \/ close(o)
      PROVE  TypeOK' /\ FulfilInv'
  BY <1>1, ConfirmStep, ReserveMoreStep, EndStep
<1>2. ASSUME NEW d \in Deliveries,
             \/ \E o \in Orders, qty \in [Lines -> Qtys] : create_draft(d, o, qty)
             \/ \E qty \in [Lines -> Qtys] : update_draft(d, qty)
             \/ delete_draft(d)
      PROVE  TypeOK' /\ FulfilInv'
  BY <1>2, DraftStep
<1>3. ASSUME NEW d \in Deliveries, post(d) \/ reverse(d) PROVE TypeOK' /\ FulfilInv'
  BY <1>3, PostStep, ReverseStep
<1>4. ASSUME NEW l \in Lines, NEW q \in Qtys, bill(l, q) \/ unbill(l, q)
      PROVE  TypeOK' /\ FulfilInv'
  BY <1>4, BillStep
<1>5. ASSUME NEW g \in Gates, NEW q \in Qtys,
             (\E c \in Costs : receive_stock(g, q, c)) \/ issue_stock(g, q)
      PROVE  TypeOK' /\ FulfilInv'
  BY <1>5, OthersStep
<1>6. CASE UNCHANGED vars
  BY <1>6 DEF vars, counters, TypeOK, FulfilInv, LevelsSound, ReservationsBacked, LineBounds,
     OnlyOpenOrdersHold, ServicesHoldNothing, DraftsUntouched, DeliveriesOwn
<1> QED BY <1>1, <1>2, <1>3, <1>4, <1>5, <1>6 DEF Next

LEMMA FulfilInvariant == Spec => [](TypeOK /\ FulfilInv)
BY FulfilInit, FulfilStep, PTL DEF Spec

----------------------------------------------------------------------------
(* The documents behind the counters.                                      *)

\* A document ships something, and an order that was confirmed has lines.
SomethingShips ==
    /\ \A d \in Deliveries : delivery[d].status # "none" => \E l \in Lines : delivery[d].qty[l] > 0
    /\ \A o \in Orders : order[o] \in Fulfilling => LinesOf(o) # {}

PapersInv == DeliveredIsPosted /\ StatusFollowsLines /\ SomethingShips

\* The posted deliveries stay as they are, and no others come.
PostedKept ==
    \A d \in Deliveries : delivery[d].status = "posted" \/ delivery'[d].status = "posted"
        => delivery'[d] = delivery[d]

LEMMA PostedTally ==
    ASSUME DeliveredIsPosted, PostedKept, delivered' = delivered
    PROVE  DeliveredIsPosted'
<1> SUFFICES ASSUME NEW l \in Lines
             PROVE  delivered'[l] = Sum([d \in Deliveries |-> delivery'[d].qty[l]],
                                        { d \in Deliveries : delivery'[d].status = "posted" })
  BY DEF DeliveredIsPosted
<1> DEFINE f == [d \in Deliveries |-> delivery[d].qty[l]]
           S == { d \in Deliveries : delivery[d].status = "posted" }
<1>1. S' = S
  BY DEF PostedKept
<1>2. \A d \in S : f'[d] = f[d]
  BY DEF PostedKept
<1>3. Sum(f', S) = Sum(f, S)
  BY <1>2, SumSame
<1>4. delivered[l] = Sum(f, S)
  BY DEF DeliveredIsPosted
<1> QED BY <1>1, <1>3, <1>4

\* The status a document's order gets says what its lines say.
LEMMA StatusTold ==
    ASSUME TypeOK, FulfilInv, PapersInv, TypeOK', FulfilInv', NEW o \in Orders,
           order' = [order EXCEPT ![o] = recompute_status(o, delivered')],
           \A l \in Lines : OrderOf[l] # o => delivered'[l] = delivered[l]
    PROVE  /\ StatusFollowsLines'
           /\ \A x \in Orders : order'[x] \in Fulfilling => LinesOf(x)' # {}
<1>1. order'[o] = recompute_status(o, delivered') /\ \A x \in Orders \ {o} : order'[x] = order[x]
  BY DEF TypeOK
<1>2. \A l \in Lines : delivered'[l] \in Nat /\ delivered'[l] <= Ordered[l] /\ Ordered[l] \in Nat /\ Ordered[l] > 0
  <2>1. ASSUME NEW l \in Lines
        PROVE  delivered'[l] \in Nat /\ delivered'[l] <= Ordered[l] /\ Ordered[l] \in Nat /\ Ordered[l] > 0
    <3>1. delivered'[l] \in Qtys /\ reserved'[l] \in Qtys /\ reserved'[l] + delivered'[l] <= Ordered[l]
      BY DEF TypeOK, FulfilInv, LineBounds
    <3>2. Ordered[l] \in Qtys \ {0}
      BY FulfilmentAssumption
    <3> QED BY <3>1, <3>2, MaxQtyAssumption DEF Qtys
  <2> QED BY <2>1
<1>3. delivered' \in [Lines -> Qtys]
  BY DEF TypeOK
<1>4. order'[o] \in Fulfilling => order[o] \in Fulfilling
  BY <1>1, <1>3, StatusType DEF Fulfilling
<1>5. \A x \in Orders : order'[x] \in Fulfilling => LinesOf(x) # {}
  BY <1>1, <1>4 DEF PapersInv, SomethingShips
<1>6. ASSUME NEW x \in Orders, order'[x] \in Fulfilling
      PROVE  /\ order'[x] = "delivered" <=> \A l \in LinesOf(x) : delivered'[l] = Ordered[l]
             /\ order'[x] = "confirmed" <=> \A l \in LinesOf(x) : delivered'[l] = 0
  <2>1. CASE x = o
    <3>1. order[o] \in Fulfilling /\ LinesOf(o) # {} /\ LinesOf(o) \subseteq Lines
      BY <1>4, <1>5, <1>6, <2>1 DEF LinesOf
    <3>2. \A l \in LinesOf(o) : delivered'[l] >= Ordered[l] <=> delivered'[l] = Ordered[l]
      BY <1>2, <3>1
    <3>3. \A l \in LinesOf(o) : delivered'[l] > 0 <=> ~(delivered'[l] = 0)
      BY <1>2, <3>1
    <3>4. ~((\A l \in LinesOf(o) : delivered'[l] = Ordered[l]) /\ \A l \in LinesOf(o) : delivered'[l] = 0)
      BY <1>2, <3>1
    <3>5. order'[o] = IF \A l \in LinesOf(o) : delivered'[l] >= Ordered[l] THEN "delivered"
                      ELSE IF \E l \in LinesOf(o) : delivered'[l] > 0 THEN "partially_delivered"
                      ELSE "confirmed"
      BY <1>1, <3>1 DEF recompute_status
    <3> QED BY <2>1, <3>2, <3>3, <3>4, <3>5
  <2>2. CASE x # o
    <3>1. order'[x] = order[x] /\ \A l \in LinesOf(x) : delivered'[l] = delivered[l]
      BY <1>1, <2>2 DEF LinesOf
    <3> QED BY <1>6, <3>1 DEF PapersInv, StatusFollowsLines
  <2> QED BY <2>1, <2>2
<1> QED BY <1>5, <1>6 DEF StatusFollowsLines, LinesOf

\* Orders, drafts, billing and stock leave the posted deliveries alone.
LEMMA OtherPapers ==
    ASSUME TypeOK, FulfilInv, PapersInv, UNCHANGED << order, delivered >>, PostedKept,
           \A d \in Deliveries : delivery'[d].status # "none" => \E l \in Lines : delivery'[d].qty[l] > 0
    PROVE  PapersInv'
<1>1. DeliveredIsPosted'
  BY PostedTally DEF PapersInv
<1>2. StatusFollowsLines' /\ SomethingShips'
  BY DEF PapersInv, StatusFollowsLines, SomethingShips, LinesOf
<1> QED BY <1>1, <1>2 DEF PapersInv

\* An order is confirmed, reserves again, is cancelled or closed.
LEMMA OrderPapers ==
    ASSUME TypeOK, FulfilInv, PapersInv, NEW o \in Orders,
           confirm(o) \/ reserve_more(o) \/ cancel(o) \/ close(o)
    PROVE  PapersInv'
<1>1. UNCHANGED << delivered, delivery >>
  BY DEF confirm, reserve_more, cancel, close
<1>2. PostedKept
  BY <1>1 DEF PostedKept
<1>3. DeliveredIsPosted'
  BY <1>1, <1>2, PostedTally DEF PapersInv
<1>4. \A d \in Deliveries : delivery'[d].status # "none" => \E l \in Lines : delivery'[d].qty[l] > 0
  BY <1>1 DEF PapersInv, SomethingShips
<1>5. \A l \in Lines : Ordered[l] # 0
  BY FulfilmentAssumption
<1>6. /\ \A x \in Orders \ {o} : order'[x] = order[x]
      /\ \/ order'[o] = order[o]
         \/ order'[o] \notin Fulfilling
         \/ /\ order'[o] = "confirmed" /\ LinesOf(o) # {}
            /\ \A l \in LinesOf(o) : delivered[l] = 0
  <2>1. CASE confirm(o)
    <3>1. order[o] = "draft" /\ LinesOf(o) # {} /\ order' = [order EXCEPT ![o] = "confirmed"]
      BY <2>1 DEF confirm
    <3>2. \A l \in LinesOf(o) : delivered[l] = 0
      BY <3>1 DEF FulfilInv, DraftsUntouched, LinesOf
    <3> QED BY <3>1, <3>2 DEF TypeOK
  <2>2. CASE reserve_more(o)
    BY <2>2 DEF reserve_more
  <2>3. CASE cancel(o) \/ close(o)
    <3>1. \E s \in {"cancelled", "closed"} : order' = [order EXCEPT ![o] = s]
      BY <2>3 DEF cancel, close
    <3> QED BY <3>1 DEF TypeOK, Fulfilling, Deliverable
  <2> QED BY <2>1, <2>2, <2>3
<1>7. \A x \in Orders : order'[x] \in Fulfilling => LinesOf(x) # {}
  BY <1>6 DEF PapersInv, SomethingShips
<1>8. ASSUME NEW x \in Orders, order'[x] \in Fulfilling
      PROVE  /\ order'[x] = "delivered" <=> \A l \in LinesOf(x) : delivered[l] = Ordered[l]
             /\ order'[x] = "confirmed" <=> \A l \in LinesOf(x) : delivered[l] = 0
  <2>1. CASE order'[x] = order[x]
    BY <1>8, <2>1 DEF PapersInv, StatusFollowsLines
  <2>2. CASE order'[x] = "confirmed" /\ LinesOf(x) # {} /\ \A l \in LinesOf(x) : delivered[l] = 0
    <3>1. LinesOf(x) \subseteq Lines
      BY DEF LinesOf
    <3> QED BY <1>5, <2>2, <3>1
  <2> QED BY <1>6, <1>8, <2>1, <2>2
<1>9. StatusFollowsLines'
  BY <1>1, <1>8 DEF StatusFollowsLines, LinesOf
<1> QED BY <1>3, <1>4, <1>7, <1>9 DEF PapersInv, SomethingShips, LinesOf

\* A delivery is drafted, edited or deleted.
LEMMA DraftPapers ==
    ASSUME TypeOK, FulfilInv, PapersInv, NEW d \in Deliveries,
           \/ \E o \in Orders, qty \in [Lines -> Qtys] : create_draft(d, o, qty)
           \/ \E qty \in [Lines -> Qtys] : update_draft(d, qty)
           \/ delete_draft(d)
    PROVE  PapersInv'
<1>1. UNCHANGED << order, delivered >>
  BY DEF create_draft, update_draft, delete_draft, counters
<1>2. NoDelivery.status = "none"
  BY DEF NoDelivery
<1>3. PICK x : /\ delivery' = [delivery EXCEPT ![d] = x]
               /\ x.status \in {"none", "draft"}
               /\ x.status # "none" => \E l \in Lines : x.qty[l] > 0
               /\ delivery[d].status # "posted"
  <2>1. ASSUME NEW o \in Orders, NEW qty \in [Lines -> Qtys], create_draft(d, o, qty)
        PROVE  \E x : /\ delivery' = [delivery EXCEPT ![d] = x]
                      /\ x.status \in {"none", "draft"}
                      /\ x.status # "none" => \E l \in Lines : x.qty[l] > 0
                      /\ delivery[d].status # "posted"
    <3> DEFINE x == [status |-> "draft", order |-> o, qty |-> qty]
    <3>1. delivery' = [delivery EXCEPT ![d] = x] /\ (\E l \in Lines : qty[l] > 0) /\ delivery[d] = NoDelivery
      BY <2>1 DEF create_draft, ValidDelivery
    <3>2. x.status = "draft" /\ x.qty = qty
      OBVIOUS
    <3> HIDE DEF x
    <3> QED BY <1>2, <3>1, <3>2
  <2>2. ASSUME NEW qty \in [Lines -> Qtys], update_draft(d, qty)
        PROVE  \E x : /\ delivery' = [delivery EXCEPT ![d] = x]
                      /\ x.status \in {"none", "draft"}
                      /\ x.status # "none" => \E l \in Lines : x.qty[l] > 0
                      /\ delivery[d].status # "posted"
    <3> DEFINE x == [delivery[d] EXCEPT !.qty = qty]
    <3>1. delivery[d].status = "draft" /\ (\E l \in Lines : qty[l] > 0)
          /\ delivery' = [delivery EXCEPT ![d].qty = qty]
      BY <2>2 DEF update_draft, ValidDelivery
    <3>2. delivery' = [delivery EXCEPT ![d] = x]
      BY <3>1 DEF TypeOK
    <3>3. delivery[d] \in DeliveryDocs
      BY <1>2, <3>1 DEF TypeOK
    <3>4. x.status = "draft" /\ x.qty = qty
      BY <3>1, <3>3 DEF DeliveryDocs
    <3> HIDE DEF x
    <3> QED BY <3>1, <3>2, <3>4
  <2>3. CASE delete_draft(d)
    <3>1. delivery[d].status = "draft" /\ delivery' = [delivery EXCEPT ![d] = NoDelivery]
      BY <2>3 DEF delete_draft
    <3> QED BY <1>2, <3>1
  <2> QED BY <2>1, <2>2, <2>3
<1>4. delivery'[d] = x /\ \A e \in Deliveries \ {d} : delivery'[e] = delivery[e]
  BY <1>3 DEF TypeOK
<1>5. PostedKept
  BY <1>3, <1>4 DEF PostedKept
<1>6. \A e \in Deliveries : delivery'[e].status # "none" => \E l \in Lines : delivery'[e].qty[l] > 0
  BY <1>3, <1>4 DEF PapersInv, SomethingShips
<1> QED BY <1>1, <1>5, <1>6, OtherPapers

\* A delivery is posted, or its goods come back.
LEMMA MovedPapers ==
    ASSUME TypeOK, FulfilInv, PapersInv, TypeOK', FulfilInv', NEW d \in Deliveries, post(d) \/ reverse(d)
    PROVE  PapersInv'
<1>0. PICK doc : doc = delivery[d]
  OBVIOUS
<1> DEFINE S == { e \in Deliveries : delivery[e].status = "posted" }
<1>1. PICK s \in {"posted", "reversed"} : delivery' = [delivery EXCEPT ![d].status = s]
  BY DEF post, reverse
<1>2. /\ order' = [order EXCEPT ![doc.order] = recompute_status(doc.order, delivered')]
      /\ doc.status # "none"
      /\ \/ /\ s = "posted" /\ doc.status = "draft"
            /\ delivered' = [l \in Lines |-> delivered[l] + doc.qty[l]]
         \/ /\ s = "reversed" /\ doc.status = "posted"
            /\ delivered' = [l \in Lines |-> delivered[l] - doc.qty[l]]
  <2>1. CASE post(d)
    <3>1. /\ delivered' = [l \in Lines |-> delivered[l] + doc.qty[l]]
          /\ order' = [order EXCEPT ![doc.order] = recompute_status(doc.order, delivered')]
          /\ doc.status = "draft" /\ delivery' = [delivery EXCEPT ![d].status = "posted"]
      BY <1>0, <2>1 DEF post, Delivering
    <3>2. s = "posted"
      <4>1. doc \in DeliveryDocs
        BY <1>0, <3>1 DEF TypeOK, NoDelivery
      <4>2. delivery'[d].status = "posted" /\ delivery'[d].status = s
        BY <1>0, <1>1, <3>1, <4>1 DEF TypeOK, DeliveryDocs
      <4> QED BY <4>2
    <3> QED BY <3>1, <3>2
  <2>2. CASE reverse(d)
    <3>1. /\ delivered' = [l \in Lines |-> delivered[l] - doc.qty[l]]
          /\ order' = [order EXCEPT ![doc.order] = recompute_status(doc.order, delivered')]
          /\ doc.status = "posted" /\ delivery' = [delivery EXCEPT ![d].status = "reversed"]
      BY <1>0, <2>2 DEF reverse
    <3>2. s = "reversed"
      <4>1. doc \in DeliveryDocs
        BY <1>0, <3>1 DEF TypeOK, NoDelivery
      <4>2. delivery'[d].status = "reversed" /\ delivery'[d].status = s
        BY <1>0, <1>1, <3>1, <4>1 DEF TypeOK, DeliveryDocs
      <4> QED BY <4>2
    <3> QED BY <3>1, <3>2
  <2> QED BY <2>1, <2>2
<1>3. doc \in DeliveryDocs
  BY <1>0, <1>2 DEF TypeOK, NoDelivery
<1> DEFINE new == [doc EXCEPT !.status = s]
<1>4. new.status = s /\ new.qty = doc.qty
  BY <1>3 DEF DeliveryDocs
<1>5. delivery' = [delivery EXCEPT ![d] = new]
  BY <1>0, <1>1 DEF TypeOK
<1> HIDE DEF new
<1>6. delivery'[d] = new /\ \A e \in Deliveries \ {d} : delivery'[e] = delivery[e]
  BY <1>5 DEF TypeOK
<1>7. doc.order \in Orders /\ doc.qty \in [Lines -> Qtys]
  BY <1>3 DEF DeliveryDocs
<1>8. \A e \in Deliveries : delivery'[e].status # "none" => \E l \in Lines : delivery'[e].qty[l] > 0
  BY <1>0, <1>2, <1>4, <1>6 DEF PapersInv, SomethingShips
<1>9. \A l \in Lines : doc.qty[l] \in Nat /\ delivered[l] \in Nat
                       /\ (OrderOf[l] # doc.order => doc.qty[l] = 0)
  <2>1. \A l \in Lines : doc.qty[l] > 0 => OrderOf[l] = doc.order
    BY <1>0, <1>2 DEF FulfilInv, DeliveriesOwn
  <2>2. \A l \in Lines : doc.qty[l] \in Qtys /\ delivered[l] \in Qtys
    BY <1>7 DEF TypeOK
  <2> QED BY <2>1, <2>2, MaxQtyAssumption DEF Qtys
<1>10. \A l \in Lines : OrderOf[l] # doc.order => delivered'[l] = delivered[l]
  BY <1>2, <1>9
<1>11. StatusFollowsLines' /\ \A x \in Orders : order'[x] \in Fulfilling => LinesOf(x)' # {}
  BY <1>2, <1>7, <1>10, StatusTold
<1>12. DeliveredIsPosted'
  <2> SUFFICES ASSUME NEW l \in Lines
               PROVE  delivered'[l] = Sum([e \in Deliveries |-> delivery'[e].qty[l]],
                                          { e \in Deliveries : delivery'[e].status = "posted" })
    BY DEF DeliveredIsPosted
  <2> DEFINE f == [e \in Deliveries |-> delivery[e].qty[l]]
             T == S \ {d}
  <2>1. f[d] = doc.qty[l] /\ f'[d] = doc.qty[l] /\ doc.qty[l] \in Qtys
        /\ \A e \in T : f'[e] = f[e] /\ f[e] = f'[e]
    BY <1>0, <1>4, <1>6, <1>7
  <2>2. IsFiniteSet(T) /\ d \notin T
    BY FulfilmentAssumption, FS_Subset
  <2>3. delivered[l] = Sum(f, S)
    BY DEF PapersInv, DeliveredIsPosted
  <2>4. Sum(f, S) \in Nat /\ Sum(f', T) \in Nat
    <3>1. IsFiniteSet(S)
      BY FulfilmentAssumption, FS_Subset
    <3> QED BY <2>2, <3>1, SumType
  <2>5. CASE s = "posted"
    <3>1. S = T /\ S' = T \cup {d} /\ delivered'[l] = delivered[l] + doc.qty[l]
      BY <1>0, <1>2, <1>4, <1>6, <2>5
    <3>2. Sum(f', T \cup {d}) = Sum(f, T) + f'[d]
      <4>1. f'[d] \in Qtys /\ \A e \in T : f[e] = f'[e]
        BY <2>1
      <4> HIDE DEF f, S, T
      <4> QED BY <2>2, <4>1, SumJoin
    <3>3. f'[d] = doc.qty[l]
      BY <2>1
    <3>4. delivered'[l] = Sum(f', S')
      <4> HIDE DEF f, S, T
      <4> QED BY <2>3, <3>1, <3>2, <3>3
    <3> QED BY <3>4
  <2>6. CASE s = "reversed"
    <3>1. S' = T /\ S = T \cup {d} /\ delivered'[l] = delivered[l] - doc.qty[l]
      BY <1>0, <1>2, <1>4, <1>6, <2>6
    <3>2. Sum(f, T \cup {d}) = Sum(f', T) + f[d]
      <4>1. f[d] \in Qtys /\ \A e \in T : f'[e] = f[e]
        BY <2>1
      <4> HIDE DEF f, S, T
      <4> QED BY <2>2, <4>1, SumJoin
    <3>3. f[d] = doc.qty[l] /\ doc.qty[l] \in Nat
      BY <1>9, <2>1
    <3>4. delivered'[l] = Sum(f', S')
      <4> HIDE DEF f, S, T
      <4>1. delivered[l] = Sum(f', T) + doc.qty[l]
        BY <2>3, <3>1, <3>2, <3>3
      <4>2. delivered'[l] = Sum(f', T)
        BY <2>4, <3>1, <3>3, <4>1
      <4> QED BY <3>1, <4>2
    <3> QED BY <3>4
  <2> QED BY <2>5, <2>6
<1> QED BY <1>8, <1>11, <1>12 DEF PapersInv, SomethingShips

LEMMA PapersInit == Init => PapersInv
<1> SUFFICES ASSUME Init PROVE PapersInv
  OBVIOUS
<1>1. \A d \in Deliveries : delivery[d].status = "none"
  BY DEF Init, NoDelivery
<1>2. DeliveredIsPosted
  <2>1. { d \in Deliveries : delivery[d].status = "posted" } = {}
    BY <1>1
  <2>2. \A f : Sum(f, {}) = 0
    BY SumZero
  <2> QED BY <2>1, <2>2 DEF Init, DeliveredIsPosted
<1>3. StatusFollowsLines /\ SomethingShips
  BY <1>1 DEF Init, StatusFollowsLines, SomethingShips, Fulfilling, Deliverable
<1> QED BY <1>2, <1>3 DEF PapersInv

LEMMA PapersStep == TypeOK /\ FulfilInv /\ PapersInv /\ [Next]_vars => PapersInv'
<1> SUFFICES ASSUME TypeOK, FulfilInv, PapersInv, [Next]_vars PROVE PapersInv'
  OBVIOUS
<1>1. TypeOK' /\ FulfilInv'
  BY FulfilStep
<1>2. ASSUME NEW o \in Orders, confirm(o) \/ reserve_more(o) \/ cancel(o) \/ close(o)
      PROVE  PapersInv'
  BY <1>2, OrderPapers
<1>3. ASSUME NEW d \in Deliveries,
             \/ \E o \in Orders, qty \in [Lines -> Qtys] : create_draft(d, o, qty)
             \/ \E qty \in [Lines -> Qtys] : update_draft(d, qty)
             \/ delete_draft(d)
      PROVE  PapersInv'
  BY <1>3, DraftPapers
<1>4. ASSUME NEW d \in Deliveries, post(d) \/ reverse(d) PROVE PapersInv'
  BY <1>1, <1>4, MovedPapers
<1>5. ASSUME UNCHANGED << order, delivered, delivery >> PROVE PapersInv'
  <2>1. PostedKept
    BY <1>5 DEF PostedKept
  <2>2. \A d \in Deliveries : delivery'[d].status # "none" => \E l \in Lines : delivery'[d].qty[l] > 0
    BY <1>5 DEF PapersInv, SomethingShips
  <2> QED BY <1>5, <2>1, <2>2, OtherPapers
<1>6. ASSUME NEW l \in Lines, NEW q \in Qtys, bill(l, q) \/ unbill(l, q)
      PROVE  UNCHANGED << order, delivered, delivery >>
  BY <1>6 DEF bill, unbill
<1>7. ASSUME NEW g \in Gates, NEW q \in Qtys,
             (\E c \in Costs : receive_stock(g, q, c)) \/ issue_stock(g, q)
      PROVE  UNCHANGED << order, delivered, delivery >>
  BY <1>7 DEF receive_stock, issue_stock, counters
<1>8. CASE UNCHANGED vars
  BY <1>5, <1>8 DEF vars
<1> QED BY <1>2, <1>3, <1>4, <1>5, <1>6, <1>7, <1>8 DEF Next

\* What the lines of an order hold is enough to ship what they hold.
LEMMA HeldCanShip == TypeOK /\ FulfilInv /\ PapersInv => ReservationHonoured
<1> SUFFICES ASSUME TypeOK, FulfilInv, PapersInv, NEW d \in Deliveries,
                    delivery[d].status = "draft",
                    \A l \in Lines : delivery[d].qty[l] <= reserved[l]
             PROVE  StillOpen(d) /\ CanShip(d)
  BY DEF ReservationHonoured
<1> DEFINE o == delivery[d].order
           qty == delivery[d].qty
<1>1. o \in Orders /\ qty \in [Lines -> Qtys]
  BY DeliveryShape
<1>2. \A l \in Lines : qty[l] \in Nat /\ qty[l] <= reserved[l] /\ reserved[l] \in Nat
  BY <1>1, LinesTyped DEF Qtys
<1>3. order[o] \in Deliverable
  <2>1. PICK l \in Lines : qty[l] > 0
    BY DEF PapersInv, SomethingShips
  <2>2. OrderOf[l] = o
    BY <2>1 DEF FulfilInv, DeliveriesOwn
  <2>3. reserved[l] > 0
    BY <1>2, <2>1
  <2> QED BY <2>2, <2>3 DEF FulfilInv, OnlyOpenOrdersHold
<1>4. StillOpen(d)
  <2>1. \A l \in Lines : delivered[l] + qty[l] <= Ordered[l]
    BY <1>2, LinesTyped
  <2> QED BY <1>3, <2>1 DEF StillOpen
<1>5. \A l \in Services : qty[l] = 0
  <2>1. \A l \in Services : l \in Lines /\ reserved[l] = 0
    BY FulfilmentAssumption DEF FulfilInv, ServicesHoldNothing
  <2> QED BY <1>2, <2>1
<1>6. ASSUME NEW g \in Gates, Shipped(d, g) > 0
      PROVE  CanIssue(level[g], Shipped(d, g), CoveredAt(d, g))
  <2> DEFINE S == Stocked(o, g)
  <2>1. IsFiniteSet(AtGate(g)) /\ S \subseteq AtGate(g) /\ AtGate(g) \subseteq Lines
    BY <1>1, LinesFinite
  <2>2. \A l \in S : Covered(d)[l] = qty[l]
    <3>1. \A l \in Lines : Covered(d)[l] = Least(reserved[l], qty[l])
      BY DEF Covered
    <3>2. \A l \in Lines : Least(reserved[l], qty[l]) = qty[l]
      BY <1>2 DEF Least
    <3> QED BY <2>1, <3>1, <3>2
  <2>3. CoveredAt(d, g) = Shipped(d, g)
    <3> HIDE DEF S
    <3>1. Sum(Covered(d), S) = Sum(qty, S)
      BY <2>2, SumSame
    <3> QED BY <3>1 DEF CoveredAt, Shipped, S
  <2>4. Shipped(d, g) <= Sum(reserved, AtGate(g))
    <3>1. \A l \in S : qty[l] \in Nat /\ reserved[l] \in Nat /\ qty[l] <= reserved[l]
      BY <1>2, <2>1
    <3> HIDE DEF S
    <3>2. Sum(qty, S) <= Sum(reserved, AtGate(g))
      BY <2>1, <3>1, SumSmaller
    <3> QED BY <3>2 DEF Shipped, S
  <2>5. level[g].reserved = Sum(reserved, AtGate(g)) /\ SoundLevel(level[g]) /\ level[g] \in Level
    BY DEF FulfilInv, ReservationsBacked, LevelsSound, TypeOK
  <2>6. Shipped(d, g) \in Nat
    BY <1>1, SumsAreNat DEF Shipped
  <2> QED BY <1>6, <2>3, <2>4, <2>5, <2>6 DEF CanIssue, SoundLevel, Level
<1> QED BY <1>4, <1>5, <1>6 DEF CanShip

LEMMA PapersInvariant == Spec => [](TypeOK /\ FulfilInv /\ PapersInv)
<1>1. Init => TypeOK /\ FulfilInv /\ PapersInv
  BY FulfilInit, PapersInit
<1>2. TypeOK /\ FulfilInv /\ PapersInv /\ [Next]_vars => (TypeOK /\ FulfilInv /\ PapersInv)'
  BY FulfilStep, PapersStep
<1> QED BY <1>1, <1>2, PTL DEF Spec

----------------------------------------------------------------------------

\* A draft that ships no more than its lines hold is never refused for want of
\* stock or of the order, the delivered counters are what posted deliveries
\* carry, and an order is confirmed, underway or delivered as its lines say,
\* whatever others reserve, ship, cancel or bring back meanwhile
\* (DeliveryService::post and reverse, recompute_status).
THEOREM PromisesAreKept == Spec => []PromisesKept
<1>1. TypeOK /\ FulfilInv /\ PapersInv => PromisesKept
  BY HeldCanShip DEF PapersInv, PromisesKept
<1> QED BY <1>1, PapersInvariant, PTL

\* Orders, line counters, levels and deliveries keep their types: no counter
\* of a line or a level leaves the range of its column.
THEOREM TypeCorrect == Spec => []TypeOK
BY FulfilInvariant, PTL

\* Between transactions a level's reserved stock is the sum of what the order
\* lines hold on it, through confirmations, partial grants, cancellations,
\* deliveries and reversals in any order (OrderService, DeliveryService).
THEOREM LevelsBackLines == Spec => []ReservationsBacked
<1>1. FulfilInv => ReservationsBacked
  BY DEF FulfilInv
<1> QED BY <1>1, FulfilInvariant, PTL

\* No line reserves and ships more than was ordered, or bills more than it
\* shipped (the checks of DeliveryService::post and reverse under the locks).
THEOREM LinesBounded == Spec => []LineBounds
<1>1. FulfilInv => LineBounds
  BY DEF FulfilInv
<1> QED BY <1>1, FulfilInvariant, PTL

\* Stock is held for orders that can still ship only, whichever way an order
\* ended and whatever came back after (OrderService::cancel and close,
\* DeliveryService::reverse).
THEOREM EndedOrdersHoldNothing == Spec => []OnlyOpenOrdersHold
<1>1. FulfilInv => OnlyOpenOrdersHold
  BY DEF FulfilInv
<1> QED BY <1>1, FulfilInvariant, PTL

\* No level goes negative or promises stock it does not have, whichever of
\* orders, deliveries and plain movements get there first (StockEngine).
THEOREM LevelsStaySound == Spec => []LevelsSound
<1>1. FulfilInv => LevelsSound
  BY DEF FulfilInv
<1> QED BY <1>1, FulfilInvariant, PTL

----------------------------------------------------------------------------
(* The till.  What one server keeps true however its requests overlap.     *)

\* No two orders have one idempotency key.
KeysUnique == \A m, n \in DOMAIN orders : orders[m].uuid = orders[n].uuid => m = n

\* No session is consolidated twice, and those that are closed have been.
BookedOnce ==
    /\ \A i, j \in DOMAIN books : books[i].session = books[j].session => i = j
    /\ \A s \in Sessions : P!Is(s, "closed") <=> \E i \in DOMAIN books : books[i].session = s

TillInv == P!TypeOK /\ P!SoundLevel(stock) /\ KeysUnique /\ BookedOnce

(* What holds besides when one request is in hand at a time.               *)

OneInHand == \A t, u \in Threads : handler[t] # P!Idle /\ handler[u] # P!Idle => t = u

\* What a request was let through for still holds when it writes.
HandStands(h) ==
    /\ h.op \in {"sale", "refund", "cash"} => P!Is(h.session, "open")
    /\ h.op = "refund" => h.of \in DOMAIN orders /\ P!Refundable(h.of, h.qty)
    /\ h.op = "void" => h.of \in DOMAIN orders /\ P!Is(orders[h.of].session, "open")

InHandStands == \A t \in Threads : HandStands(handler[t])

RefundsRefer == \A r \in DOMAIN orders : orders[r].kind = "refund" => orders[r].of \in DOMAIN orders

\* Nothing moves in a session once it is counted.
ExpectedStands ==
    \A s \in Sessions :
        session[s].status \in {"closing", "closed"} => session[s].expected = P!expected_cash(s)

RefundsFit == RefundsRefer /\ P!RefundsWithinSale /\ P!VoidedUnreferenced

CashTies == ExpectedStands /\ P!CashIsCounted /\ P!ClosedIsConsolidated

SerialInv == OneInHand /\ InHandStands /\ RefundsFit /\ CashTies

----------------------------------------------------------------------------
(* Sums over the orders of a till.                                         *)

QtyOf == [n \in DOMAIN orders |-> orders[n].qty]

LEMMA TillTotals == ASSUME NEW S PROVE P!Total(S) = Sum(QtyOf, S)
<1>1. P!Units(QtyOf, S) = Units(QtyOf, S)
  BY DEF P!Units, Units
<1>2. \A X : P!Cardinality(X) = Cardinality(X)
  BY Zenon DEF P!Cardinality, Cardinality
<1>3. P!Total(S) = P!Sum(QtyOf, S)
  BY Zenon DEF P!Total, QtyOf
<1> QED BY <1>1, <1>2, <1>3, Zenon DEF P!Sum, Sum

LEMMA OrdersTyped ==
    ASSUME P!TypeOK, NEW n \in DOMAIN orders
    PROVE  /\ n \in Nat \ {0} /\ orders[n] \in P!Orders
           /\ orders[n].qty \in Nat /\ orders[n].qty > 0 /\ orders[n].qty \in Qtys
           /\ QtyOf[n] = orders[n].qty
<1>1. n \in Nat \ {0} /\ orders[n] \in P!Orders
  BY DEF P!TypeOK
<1>2. orders[n].qty \in 1..MaxQty
  BY <1>1, TillAssumption DEF P!Orders
<1> QED BY <1>1, <1>2, MaxQtyAssumption DEF Qtys, QtyOf

LEMMA OrdersFinite ==
    ASSUME P!TypeOK, NEW S, S \subseteq DOMAIN orders
    PROVE  IsFiniteSet(S) /\ Sum(QtyOf, S) \in Nat /\ P!Total(S) \in Nat
<1>1. IsFiniteSet(DOMAIN orders)
  <2>1. DOMAIN orders = 1..Len(orders) /\ Len(orders) \in Nat
    BY DEF P!TypeOK
  <2> QED BY <2>1, FS_Interval
<1>2. IsFiniteSet(S)
  BY <1>1, FS_Subset
<1> QED BY <1>2, SumType, TillTotals

\* A refund comes on top of the others of its sale.
LEMMA TotalInsert ==
    ASSUME P!TypeOK, NEW S, S \subseteq DOMAIN orders, NEW n \in DOMAIN orders, n \notin S
    PROVE  P!Total(S \cup {n}) = P!Total(S) + orders[n].qty
<1>1. IsFiniteSet(S) /\ QtyOf[n] \in Qtys /\ QtyOf[n] = orders[n].qty
  BY OrdersFinite, OrdersTyped
<1>2. Sum(QtyOf, S \cup {n}) = Sum(QtyOf, S) + QtyOf[n]
  BY <1>1, SumInsert
<1> QED BY <1>1, <1>2, TillTotals

\* Fewer orders have the smaller total.
LEMMA TotalSmaller ==
    ASSUME P!TypeOK, NEW S, S \subseteq DOMAIN orders, NEW R, R \subseteq S
    PROVE  P!Total(R) <= P!Total(S)
<1>1. IsFiniteSet(S) /\ R \in SUBSET S
  BY OrdersFinite
<1>2. \A n \in R : QtyOf[n] \in Nat /\ QtyOf[n] <= QtyOf[n]
  BY OrdersTyped
<1>3. Sum(QtyOf, R) <= Sum(QtyOf, S)
  BY <1>1, <1>2, SumSmaller
<1> QED BY <1>3, TillTotals

\* A step that leaves the quantities of the orders alone leaves every total.
KeepsQtys == DOMAIN orders \subseteq DOMAIN orders' /\ \A n \in DOMAIN orders : orders'[n].qty = orders[n].qty

LEMMA TotalKept ==
    ASSUME KeepsQtys, NEW S, S \subseteq DOMAIN orders
    PROVE  P!Total(S)' = P!Total(S)
<1>1. \A n \in S : QtyOf'[n] = QtyOf[n]
  BY DEF KeepsQtys, QtyOf
<1>2. Sum(QtyOf', S) = Sum(QtyOf, S)
  BY <1>1, SumSame
<1>3. P!Total(S) = Sum(QtyOf, S)
  BY TillTotals
<1>4. P!Total(S)' = Sum(QtyOf', S)
  <2>1. P!Units(QtyOf', S) = Units(QtyOf', S)
    BY DEF P!Units, Units
  <2>2. \A X : P!Cardinality(X) = Cardinality(X)
    BY Zenon DEF P!Cardinality, Cardinality
  <2>3. P!Total(S)' = P!Sum(QtyOf', S)
    BY Zenon DEF P!Total, QtyOf
  <2> QED BY <2>1, <2>2, <2>3, Zenon DEF P!Sum, Sum
<1> QED BY <1>2, <1>3, <1>4

LEMMA RefundsPrimed == ASSUME NEW m PROVE P!Total(P!RefundsOf(m))' = Sum(QtyOf', P!RefundsOf(m)')
<1>1. PICK S : S = P!RefundsOf(m)'
  OBVIOUS
<1>2. P!Units(QtyOf', S) = Units(QtyOf', S)
  BY DEF P!Units, Units
<1>3. \A X : P!Cardinality(X) = Cardinality(X)
  BY Zenon DEF P!Cardinality, Cardinality
<1>4. P!Total(P!RefundsOf(m))' = P!Sum(QtyOf', P!RefundsOf(m)')
  BY Zenon DEF P!Total, QtyOf
<1> QED BY <1>1, <1>2, <1>3, <1>4, Zenon DEF P!Sum, Sum

LEMMA CapturedInDomain ==
    ASSUME NEW s, NEW k PROVE P!CapturedIn(s, k) \subseteq DOMAIN orders
BY DEF P!CapturedIn

LEMMA NetType == ASSUME P!TypeOK, NEW s PROVE P!Net(s) \in Int
BY CapturedInDomain, OrdersFinite DEF P!Net

\* What a session sold stands when its orders do.
LEMMA NetKept ==
    ASSUME KeepsQtys, NEW s, \A k \in {"sale", "refund"} : P!CapturedIn(s, k)' = P!CapturedIn(s, k)
    PROVE  P!Net(s)' = P!Net(s)
<1>1. ASSUME NEW k \in {"sale", "refund"}
      PROVE  P!Total(P!CapturedIn(s, k))' = P!Total(P!CapturedIn(s, k))
  <2>1. PICK S : S = P!CapturedIn(s, k)
    OBVIOUS
  <2>2. S \subseteq DOMAIN orders
    BY <2>1, CapturedInDomain
  <2>3. P!Total(S)' = P!Total(S)
    BY <2>2, TotalKept
  <2>4. P!CapturedIn(s, k)' = S
    BY <2>1
  <2>5. P!Total(P!CapturedIn(s, k))' = P!Sum(QtyOf', P!CapturedIn(s, k)')
    BY Zenon DEF P!Total, QtyOf
  <2>6. P!Total(S)' = P!Sum(QtyOf', S)
    BY Zenon DEF P!Total, QtyOf
  <2>7. P!Total(P!CapturedIn(s, k))' = P!Total(S)
    BY <2>3, <2>4, <2>5, <2>6, Zenon
  <2> QED BY <2>1, <2>7, Zenon
<1> QED BY <1>1, Zenon DEF P!Net

----------------------------------------------------------------------------
(* What every interleaving keeps.                                          *)

LEMMA TillInit == P!Init => TillInv /\ SerialInv
<1> SUFFICES ASSUME P!Init PROVE TillInv /\ SerialInv
  OBVIOUS
<1> USE DEF P!Init
<1>1. P!TypeOK
  BY DEF P!TypeOK, P!Handlers, P!Idle, P!EmptyLevel, P!Level
<1>2. P!SoundLevel(stock)
  BY DEF P!EmptyLevel, P!SoundLevel
<1>3. KeysUnique /\ BookedOnce
  BY DEF KeysUnique, BookedOnce, P!Is
<1>4. OneInHand /\ InHandStands
  BY DEF OneInHand, InHandStands, HandStands, P!Idle
<1>5. RefundsFit
  BY DEF RefundsFit, RefundsRefer, P!RefundsWithinSale, P!VoidedUnreferenced
<1>6. CashTies
  BY DEF CashTies, ExpectedStands, P!CashIsCounted, P!ClosedIsConsolidated
<1> QED BY <1>1, <1>2, <1>3, <1>4, <1>5, <1>6 DEF TillInv, SerialInv

Others == << session, orders, drawer, books, stock >>

\* A step that only takes a request in hand or lets it go.
LEMMA HandStep ==
    ASSUME TillInv, UNCHANGED Others, handler' \in [Threads -> P!Handlers]
    PROVE  TillInv'
<1>1. P!TypeOK'
  BY DEF TillInv, Others, P!TypeOK
<1>2. P!SoundLevel(stock)'
  BY DEF TillInv, Others, P!SoundLevel
<1>3. KeysUnique' /\ BookedOnce'
  BY DEF TillInv, Others, KeysUnique, BookedOnce, P!Is
<1> QED BY <1>1, <1>2, <1>3 DEF TillInv

\* The fields of a request in hand.
LEMMA HandTyped ==
    ASSUME P!TypeOK, NEW t \in Threads
    PROVE  LET h == handler[t] IN
           /\ h \in P!Handlers
           /\ h.op = "sale" => h.uuid \in Uuids /\ h.session \in Sessions /\ h.qty \in SaleQtys
           /\ h.op = "refund" => h.uuid \in Uuids /\ h.session \in Sessions /\ h.qty \in SaleQtys /\ h.of \in Nat
           /\ h.op = "void" => h.of \in Nat
           /\ h.op = "cash" => h.session \in Sessions /\ h.amount \in CashAmounts
           /\ h.op = "close" => h.session \in Sessions
           /\ h = P!Idle <=> h.op = "idle"
<1>1. handler[t] \in P!Handlers
  BY DEF P!TypeOK
<1>2. CASE handler[t] = P!Idle
  BY <1>1, <1>2 DEF P!Idle
<1>3. CASE handler[t] \in [op : {"sale"}, uuid : Uuids, session : Sessions, qty : SaleQtys]
  BY <1>1, <1>3 DEF P!Idle
<1>4. CASE handler[t] \in [op : {"refund"}, uuid : Uuids, session : Sessions, qty : SaleQtys, of : Nat]
  BY <1>1, <1>4 DEF P!Idle
<1>5. CASE handler[t] \in [op : {"void"}, of : Nat]
  BY <1>1, <1>5 DEF P!Idle
<1>6. CASE handler[t] \in [op : {"cash"}, session : Sessions, amount : CashAmounts]
  BY <1>1, <1>6 DEF P!Idle
<1>7. CASE handler[t] \in [op : {"close"}, session : Sessions]
  BY <1>1, <1>7 DEF P!Idle
<1> QED BY <1>1, <1>2, <1>3, <1>4, <1>5, <1>6, <1>7 DEF P!Handlers

LEMMA FinishType == ASSUME P!TypeOK, NEW t \in Threads, P!Finish(t) PROVE handler' \in [Threads -> P!Handlers]
BY DEF P!TypeOK, P!Finish, P!Handlers

LEMMA BeginType ==
    ASSUME P!TypeOK, NEW t \in Threads, NEW r \in P!Handlers, P!Begin(t, r)
    PROVE  handler' \in [Threads -> P!Handlers]
BY DEF P!TypeOK, P!Begin

\* The status of one session moves; nothing is consolidated.
LEMMA StatusMoves ==
    ASSUME TillInv, NEW s \in Sessions, ~P!Is(s, "closed"),
           NEW row \in [status : {"open", "closing"}, expected : Int, counted : Nat],
           session' = [session EXCEPT ![s] = row],
           UNCHANGED << orders, drawer, books, stock >>, handler' \in [Threads -> P!Handlers]
    PROVE  TillInv'
<1>1. P!TypeOK'
  <2>1. session' \in [Sessions -> [status : {"none", "open", "closing", "closed"}, expected : Int, counted : Nat]]
    BY DEF TillInv, P!TypeOK
  <2> QED BY <2>1 DEF TillInv, P!TypeOK
<1>2. P!SoundLevel(stock)' /\ KeysUnique'
  BY DEF TillInv, P!SoundLevel, KeysUnique
<1>3. \A x \in Sessions : P!Is(x, "closed")' <=> P!Is(x, "closed")
  BY DEF TillInv, P!TypeOK, P!Is
<1>4. BookedOnce'
  BY <1>3 DEF TillInv, BookedOnce
<1> QED BY <1>1, <1>2, <1>4 DEF TillInv

LEMMA OpenStep ==
    ASSUME TillInv, NEW s \in Sessions, P!open(s)
    PROVE  TillInv'
<1> DEFINE row == [session[s] EXCEPT !.status = "open"]
<1>1. row \in [status : {"open", "closing"}, expected : Int, counted : Nat]
  BY DEF TillInv, P!TypeOK
<1>2. session' = [session EXCEPT ![s] = row] /\ UNCHANGED << orders, drawer, books, stock, handler >>
  BY DEF P!open
<1>3. ~P!Is(s, "closed")
  BY DEF P!open, P!Is
<1>4. handler' \in [Threads -> P!Handlers]
  BY <1>2 DEF TillInv, P!TypeOK
<1> QED BY <1>1, <1>2, <1>3, <1>4, StatusMoves

\* The order of a checked request.
LEMMA TicketType ==
    ASSUME P!TypeOK, NEW t \in Threads, handler[t].op \in {"sale", "refund"}
    PROVE  P!Ticket(handler[t]) \in P!Orders
BY HandTyped DEF P!Ticket, P!Orders

\* The loser of a race for a key writes nothing.
LEMMA InsertStep ==
    ASSUME TillInv, NEW t \in Threads, P!insert_order(t)
    PROVE  TillInv'
<1>1. PICK ticket \in P!Orders :
        /\ ticket = P!Ticket(handler[t])
        /\ orders' = IF P!Wins(ticket.uuid) THEN Append(orders, ticket) ELSE orders
  BY TicketType DEF TillInv, P!insert_order
<1>2. UNCHANGED << session, drawer, books, stock >> /\ handler' \in [Threads -> P!Handlers]
  BY FinishType DEF TillInv, P!insert_order
<1>3. orders \in Seq(P!Orders)
  BY DEF TillInv, P!TypeOK
<1>4. orders' \in Seq(P!Orders)
  BY <1>1, <1>3
<1>5. P!TypeOK' /\ P!SoundLevel(stock)' /\ BookedOnce'
  BY <1>2, <1>4 DEF TillInv, P!TypeOK, P!SoundLevel, BookedOnce, P!Is
<1>6. KeysUnique'
  <2>1. CASE ~P!Wins(ticket.uuid)
    BY <1>1, <2>1 DEF TillInv, KeysUnique
  <2>2. CASE P!Wins(ticket.uuid)
    <3>1. orders' = Append(orders, ticket) /\ \A n \in DOMAIN orders : orders[n].uuid # ticket.uuid
      BY <1>1, <2>2 DEF P!Wins, P!Captured
    <3>2. /\ DOMAIN orders' = DOMAIN orders \cup {Len(orders) + 1}
          /\ orders'[Len(orders) + 1] = ticket /\ \A n \in DOMAIN orders : orders'[n] = orders[n]
      BY <1>3, <3>1
    <3> QED BY <3>1, <3>2 DEF TillInv, KeysUnique
  <2> QED BY <2>1, <2>2
<1> QED BY <1>5, <1>6 DEF TillInv

\* A void of an order of the register.  A request in hand names an order that
\* exists, since none is ever removed.
VoidsOrder(n) == n \in DOMAIN orders /\ orders' = [orders EXCEPT ![n].status = "voided"]

LEMMA VoidShape ==
    ASSUME P!TypeOK, NEW n, VoidsOrder(n)
    PROVE  /\ orders' \in Seq(P!Orders) /\ DOMAIN orders' = DOMAIN orders
           /\ \A m \in DOMAIN orders :
                 /\ orders'[m].uuid = orders[m].uuid /\ orders'[m].kind = orders[m].kind
                 /\ orders'[m].session = orders[m].session /\ orders'[m].qty = orders[m].qty
                 /\ orders'[m].of = orders[m].of
                 /\ orders'[m].status = IF m = n THEN "voided" ELSE orders[m].status
<1>1. orders \in Seq(P!Orders) /\ n \in DOMAIN orders /\ orders' = [orders EXCEPT ![n].status = "voided"]
  BY DEF P!TypeOK, VoidsOrder
<1>2. \A m \in DOMAIN orders : orders[m] \in P!Orders
  BY <1>1
<1>3. [orders[n] EXCEPT !.status = "voided"] \in P!Orders
  BY <1>1, <1>2 DEF P!Orders
<1>4. orders' \in Seq(P!Orders) /\ DOMAIN orders' = DOMAIN orders
  <2> DEFINE row == [orders[n] EXCEPT !.status = "voided"]
  <2>1. orders' = [orders EXCEPT ![n] = row] /\ row \in P!Orders
    BY <1>1, <1>3
  <2> HIDE DEF row
  <2> QED BY <1>1, <2>1
<1> QED BY <1>1, <1>2, <1>4 DEF P!Orders

LEMMA VoidStep ==
    ASSUME TillInv, NEW t \in Threads, P!void_mark(t)
    PROVE  TillInv'
<1>1. UNCHANGED << session, drawer, books, stock >> /\ handler' \in [Threads -> P!Handlers]
  BY FinishType DEF TillInv, P!void_mark
<1> DEFINE n == handler[t].of
<1>2. orders' = [orders EXCEPT ![n].status = "voided"]
  BY DEF P!void_mark
<1>3. CASE n \in DOMAIN orders
  <2>1. VoidsOrder(n)
    BY <1>2, <1>3 DEF VoidsOrder
  <2> HIDE DEF n
  <2>2. P!TypeOK
    BY DEF TillInv
  <2>3. /\ orders' \in Seq(P!Orders) /\ DOMAIN orders' = DOMAIN orders
        /\ \A m \in DOMAIN orders : orders'[m].uuid = orders[m].uuid
    BY <2>1, <2>2, VoidShape
  <2> QED BY <1>1, <2>3 DEF TillInv, P!TypeOK, P!SoundLevel, KeysUnique, BookedOnce, P!Is
<1>4. CASE n \notin DOMAIN orders
  <2> HIDE DEF n
  <2>1. orders' = orders
    BY <1>2, <1>4 DEF TillInv, P!TypeOK
  <2> QED BY <1>1, <2>1 DEF TillInv, P!TypeOK, P!SoundLevel, KeysUnique, BookedOnce, P!Is
<1> QED BY <1>3, <1>4

LEMMA CashStep ==
    ASSUME TillInv, NEW t \in Threads, P!cash_movement(t)
    PROVE  TillInv'
<1>1. UNCHANGED << session, orders, books, stock >> /\ handler' \in [Threads -> P!Handlers]
  BY FinishType DEF TillInv, P!cash_movement
<1>2. drawer' \in [Sessions -> Int]
  <2>1. handler[t].session \in Sessions /\ handler[t].amount \in Int
    BY HandTyped, TillAssumption DEF TillInv, P!cash_movement
  <2> QED BY <2>1 DEF TillInv, P!TypeOK, P!cash_movement
<1> QED BY <1>1, <1>2 DEF TillInv, P!TypeOK, P!SoundLevel, KeysUnique, BookedOnce, P!Is

LEMMA CountStep ==
    ASSUME TillInv, NEW t \in Threads, NEW s \in Sessions, NEW counted \in Counts, P!close_count(t, s, counted)
    PROVE  TillInv'
<1> DEFINE row == [status |-> "closing", expected |-> P!expected_cash(s), counted |-> counted]
<1>1. P!expected_cash(s) \in Int
  BY NetType DEF TillInv, P!TypeOK, P!expected_cash
<1>2. row \in [status : {"open", "closing"}, expected : Int, counted : Nat]
  BY <1>1, TillAssumption
<1>3. session' = [session EXCEPT ![s] = row] /\ UNCHANGED << orders, drawer, books, stock >> /\ ~P!Is(s, "closed")
  BY DEF P!close_count, P!Countable, P!Is
<1>4. handler' \in [Threads -> P!Handlers]
  <2>1. [op |-> "close", session |-> s] \in P!Handlers
    BY DEF P!Handlers
  <2> QED BY <2>1, BeginType DEF TillInv, P!close_count
<1> HIDE DEF row
<1> QED BY <1>2, <1>3, <1>4, StatusMoves

\* The till's stock engine is the stock engine.
LEMMA TillStock ==
    ASSUME NEW l, NEW q, NEW c
    PROVE  /\ P!Level = Level /\ (P!SoundLevel(l) <=> SoundLevel(l))
           /\ P!Received(l, q, c) = Received(l, q, c) /\ P!Issued(l, q, c) = Issued(l, q, c)
           /\ (P!CanIssue(l, q, c) <=> CanIssue(l, q, c)) /\ P!level_average(l) = level_average(l)
           /\ P!reserve_up_to(l, q) = reserve_up_to(l, q) /\ P!release_reserved(l, q) = release_reserved(l, q)
<1>1. P!Level = Level /\ (P!SoundLevel(l) <=> SoundLevel(l)) /\ (P!CanIssue(l, q, c) <=> CanIssue(l, q, c))
  BY Zenon DEF P!Level, Level, P!SoundLevel, SoundLevel, P!CanIssue, CanIssue
<1>2. \A a, b : /\ P!RoundedQuotient(a, b) = RoundedQuotient(a, b) /\ P!Least(a, b) = Least(a, b)
                /\ P!Greatest(a, b) = Greatest(a, b)
  BY Zenon DEF P!RoundedQuotient, RoundedQuotient, P!Least, Least, P!Greatest, Greatest
<1>3. P!level_average(l) = level_average(l)
  BY <1>2, Zenon DEF P!level_average, level_average
<1>4. \A a : P!round_money(a) = round_money(a)
  BY <1>2, Zenon DEF P!round_money, round_money
<1>5. P!Received(l, q, c) = Received(l, q, c)
  BY <1>4, Zenon DEF P!Received, Received
<1>6. P!IssueValue(l, q) = IssueValue(l, q)
  BY <1>3, <1>4, Zenon DEF P!IssueValue, IssueValue
<1>7. P!Issued(l, q, c) = Issued(l, q, c)
  BY <1>6, Zenon DEF P!Issued, Issued
<1>8. P!Grant(l, q) = Grant(l, q)
  BY <1>2, Zenon DEF P!Grant, Grant
<1>9. P!reserve_up_to(l, q) = reserve_up_to(l, q)
  BY <1>8, Zenon DEF P!reserve_up_to, reserve_up_to
<1>10. P!release_reserved(l, q) = release_reserved(l, q)
  BY <1>2, Zenon DEF P!release_reserved, release_reserved
<1> QED BY <1>1, <1>3, <1>5, <1>7, <1>9, <1>10

\* What comes in at any cost keeps a level sound.
LEMMA InboundKeepsSound ==
    ASSUME NEW l \in Level, SoundLevel(l), NEW q \in Nat \ {0}, NEW c \in Int
    PROVE  Received(l, q, c) \in Level /\ SoundLevel(Received(l, q, c))
<1> DEFINE worth == round_money(q * c)
<1>1. worth \in Int
  BY MoneyType
<1>2. Received(l, q, c) = [l EXCEPT !.on_hand = @ + q, !.value = @ + worth]
  BY DEF Received
<1> HIDE DEF worth
<1>3. /\ Received(l, q, c) = [l EXCEPT !.on_hand = l.on_hand + q, !.value = l.value + worth]
      /\ l.on_hand + q \in Nat /\ l.on_hand + q # 0 /\ l.value + worth \in Int
  BY <1>1, <1>2 DEF Level
<1>4. Received(l, q, c) \in Level
  BY <1>3 DEF Level
<1>5. /\ Received(l, q, c).on_hand = l.on_hand + q /\ Received(l, q, c).reserved = l.reserved
      /\ Received(l, q, c).on_order = l.on_order
  BY <1>3 DEF Level
<1>6. SoundLevel(Received(l, q, c))
  BY <1>3, <1>5 DEF SoundLevel, Level
<1> QED BY <1>4, <1>6

\* The movement of a session.
LEMMA ConsolidatedStock ==
    ASSUME TillInv, NEW net \in Int, net > 0 => P!CanIssue(stock, net, 0),
           stock' = IF net > 0 THEN P!Issued(stock, net, 0)
                    ELSE IF net < 0 THEN P!Received(stock, -net, P!level_average(stock))
                    ELSE stock
    PROVE  stock' \in P!Level /\ P!SoundLevel(stock)'
<1>1. stock \in Level /\ SoundLevel(stock) /\ P!Level = Level
  BY TillStock DEF TillInv, P!TypeOK
<1>2. stock' \in Level /\ SoundLevel(stock')
  <2>1. CASE net > 0
    <3>1. CanIssue(stock, net, 0) /\ stock' = Issued(stock, net, 0)
      BY <2>1, TillStock
    <3> QED BY <1>1, <3>1, IssueKeepsSound
  <2>2. CASE net < 0
    <3>1. stock' = Received(stock, -net, level_average(stock))
      BY <2>2, TillStock
    <3>2. -net \in Nat \ {0} /\ level_average(stock) \in Int
      BY <1>1, <2>2, AverageType
    <3> QED BY <1>1, <3>1, <3>2, InboundKeepsSound
  <2>3. CASE net = 0
    BY <1>1, <2>3
  <2> QED BY <2>1, <2>2, <2>3
<1>3. P!SoundLevel(stock') <=> SoundLevel(stock')
  BY TillStock
<1> QED BY <1>1, <1>2, <1>3

LEMMA ConsolidateStep ==
    ASSUME TillInv, NEW t \in Threads, P!consolidate(t)
    PROVE  TillInv'
<1>1. PICK s \in Sessions, net \in Int, booked \in Int :
        /\ P!Consolidable(s)
        /\ net > 0 => P!CanIssue(stock, net, 0)
        /\ stock' = IF net > 0 THEN P!Issued(stock, net, 0)
                    ELSE IF net < 0 THEN P!Received(stock, -net, P!level_average(stock))
                    ELSE stock
        /\ books' = Append(books, [session |-> s, moved |-> net, cash |-> booked])
        /\ session' = [session EXCEPT ![s].status = "closed"]
  <2> DEFINE s == handler[t].session
  <2>1. s \in Sessions
    BY HandTyped DEF TillInv, P!consolidate
  <2>2. P!Net(s) \in Int
    BY NetType DEF TillInv
  <2>3. P!CashBooked(s) \in Int
    BY <2>1, <2>2 DEF P!CashBooked, TillInv, P!TypeOK
  <2> QED BY <2>1, <2>2, <2>3 DEF P!consolidate
<1>2. UNCHANGED << orders, drawer >> /\ handler' \in [Threads -> P!Handlers]
  BY FinishType DEF TillInv, P!consolidate
<1>3. stock' \in P!Level /\ P!SoundLevel(stock)'
  BY <1>1, ConsolidatedStock
<1> DEFINE Books == [session : Sessions, moved : Int, cash : Int]
           book == [session |-> s, moved |-> net, cash |-> booked]
<1>4. books \in Seq(Books) /\ book \in Books /\ books' = Append(books, book) /\ book.session = s
  BY <1>1 DEF TillInv, P!TypeOK
<1> HIDE DEF book
<1>5. books' \in Seq(Books)
  BY <1>4
<1>6. /\ DOMAIN books' = DOMAIN books \cup {Len(books) + 1} /\ Len(books) + 1 \notin DOMAIN books
      /\ books'[Len(books) + 1] = book /\ \A i \in DOMAIN books : books'[i] = books[i]
  BY <1>4
<1>7. session' \in [Sessions -> [status : {"none", "open", "closing", "closed"}, expected : Int, counted : Nat]]
  BY <1>1 DEF TillInv, P!TypeOK
<1>8. \A x \in Sessions : P!Is(x, "closed")' <=> x = s \/ P!Is(x, "closed")
  BY <1>1 DEF TillInv, P!TypeOK, P!Is
<1>9. ~P!Is(s, "closed")
  BY <1>1 DEF P!Consolidable, P!Is
<1>10. P!TypeOK'
  BY <1>2, <1>3, <1>5, <1>7 DEF TillInv, P!TypeOK
<1>11. \A i \in DOMAIN books : books[i].session # s
  BY <1>9, <1>1 DEF TillInv, BookedOnce
<1>12. BookedOnce'
  <2>1. \A i, j \in DOMAIN books' : books'[i].session = books'[j].session => i = j
    BY <1>4, <1>6, <1>11 DEF TillInv, BookedOnce
  <2>2. ASSUME NEW x \in Sessions
        PROVE  (x = s \/ P!Is(x, "closed")) <=> \E i \in DOMAIN books' : books'[i].session = x
    BY <1>4, <1>6 DEF TillInv, BookedOnce
  <2> QED BY <1>8, <2>1, <2>2 DEF BookedOnce
<1>13. KeysUnique'
  BY <1>2 DEF TillInv, KeysUnique
<1> QED BY <1>3, <1>10, <1>12, <1>13 DEF TillInv

\* Other documents move the level.
LEMMA StockStep ==
    ASSUME TillInv, NEW q \in SaleQtys, P!receive_stock(q) \/ P!reserve_stock(q) \/ P!release_stock(q)
    PROVE  TillInv'
<1>1. UNCHANGED << session, orders, drawer, books, handler >>
  BY DEF P!receive_stock, P!reserve_stock, P!release_stock
<1>2. stock \in Level /\ SoundLevel(stock) /\ P!Level = Level
  BY TillStock DEF TillInv, P!TypeOK
<1>3. q \in Nat \ {0} /\ q \in Int /\ CostPerCent \in Int
  BY TillAssumption, MaxQtyAssumption, CostPerCentAssumption DEF CostPerCentAssumption
<1>4. stock' = Received(stock, q, CostPerCent) \/ stock' = reserve_up_to(stock, q) \/ stock' = release_reserved(stock, q)
  BY TillStock DEF P!receive_stock, P!reserve_stock, P!release_stock
<1>5. stock' \in Level /\ SoundLevel(stock')
  BY <1>2, <1>3, <1>4, InboundKeepsSound, ReserveKeepsSound, ReleaseKeepsSound
<1>6. P!SoundLevel(stock') <=> SoundLevel(stock')
  BY TillStock
<1> QED BY <1>1, <1>2, <1>5, <1>6 DEF TillInv, P!TypeOK, KeysUnique, BookedOnce, P!Is

LEMMA HandsStep ==
    ASSUME TillInv, NEW t \in Threads, NEW s \in Sessions,
           \/ P!abandon(t) \/ P!close_retry(t, s)
           \/ \E n \in DOMAIN orders : P!void_check(t, n)
           \/ \E amount \in CashAmounts : P!cash_check(t, s, amount)
           \/ \E u \in Uuids, q \in SaleQtys :
                 P!capture(t, u, s, q) \/ \E n \in DOMAIN orders : P!refund(t, u, s, n, q)
    PROVE  TillInv'
<1>1. P!TypeOK /\ DOMAIN orders \subseteq Nat
  BY DEF TillInv, P!TypeOK
<1>2. CASE P!abandon(t)
  BY <1>1, <1>2, FinishType, HandStep DEF P!abandon, Others
<1>3. CASE P!close_retry(t, s)
  <2>1. [op |-> "close", session |-> s] \in P!Handlers
    BY DEF P!Handlers
  <2> QED BY <1>1, <1>3, <2>1, BeginType, HandStep DEF P!close_retry, Others
<1>4. ASSUME NEW n \in DOMAIN orders, P!void_check(t, n) PROVE TillInv'
  <2>1. [op |-> "void", of |-> n] \in P!Handlers
    BY <1>1 DEF P!Handlers
  <2> QED BY <1>1, <1>4, <2>1, BeginType, HandStep DEF P!void_check, Others
<1>5. ASSUME NEW amount \in CashAmounts, P!cash_check(t, s, amount) PROVE TillInv'
  <2>1. [op |-> "cash", session |-> s, amount |-> amount] \in P!Handlers
    BY DEF P!Handlers
  <2> QED BY <1>1, <1>5, <2>1, BeginType, HandStep DEF P!cash_check, Others
<1>6. ASSUME NEW u \in Uuids, NEW q \in SaleQtys, P!capture(t, u, s, q) PROVE TillInv'
  <2>1. [op |-> "sale", uuid |-> u, session |-> s, qty |-> q] \in P!Handlers
    BY DEF P!Handlers
  <2> QED BY <1>1, <1>6, <2>1, BeginType, HandStep DEF P!capture, Others
<1>7. ASSUME NEW u \in Uuids, NEW q \in SaleQtys, NEW n \in DOMAIN orders, P!refund(t, u, s, n, q) PROVE TillInv'
  <2>1. [op |-> "refund", uuid |-> u, session |-> s, qty |-> q, of |-> n] \in P!Handlers
    BY <1>1 DEF P!Handlers
  <2> QED BY <1>1, <1>7, <2>1, BeginType, HandStep DEF P!refund, Others
<1> QED BY <1>2, <1>3, <1>4, <1>5, <1>6, <1>7

LEMMA NextTill == TillInv /\ P!Next => TillInv'
<1> SUFFICES ASSUME TillInv, P!Next PROVE TillInv'
  OBVIOUS
<1>1. ASSUME NEW s \in Sessions, P!open(s) PROVE TillInv'
  BY <1>1, OpenStep
<1>2. ASSUME NEW s \in Sessions, NEW t \in Threads, P!Request(t, s) PROVE TillInv'
  <2>1. CASE \E counted \in Counts : P!close_count(t, s, counted)
    BY <2>1, CountStep
  <2> QED BY <1>2, <2>1, HandsStep, Zenon DEF P!Request
<1>3. ASSUME NEW t \in Threads, NEW n \in DOMAIN orders, P!void_check(t, n) PROVE TillInv'
  <2>1. orders[n].session \in Sessions
    BY OrdersTyped DEF TillInv, P!Orders
  <2> QED BY <1>3, <2>1, HandsStep, Zenon
<1>4. ASSUME NEW t \in Threads, P!abandon(t) PROVE TillInv'
  BY <1>4, FinishType, HandStep DEF P!abandon, Others, TillInv
<1>5. ASSUME NEW t \in Threads, P!insert_order(t) \/ P!void_mark(t) \/ P!cash_movement(t) \/ P!consolidate(t)
      PROVE  TillInv'
  BY <1>5, InsertStep, VoidStep, CashStep, ConsolidateStep
<1>6. ASSUME NEW q \in SaleQtys, P!receive_stock(q) \/ P!reserve_stock(q) \/ P!release_stock(q)
      PROVE  TillInv'
  BY <1>6, StockStep
<1> QED BY <1>1, <1>2, <1>3, <1>4, <1>5, <1>6, Zenon DEF P!Next

----------------------------------------------------------------------------
(* What holds besides when one request is in hand at a time.               *)

\* What a request was let through for does not depend on other requests.
LEMMA HandKept ==
    ASSUME P!TypeOK, UNCHANGED orders, \A s \in Sessions : P!Is(s, "open") => P!Is(s, "open")',
           NEW t \in Threads, HandStands(handler[t]), handler'[t] = handler[t]
    PROVE  HandStands(handler[t])'
<1>1. PICK h : h = handler[t]
  OBVIOUS
<1>2. /\ h.op \in {"sale", "refund", "cash"} => h.session \in Sessions
      /\ h.op = "void" /\ h.of \in DOMAIN orders => orders[h.of].session \in Sessions
  BY <1>1, HandTyped, OrdersTyped DEF P!Orders
<1>3. HandStands(h)
  BY <1>1, Zenon
<1>4. HandStands(h)'
  BY <1>2, <1>3 DEF HandStands, P!Refundable, P!Total, P!RefundsOf
<1>5. handler'[t] = h
  BY <1>1
<1> QED BY <1>4, <1>5 DEF HandStands, P!Refundable, P!Total, P!RefundsOf, P!Is

\* A request that finishes leaves nothing in hand.
LEMMA AllIdle ==
    ASSUME P!TypeOK, OneInHand, NEW t \in Threads, handler[t] # P!Idle, P!Finish(t)
    PROVE  InHandStands'
<1>1. \A u \in Threads : handler'[u] = P!Idle
  BY DEF P!TypeOK, OneInHand, P!Finish
<1>2. \A u \in Threads : handler'[u].op = "idle"
  BY <1>1 DEF P!Idle
<1> QED BY <1>2 DEF InHandStands, HandStands

LEMMA FitKept == ASSUME RefundsFit, UNCHANGED orders PROVE RefundsFit'
BY DEF RefundsFit, RefundsRefer, P!RefundsWithinSale, P!VoidedUnreferenced, P!Total, P!RefundsOf

\* A step that leaves counted sessions alone leaves their books right.
CountedRest ==
    \A s \in Sessions : session'[s].status \in {"closing", "closed"} =>
        /\ session[s].status \in {"closing", "closed"}
        /\ session'[s].expected = session[s].expected /\ session'[s].counted = session[s].counted
        /\ drawer'[s] = drawer[s]
        /\ \A k \in {"sale", "refund"} : P!CapturedIn(s, k)' = P!CapturedIn(s, k)

LEMMA BooksTyped == ASSUME P!TypeOK, NEW i \in DOMAIN books PROVE books[i].session \in Sessions
<1> DEFINE Books == [session : Sessions, moved : Int, cash : Int]
<1>1. books \in Seq(Books)
  BY DEF P!TypeOK
<1>2. \A b \in Books : b.session \in Sessions
  OBVIOUS
<1> HIDE DEF Books
<1> QED BY <1>1, <1>2

\* What a sequence holds when an element is appended to it.
LEMMA Appended ==
    ASSUME NEW S, NEW seq \in Seq(S), NEW e, NEW i \in DOMAIN Append(seq, e)
    PROVE  \/ i = Len(seq) + 1 /\ Append(seq, e)[i] = e
           \/ i \in DOMAIN seq /\ Append(seq, e)[i] = seq[i]
OBVIOUS

LEMMA TiesKept ==
    ASSUME TillInv, TillInv', CashTies, KeepsQtys, CountedRest, UNCHANGED books
    PROVE  CashTies'
<1>1. ASSUME NEW s \in Sessions, session'[s].status \in {"closing", "closed"}
      PROVE  /\ P!Net(s)' = P!Net(s) /\ session'[s].expected = P!Net(s) + drawer'[s]
             /\ session'[s].counted = session[s].counted /\ drawer'[s] = drawer[s]
  <2>1. P!Net(s)' = P!Net(s)
    BY <1>1, NetKept DEF CountedRest
  <2>2. session[s].expected = P!Net(s) + drawer[s]
    BY <1>1 DEF CountedRest, CashTies, ExpectedStands, P!expected_cash
  <2> QED BY <1>1, <2>1, <2>2 DEF CountedRest
<1>2. ExpectedStands'
  BY <1>1 DEF ExpectedStands, P!expected_cash
<1>3. ASSUME NEW i \in DOMAIN books'
      PROVE  /\ books'[i].cash = session'[books'[i].session].counted - drawer'[books'[i].session]
             /\ books'[i].moved = P!Net(books[i].session)'
  <2>1. PICK s : s = books[i].session
    OBVIOUS
  <2>2. s \in Sessions /\ i \in DOMAIN books /\ books'[i].session = s
    <3>1. books' = books /\ i \in DOMAIN books
      OBVIOUS
    <3>2. books[i].session \in Sessions
      BY <3>1, BooksTyped DEF TillInv
    <3> QED BY <2>1, <3>1, <3>2
  <2>3. session'[s].status = "closed"
    BY <2>2 DEF TillInv, BookedOnce, P!Is
  <2>4. books[i].cash = session[s].counted - drawer[s] /\ books[i].moved = P!Net(s)
    BY <2>1, <2>2, Zenon DEF CashTies, P!CashIsCounted, P!ClosedIsConsolidated
  <2>5. books'[i].cash = session'[s].counted - drawer'[s] /\ books'[i].moved = P!Net(s)'
    BY <1>1, <2>2, <2>3, <2>4
  <2>6. books[i].session' = s
    BY <2>2
  <2>7. P!Net(books[i].session)' = P!Net(s)'
    BY <2>1, <2>6 DEF P!Net, P!CapturedIn
  <2> QED BY <2>2, <2>5, <2>7
<1>4. P!CashIsCounted' /\ P!ClosedIsConsolidated'
  BY <1>3 DEF P!CashIsCounted, P!ClosedIsConsolidated
<1> QED BY <1>2, <1>4 DEF CashTies

\* A step that leaves sessions, orders, drawers and books alone.
LEMMA BooksRest ==
    ASSUME TillInv, TillInv', RefundsFit, CashTies, UNCHANGED << session, orders, drawer, books >>
    PROVE  RefundsFit' /\ CashTies'
<1>1. KeepsQtys
  BY DEF KeepsQtys
<1>2. CountedRest
  BY DEF CountedRest, P!CapturedIn
<1> QED BY <1>1, <1>2, TiesKept, FitKept

\* Requests that are let through, given up or consolidated, and other
\* documents, touch no order.
LEMMA BeginSerial ==
    ASSUME TillInv, TillInv', SerialInv, OneInHand', UNCHANGED << session, orders, drawer, books >>,
           NEW t \in Threads, NEW r, P!Begin(t, r), HandStands(r)
    PROVE  SerialInv'
<1>1. RefundsFit' /\ CashTies'
  BY BooksRest DEF SerialInv
<1>2. P!TypeOK
  BY DEF TillInv
<1>3. handler'[t] = r /\ \A u \in Threads : u # t => handler'[u] = handler[u]
  BY <1>2 DEF P!Begin, P!TypeOK
<1>4. ASSUME NEW u \in Threads PROVE HandStands(handler[u])'
  <2>1. CASE u = t
    <3>1. HandStands(r)'
      BY DEF HandStands, P!Refundable, P!Total, P!RefundsOf, P!Is
    <3> QED BY <1>3, <2>1, <3>1 DEF HandStands, P!Refundable, P!Total, P!RefundsOf, P!Is
  <2>2. CASE u # t
    <3>1. HandStands(handler[u]) /\ handler'[u] = handler[u]
      BY <1>3, <2>2 DEF SerialInv, InHandStands
    <3>2. \A s \in Sessions : P!Is(s, "open") => P!Is(s, "open")'
      BY DEF P!Is
    <3> QED BY <1>2, <3>1, <3>2, HandKept
  <2> QED BY <2>1, <2>2
<1> QED BY <1>1, <1>4 DEF SerialInv, InHandStands

LEMMA AbandonSerial ==
    ASSUME TillInv, TillInv', SerialInv, OneInHand', NEW t \in Threads, P!abandon(t)
    PROVE  SerialInv'
<1>1. RefundsFit' /\ CashTies'
  BY BooksRest DEF SerialInv, P!abandon
<1>2. InHandStands'
  BY AllIdle DEF TillInv, SerialInv, P!abandon
<1> QED BY <1>1, <1>2 DEF SerialInv

LEMMA StockSerial ==
    ASSUME TillInv, TillInv', SerialInv, OneInHand', UNCHANGED << session, orders, drawer, books, handler >>
    PROVE  SerialInv'
<1>1. RefundsFit' /\ CashTies'
  BY BooksRest DEF SerialInv
<1>2. \A s \in Sessions : P!Is(s, "open") => P!Is(s, "open")'
  BY DEF P!Is
<1>3. P!TypeOK
  BY DEF TillInv
<1>4. ASSUME NEW u \in Threads PROVE HandStands(handler[u])'
  <2>1. HandStands(handler[u]) /\ handler'[u] = handler[u]
    BY DEF SerialInv, InHandStands
  <2> QED BY <1>2, <1>3, <2>1, HandKept
<1> QED BY <1>1, <1>4 DEF SerialInv, InHandStands

LEMMA OpenSerial ==
    ASSUME TillInv, TillInv', SerialInv, OneInHand', NEW s \in Sessions, P!open(s)
    PROVE  SerialInv'
<1>1. /\ session' = [session EXCEPT ![s].status = "open"] /\ session[s].status = "none"
      /\ UNCHANGED << orders, drawer, books, stock, handler >>
  BY DEF P!open, P!Is
<1>2. P!TypeOK
  BY DEF TillInv
<1>3. \A x \in Sessions : /\ x # s => session'[x] = session[x]
                          /\ session'[s].status = "open"
  BY <1>1, <1>2 DEF P!TypeOK
<1>4. CountedRest
  BY <1>1, <1>3 DEF CountedRest, P!CapturedIn
<1>5. KeepsQtys
  BY <1>1 DEF KeepsQtys
<1>6. CashTies' /\ RefundsFit'
  BY <1>1, <1>4, <1>5, TiesKept, FitKept DEF SerialInv
<1>7. \A x \in Sessions : P!Is(x, "open") => P!Is(x, "open")'
  BY <1>3 DEF P!Is
<1>8. ASSUME NEW u \in Threads PROVE HandStands(handler[u])'
  <2>1. HandStands(handler[u]) /\ handler'[u] = handler[u]
    BY <1>1 DEF SerialInv, InHandStands
  <2> QED BY <1>1, <1>2, <1>7, <2>1, HandKept
<1> QED BY <1>6, <1>8 DEF SerialInv, InHandStands

\* A request in hand writes to an open session.
LEMMA CashSerial ==
    ASSUME TillInv, TillInv', SerialInv, OneInHand', NEW t \in Threads, P!cash_movement(t)
    PROVE  SerialInv'
<1>1. InHandStands'
  BY AllIdle DEF TillInv, SerialInv, P!cash_movement, P!Idle
<1>2. UNCHANGED << session, orders, books >> /\ session[handler[t].session].status = "open"
  BY DEF SerialInv, InHandStands, HandStands, P!cash_movement, P!Is
<1>3. \A s \in Sessions : s # handler[t].session => drawer'[s] = drawer[s]
  BY DEF TillInv, P!TypeOK, P!cash_movement
<1>4. CountedRest
  BY <1>2, <1>3 DEF CountedRest, P!CapturedIn
<1>5. KeepsQtys
  BY <1>2 DEF KeepsQtys
<1> QED BY <1>1, <1>2, <1>4, <1>5, TiesKept, FitKept DEF SerialInv

\* The expectation of the moment a session is counted.
LEMMA CountSerial ==
    ASSUME TillInv, TillInv', SerialInv, OneInHand',
           NEW t \in Threads, NEW s \in Sessions, NEW counted \in Counts, P!close_count(t, s, counted)
    PROVE  SerialInv'
<1>1. /\ session[s].status = "open" /\ UNCHANGED << orders, drawer, books >>
      /\ session' = [session EXCEPT ![s] = [status |-> "closing", expected |-> P!expected_cash(s), counted |-> counted]]
      /\ P!Begin(t, [op |-> "close", session |-> s])
  BY DEF P!close_count, P!Countable, P!Is
<1>2. P!TypeOK
  BY DEF TillInv
<1>3. /\ session'[s].expected = P!expected_cash(s)
      /\ \A x \in Sessions : x # s => session'[x] = session[x]
  BY <1>1, <1>2 DEF P!TypeOK
<1>4. \A x : P!expected_cash(x)' = P!expected_cash(x)
  BY <1>1 DEF P!expected_cash, P!Net, P!Total, P!CapturedIn
<1>5. ExpectedStands'
  BY <1>3, <1>4 DEF SerialInv, CashTies, ExpectedStands
<1>6. \A i \in DOMAIN books : books[i].session \in Sessions /\ books[i].session # s
  BY <1>1, <1>2, BooksTyped DEF TillInv, BookedOnce, P!Is
<1>7. P!CashIsCounted'
  BY <1>1, <1>3, <1>6 DEF SerialInv, CashTies, P!CashIsCounted
<1>8. P!ClosedIsConsolidated'
  BY <1>1 DEF SerialInv, CashTies, P!ClosedIsConsolidated, P!Net, P!Total, P!CapturedIn
<1>9. RefundsFit'
  BY <1>1, FitKept DEF SerialInv
<1>10. InHandStands'
  <2>1. \A u \in Threads : handler'[u] = P!Idle \/ handler'[u] = [op |-> "close", session |-> s]
    <3>1. handler'[t] = [op |-> "close", session |-> s]
      BY <1>1, <1>2 DEF P!Begin, P!TypeOK
    <3>2. handler'[t] # P!Idle
      BY <3>1 DEF P!Idle
    <3> QED BY <3>1, <3>2 DEF OneInHand
  <2>2. \A u \in Threads : handler'[u].op \in {"idle", "close"}
    BY <2>1 DEF P!Idle
  <2> QED BY <2>2 DEF InHandStands, HandStands
<1> QED BY <1>5, <1>7, <1>8, <1>9, <1>10 DEF SerialInv, CashTies

\* What is booked is what was counted.
LEMMA ConsolidateSerial ==
    ASSUME TillInv, TillInv', SerialInv, OneInHand', NEW t \in Threads, P!consolidate(t)
    PROVE  SerialInv'
<1>1. PICK s : s = handler[t].session
  OBVIOUS
<1>2. /\ session[s].status = "closing" /\ UNCHANGED << orders, drawer >>
      /\ session' = [session EXCEPT ![s].status = "closed"]
      /\ books' = Append(books, [session |-> s, moved |-> P!Net(s), cash |-> P!CashBooked(s)])
  BY <1>1 DEF P!consolidate, P!Consolidable, P!Is
<1>3. P!TypeOK /\ s \in Sessions
  BY <1>1, HandTyped DEF TillInv, P!consolidate
<1>4. \A x \in Sessions : /\ session'[x].expected = session[x].expected /\ session'[x].counted = session[x].counted
                          /\ session'[x].status = IF x = s THEN "closed" ELSE session[x].status
  BY <1>2, <1>3 DEF P!TypeOK
<1>5. \A x : P!Net(x)' = P!Net(x)
  BY <1>2 DEF P!Net, P!Total, P!CapturedIn
<1>6. ExpectedStands'
  BY <1>2, <1>4, <1>5 DEF SerialInv, CashTies, ExpectedStands, P!expected_cash
<1>7. P!CashBooked(s) = session[s].counted - drawer[s]
  <2>1. session[s].expected = P!Net(s) + drawer[s]
    BY <1>2, <1>3 DEF SerialInv, CashTies, ExpectedStands, P!expected_cash
  <2>2. P!Net(s) \in Int /\ drawer[s] \in Int /\ session[s].counted \in Int
    BY <1>3, NetType DEF P!TypeOK
  <2> QED BY <2>1, <2>2 DEF P!CashBooked
<1>8. ASSUME NEW i \in DOMAIN books'
      PROVE  /\ books'[i].cash = session'[books'[i].session].counted - drawer'[books'[i].session]
             /\ books'[i].moved = P!Net(books'[i].session)
  <2> DEFINE book == [session |-> s, moved |-> P!Net(s), cash |-> P!CashBooked(s)]
  <2>1. book.session = s /\ book.moved = P!Net(s) /\ book.cash = P!CashBooked(s) /\ books' = Append(books, book)
    BY <1>2
  <2> HIDE DEF book
  <2>2. \E S : books \in Seq(S)
    BY <1>3 DEF P!TypeOK
  <2>3. \/ books'[i] = book
        \/ i \in DOMAIN books /\ books'[i] = books[i]
    BY <2>1, <2>2, Appended
  <2>4. CASE books'[i] = book
    BY <1>2, <1>3, <1>4, <1>7, <2>1, <2>4
  <2>5. CASE i \in DOMAIN books /\ books'[i] = books[i]
    <3>1. books[i].session \in Sessions
      BY <1>3, <2>5, BooksTyped
    <3>2. /\ books[i].cash = session[books[i].session].counted - drawer[books[i].session]
          /\ books[i].moved = P!Net(books[i].session)
      BY <2>5, Zenon DEF SerialInv, CashTies, P!CashIsCounted, P!ClosedIsConsolidated
    <3> QED BY <1>2, <1>4, <2>5, <3>1, <3>2
  <2> QED BY <2>3, <2>4, <2>5
<1>9. P!CashIsCounted'
  BY <1>8 DEF P!CashIsCounted
<1>10. P!ClosedIsConsolidated'
  <2>1. ASSUME NEW i \in DOMAIN books'
        PROVE  books'[i].moved = P!Net(books[i].session)'
    <3>1. PICK x : x = books'[i].session
      OBVIOUS
    <3>2. books'[i].moved = P!Net(x)'
      BY <1>5, <1>8, <3>1
    <3> QED BY <3>1, <3>2 DEF P!Net, P!Total, P!CapturedIn
  <2> QED BY <2>1 DEF P!ClosedIsConsolidated
<1>11. RefundsFit'
  BY <1>2, FitKept DEF SerialInv
<1>12. InHandStands'
  BY AllIdle DEF TillInv, SerialInv, P!consolidate, P!Idle
<1> QED BY <1>6, <1>9, <1>10, <1>11, <1>12 DEF SerialInv, CashTies

\* A void counts no order in, and no refund of the order it voids out.
LEMMA VoidSerial ==
    ASSUME TillInv, TillInv', SerialInv, OneInHand', NEW t \in Threads, P!void_mark(t)
    PROVE  SerialInv'
<1>1. PICK n : n = handler[t].of
  OBVIOUS
<1>2. P!TypeOK
  BY DEF TillInv
<1>3. /\ n \in DOMAIN orders /\ session[orders[n].session].status = "open"
      /\ P!RefundsOf(n) = {} /\ VoidsOrder(n)
  BY <1>1 DEF SerialInv, InHandStands, HandStands, P!void_mark, P!Voidable, P!Is, VoidsOrder
<1>4. UNCHANGED << session, drawer, books >> /\ InHandStands'
  BY AllIdle DEF TillInv, SerialInv, P!void_mark, P!Idle
<1>5. /\ DOMAIN orders' = DOMAIN orders
      /\ \A m \in DOMAIN orders :
            /\ orders'[m].kind = orders[m].kind /\ orders'[m].session = orders[m].session
            /\ orders'[m].qty = orders[m].qty /\ orders'[m].of = orders[m].of
            /\ orders'[m].status = IF m = n THEN "voided" ELSE orders[m].status
  BY <1>2, <1>3, VoidShape
<1>6. KeepsQtys
  BY <1>5 DEF KeepsQtys
<1>7. \A s : s # orders[n].session => \A k : P!CapturedIn(s, k)' = P!CapturedIn(s, k)
  BY <1>5 DEF P!CapturedIn
<1>8. CountedRest
  BY <1>3, <1>4, <1>7 DEF CountedRest
<1>9. CashTies'
  BY <1>4, <1>6, <1>8, TiesKept DEF SerialInv
<1>10. \A m : P!RefundsOf(m)' \subseteq P!RefundsOf(m)
  BY <1>5 DEF P!RefundsOf
<1>11. RefundsRefer'
  BY <1>5 DEF SerialInv, RefundsFit, RefundsRefer
<1>12. P!VoidedUnreferenced'
  BY <1>3, <1>5, <1>10 DEF SerialInv, RefundsFit, P!VoidedUnreferenced
<1>13. ASSUME NEW m \in DOMAIN orders' PROVE P!Total(P!RefundsOf(m))' <= orders'[m].qty
  <2>1. PICK S : S = P!RefundsOf(m)'
    OBVIOUS
  <2>2. S \subseteq P!RefundsOf(m) /\ P!RefundsOf(m) \subseteq DOMAIN orders
    BY <1>10, <2>1 DEF P!RefundsOf
  <2>3. P!Total(S)' = P!Total(S)
    BY <1>6, <2>2, TotalKept
  <2>4. P!Total(S) <= P!Total(P!RefundsOf(m))
    BY <1>2, <2>2, TotalSmaller
  <2>5. P!Total(P!RefundsOf(m)) <= orders[m].qty
    BY <1>5 DEF SerialInv, RefundsFit, P!RefundsWithinSale
  <2>6. P!Total(P!RefundsOf(m))' = P!Total(S)'
    BY <2>1 DEF P!Total
  <2>7. P!Total(S) \in Nat /\ P!Total(P!RefundsOf(m)) \in Nat /\ orders[m].qty \in Nat /\ orders'[m].qty = orders[m].qty
    BY <1>2, <1>5, <2>2, OrdersFinite, OrdersTyped
  <2> QED BY <2>3, <2>4, <2>5, <2>6, <2>7
<1>14. RefundsFit'
  BY <1>11, <1>12, <1>13 DEF RefundsFit, P!RefundsWithinSale
<1> QED BY <1>4, <1>9, <1>14 DEF SerialInv

\* A refund is on top of the refunds of its sale, which is still captured.
LEMMA InsertSerial ==
    ASSUME TillInv, TillInv', SerialInv, OneInHand', NEW t \in Threads, P!insert_order(t)
    PROVE  SerialInv'
<1>1. P!TypeOK
  BY DEF TillInv
<1>2. UNCHANGED << session, drawer, books >> /\ InHandStands'
  BY AllIdle DEF TillInv, SerialInv, P!insert_order, P!Idle
<1>3. PICK h : h = handler[t]
  OBVIOUS
<1>4. /\ h.op \in {"sale", "refund"} /\ HandStands(h) /\ h.session \in Sessions
      /\ h.op = "refund" => h.of \in DOMAIN orders
      /\ orders' = IF P!Wins(P!Ticket(h).uuid) THEN Append(orders, P!Ticket(h)) ELSE orders
  BY <1>1, <1>3, HandTyped DEF SerialInv, InHandStands, HandStands, P!insert_order
<1>5. CASE orders' = orders
  BY <1>2, <1>5, BooksRest DEF SerialInv
<1>6. CASE orders' = Append(orders, P!Ticket(h))
  <2>0. PICK N : N = Len(orders) + 1
    OBVIOUS
  <2>1. PICK ticket \in P!Orders :
          /\ ticket = P!Ticket(h) /\ ticket.kind = h.op /\ ticket.session = h.session /\ ticket.qty = h.qty
          /\ ticket.status = "captured" /\ (h.op = "refund" => ticket.of = h.of)
    BY <1>1, <1>3, <1>4, TicketType DEF P!Ticket
  <2>2. /\ DOMAIN orders' = DOMAIN orders \cup {N} /\ N \notin DOMAIN orders /\ orders'[N] = ticket
        /\ \A m \in DOMAIN orders : orders'[m] = orders[m]
    BY <1>1, <1>6, <2>0, <2>1 DEF P!TypeOK
  <2>3. KeepsQtys
    BY <2>2 DEF KeepsQtys
  <2>4. session[ticket.session].status = "open"
    BY <1>4, <2>1 DEF HandStands, P!Is
  <2>5. \A s : s # ticket.session => \A k : P!CapturedIn(s, k)' = P!CapturedIn(s, k)
    BY <2>2 DEF P!CapturedIn
  <2>6. CountedRest
    BY <1>2, <2>4, <2>5 DEF CountedRest
  <2>7. CashTies'
    BY <1>2, <2>3, <2>6, TiesKept DEF SerialInv
  <2>8. RefundsRefer'
    BY <1>4, <2>1, <2>2 DEF SerialInv, RefundsFit, RefundsRefer
  <2>9. P!RefundsOf(N)' = {}
    BY <1>4, <2>1, <2>2 DEF SerialInv, RefundsFit, RefundsRefer, P!RefundsOf
  <2>10. \A m \in DOMAIN orders : ~(h.op = "refund" /\ h.of = m) => P!RefundsOf(m)' = P!RefundsOf(m)
    BY <2>1, <2>2 DEF P!RefundsOf
  <2>11. h.op = "refund" =>
           /\ P!RefundsOf(h.of)' = P!RefundsOf(h.of) \cup {N} /\ orders[h.of].status = "captured"
           /\ P!Total(P!RefundsOf(h.of)) + h.qty <= orders[h.of].qty
    BY <1>4, <2>1, <2>2 DEF P!RefundsOf, HandStands, P!Refundable
  <2>12. P!VoidedUnreferenced'
    BY <2>1, <2>2, <2>9, <2>10, <2>11 DEF SerialInv, RefundsFit, P!VoidedUnreferenced
  <2>13. ASSUME NEW m \in DOMAIN orders' PROVE P!Total(P!RefundsOf(m))' <= orders'[m].qty
    <3>1. PICK S : S = P!RefundsOf(m)'
      OBVIOUS
    <3>2. P!Total(P!RefundsOf(m))' = Sum(QtyOf', S)
      BY <3>1, RefundsPrimed
    <3>3. CASE m = N
      <4>1. S = {}
        BY <2>9, <3>1, <3>3
      <4>2. Sum(QtyOf', S) = 0
        BY <4>1, SumZero
      <4>3. orders'[m].qty \in Nat
        <5>1. ticket.qty \in SaleQtys
          BY DEF P!Orders
        <5>2. ticket.qty \in 1..MaxQty
          BY <5>1, TillAssumption
        <5> QED BY <2>2, <3>3, <5>2
      <4> QED BY <3>2, <4>2, <4>3
    <3>4. CASE m \in DOMAIN orders /\ ~(h.op = "refund" /\ h.of = m)
      <4>1. S = P!RefundsOf(m) /\ S \subseteq DOMAIN orders
        BY <2>10, <3>1, <3>4 DEF P!RefundsOf
      <4>2. Sum(QtyOf', S) = Sum(QtyOf, S)
        <5>1. \A l \in S : QtyOf'[l] = QtyOf[l]
          BY <2>3, <4>1 DEF KeepsQtys, QtyOf
        <5> QED BY <5>1, SumSame
      <4>3. P!Total(P!RefundsOf(m)) = Sum(QtyOf, S)
        BY <4>1, TillTotals
      <4>4. P!Total(P!RefundsOf(m)) <= orders[m].qty
        BY <3>4 DEF SerialInv, RefundsFit, P!RefundsWithinSale
      <4> QED BY <2>2, <3>2, <3>4, <4>2, <4>3, <4>4
    <3>5. CASE h.op = "refund" /\ h.of = m
      <4>1. PICK R : R = P!RefundsOf(m)
        OBVIOUS
      <4>2. S = R \cup {N} /\ R \subseteq DOMAIN orders /\ N \notin R
        BY <2>2, <2>11, <3>1, <3>5, <4>1 DEF P!RefundsOf
      <4>3. IsFiniteSet(R) /\ \A l \in R : QtyOf[l] = QtyOf'[l]
        BY <1>1, <2>3, <4>2, OrdersFinite DEF KeepsQtys, QtyOf
      <4>4. QtyOf'[N] = h.qty /\ h.qty \in Qtys
        <5>1. QtyOf'[N] = h.qty
          BY <2>1, <2>2 DEF QtyOf
        <5>2. h.qty \in 1..MaxQty
          BY <2>1, TillAssumption DEF P!Orders
        <5> QED BY <5>1, <5>2, MaxQtyAssumption DEF Qtys
      <4>5. Sum(QtyOf', R \cup {N}) = Sum(QtyOf, R) + QtyOf'[N]
        <5>1. IsFiniteSet(R) /\ N \notin R /\ QtyOf'[N] \in Qtys
          BY <4>2, <4>3, <4>4
        <5>2. \A l \in R : QtyOf[l] = QtyOf'[l]
          BY <4>3
        <5> QED BY <5>1, <5>2, SumJoin
      <4>6. P!Total(P!RefundsOf(m)) = Sum(QtyOf, R)
        BY <4>1, TillTotals
      <4> QED BY <1>4, <2>2, <2>11, <3>2, <3>5, <4>2, <4>4, <4>5, <4>6
    <3> QED BY <2>2, <3>3, <3>4, <3>5
  <2>14. RefundsFit'
    BY <2>8, <2>12, <2>13 DEF RefundsFit, P!RefundsWithinSale
  <2> QED BY <1>2, <2>7, <2>14 DEF SerialInv
<1> QED BY <1>4, <1>5, <1>6

LEMMA NextSerial ==
    ASSUME TillInv, TillInv', SerialInv, OneInHand', P!Next
    PROVE  SerialInv'
<1>1. ASSUME NEW s \in Sessions, P!open(s) PROVE SerialInv'
  BY <1>1, OpenSerial
<1>2. ASSUME NEW s \in Sessions, NEW t \in Threads, P!Request(t, s) PROVE SerialInv'
  <2>1. ASSUME NEW u \in Uuids, NEW q \in SaleQtys, P!capture(t, u, s, q) PROVE SerialInv'
    <3>1. HandStands([op |-> "sale", uuid |-> u, session |-> s, qty |-> q])
      BY <2>1 DEF P!capture, P!Sells, HandStands
    <3> QED BY <2>1, <3>1, BeginSerial DEF P!capture
  <2>2. ASSUME NEW u \in Uuids, NEW q \in SaleQtys, NEW n \in DOMAIN orders, P!refund(t, u, s, n, q) PROVE SerialInv'
    <3>1. HandStands([op |-> "refund", uuid |-> u, session |-> s, qty |-> q, of |-> n])
      BY <2>2 DEF P!refund, P!Sells, HandStands
    <3> QED BY <2>2, <3>1, BeginSerial DEF P!refund
  <2>3. ASSUME NEW amount \in CashAmounts, P!cash_check(t, s, amount) PROVE SerialInv'
    <3>1. HandStands([op |-> "cash", session |-> s, amount |-> amount])
      BY <2>3 DEF P!cash_check, HandStands
    <3> QED BY <2>3, <3>1, BeginSerial DEF P!cash_check
  <2>4. ASSUME NEW counted \in Counts, P!close_count(t, s, counted) PROVE SerialInv'
    BY <2>4, CountSerial
  <2>5. CASE P!close_retry(t, s)
    <3>1. HandStands([op |-> "close", session |-> s])
      BY DEF HandStands
    <3> QED BY <2>5, <3>1, BeginSerial DEF P!close_retry
  <2> QED BY <1>2, <2>1, <2>2, <2>3, <2>4, <2>5, Zenon DEF P!Request
<1>3. ASSUME NEW t \in Threads, NEW n \in DOMAIN orders, P!void_check(t, n) PROVE SerialInv'
  <2>1. HandStands([op |-> "void", of |-> n])
    BY <1>3 DEF P!void_check, HandStands
  <2> QED BY <1>3, <2>1, BeginSerial DEF P!void_check
<1>4. ASSUME NEW t \in Threads,
             \/ P!insert_order(t) \/ P!void_mark(t) \/ P!cash_movement(t) \/ P!consolidate(t) \/ P!abandon(t)
      PROVE  SerialInv'
  BY <1>4, InsertSerial, VoidSerial, CashSerial, ConsolidateSerial, AbandonSerial
<1>5. ASSUME NEW q \in SaleQtys, P!receive_stock(q) \/ P!reserve_stock(q) \/ P!release_stock(q)
      PROVE  SerialInv'
  BY <1>5, StockSerial DEF P!receive_stock, P!reserve_stock, P!release_stock
<1> QED BY <1>1, <1>2, <1>3, <1>4, <1>5, Zenon DEF P!Next

----------------------------------------------------------------------------
(* The till beside its money.                                              *)

TillsSound == TillInv /\ (serial => SerialInv)

LEMMA AtMostOne ==
    ASSUME NEW S, IsFiniteSet(S), Cardinality(S) <= 1, NEW x \in S, NEW y \in S
    PROVE  x = y
<1> SUFFICES ASSUME x # y PROVE FALSE
  OBVIOUS
<1>1. IsFiniteSet({x}) /\ Cardinality({x}) = 1 /\ y \notin {x}
  BY FS_Singleton
<1>2. Cardinality({x} \cup {y}) = Cardinality({x}) + 1
  BY <1>1, FS_AddElement
<1>3. {x} \cup {y} \subseteq S
  OBVIOUS
<1>4. Cardinality({x} \cup {y}) <= Cardinality(S) /\ Cardinality(S) \in Nat
  BY <1>3, FS_Subset, FS_CardinalityType
<1> QED BY <1>1, <1>2, <1>4

LEMMA TillsInit == MCInit => TillsSound
BY TillInit DEF MCInit, TillsSound

LEMMA TillsRest == TillsSound /\ UNCHANGED << side, sales >> => TillsSound'
<1> SUFFICES ASSUME TillsSound, UNCHANGED << side, sales >> PROVE TillsSound'
  OBVIOUS
<1>1. TillInv'
  BY HandStep DEF TillsSound, TillInv, sales, Others, P!TypeOK
<1>2. ASSUME SerialInv PROVE SerialInv'
  <2>1. OneInHand'
    BY <1>2 DEF SerialInv, OneInHand, sales
  <2> QED BY <1>1, <1>2, <2>1, StockSerial DEF TillsSound, sales
<1> QED BY <1>1, <1>2 DEF TillsSound, serial

LEMMA TillsStep == TillsSound /\ [MCNext]_<< side, sales, money >> => TillsSound'
<1> SUFFICES ASSUME TillsSound, MCNext PROVE TillsSound'
  BY TillsRest
<1>1. CASE UNCHANGED sales
  BY <1>1, TillsRest DEF MCNext
<1>2. CASE P!Next /\ Bounded'
  <2>1. TillInv'
    BY <1>2, NextTill DEF TillsSound
  <2>2. ASSUME serial PROVE SerialInv'
    <3>1. Cardinality(Busy') <= 1
      BY <1>2, <2>2 DEF MCNext, Bounded, serial
    <3>2. IsFiniteSet(Busy')
      BY TillAssumption, FS_Subset DEF Busy
    <3>3. OneInHand'
      BY <3>1, <3>2, AtMostOne DEF OneInHand, Busy
    <3> QED BY <1>2, <2>1, <2>2, <3>3, NextSerial DEF TillsSound
  <2> QED BY <2>1, <2>2 DEF TillsSound, serial, MCNext
<1> QED BY <1>1, <1>2 DEF MCNext

LEMMA TillsInvariant == MCSpec => []TillsSound
BY TillsInit, TillsStep, PTL DEF MCSpec

\* Of requests that do not overlap: no sale is refunded beyond what it sold,
\* over all sessions and after voided refunds, and none is voided under its
\* refunds, for any number of sessions, keys and orders.
THEOREM RefundsStayWithinSales == MCSpec => []RefundsFitSales
<1>1. TillsSound => RefundsFitSales
  BY DEF TillsSound, SerialInv, RefundsFit, RefundsFitSales
<1> QED BY <1>1, TillsInvariant, PTL

\* Of requests that do not overlap: a closed session booked the cash that was
\* counted and moved what it sold net of refunds and voids.
THEOREM ClosedSessionsFit == MCSpec => []BooksFitSessions
<1>1. TillsSound => BooksFitSessions
  BY DEF TillsSound, TillInv, SerialInv, CashTies, BooksFitSessions
<1> QED BY <1>1, TillsInvariant, PTL

LEMMA OnceImplied == TillInv => OncePerKeyAndSession
<1> SUFFICES ASSUME TillInv PROVE OncePerKeyAndSession
  OBVIOUS
<1>1. \A X : P!Cardinality(X) = Cardinality(X)
  BY Zenon DEF P!Cardinality, Cardinality
<1>2. \A X, x : X = {x} => Cardinality(X) = 1
  BY FS_Singleton
<1>3. Cardinality({}) = 0
  BY FS_EmptySet
<1>4. ASSUME NEW u \in Uuids PROVE Cardinality(P!Captured(u)) <= 1
  <2>1. CASE P!Captured(u) = {}
    BY <1>3, <2>1
  <2>2. CASE P!Captured(u) # {}
    <3>1. PICK n : n \in P!Captured(u)
      BY <2>2
    <3>2. P!Captured(u) = {n}
      BY <3>1 DEF P!Captured, TillInv, KeysUnique
    <3>3. Cardinality(P!Captured(u)) = 1
      BY <1>2, <3>2, Zenon
    <3> QED BY <3>3
  <2> QED BY <2>1, <2>2
<1>5. ASSUME NEW s \in Sessions
      PROVE  Cardinality({ i \in DOMAIN books : books[i].session = s }) = IF P!Is(s, "closed") THEN 1 ELSE 0
  <2> DEFINE S == { i \in DOMAIN books : books[i].session = s }
  <2>1. CASE P!Is(s, "closed")
    <3>1. PICK i \in DOMAIN books : books[i].session = s
      BY <2>1 DEF TillInv, BookedOnce
    <3>2. S = {i}
      BY <3>1 DEF TillInv, BookedOnce
    <3> QED BY <1>2, <2>1, <3>2
  <2>2. CASE ~P!Is(s, "closed")
    <3>1. S = {}
      BY <2>2 DEF TillInv, BookedOnce
    <3> QED BY <1>3, <2>2, <3>1
  <2> QED BY <2>1, <2>2
<1>6. P!NeverDoubleSold
  BY <1>1, <1>4, Zenon DEF P!NeverDoubleSold
<1>7. P!ConsolidatedOnce
  BY <1>1, <1>5, Zenon DEF P!ConsolidatedOnce
<1> QED BY <1>6, <1>7 DEF OncePerKeyAndSession

\* However replays, retries and close calls overlap, a key sells once and a
\* session reaches the stock ledger and the books once.
THEOREM KeysSellOnce == MCSpec => []OncePerKeyAndSession
<1>1. TillsSound => OncePerKeyAndSession
  BY OnceImplied DEF TillsSound
<1> QED BY <1>1, TillsInvariant, PTL

LEMMA CountsStep ==
    ASSUME TillInv, P!Next, NEW s \in Sessions, session[s].status \in {"closing", "closed"}
    PROVE  session'[s].counted = session[s].counted /\ session'[s].expected = session[s].expected
<1>1. session \in [Sessions -> [status : {"none", "open", "closing", "closed"}, expected : Int, counted : Nat]]
  BY DEF TillInv, P!TypeOK
<1>2. ASSUME NEW x \in Sessions, P!open(x) PROVE session'[s] = session[s]
  BY <1>1, <1>2 DEF P!open, P!Is
<1>3. ASSUME NEW t \in Threads, NEW x \in Sessions, NEW counted \in Counts, P!close_count(t, x, counted)
      PROVE  session'[s] = session[s]
  BY <1>1, <1>3 DEF P!close_count, P!Countable, P!Is
<1>4. ASSUME NEW t \in Threads, P!consolidate(t)
      PROVE  session'[s].counted = session[s].counted /\ session'[s].expected = session[s].expected
  BY <1>1, <1>4 DEF P!consolidate
<1>5. ASSUME NEW t \in Threads, NEW x \in Sessions, P!Request(t, x)
      PROVE  session'[s] = session[s]
  BY <1>3, <1>5 DEF P!Request, P!capture, P!refund, P!cash_check, P!close_retry
<1>6. ASSUME NEW t \in Threads, \/ \E n \in DOMAIN orders : P!void_check(t, n)
                                \/ P!insert_order(t) \/ P!void_mark(t) \/ P!cash_movement(t) \/ P!abandon(t)
      PROVE  session' = session
  BY <1>6 DEF P!void_check, P!insert_order, P!void_mark, P!cash_movement, P!abandon
<1>7. ASSUME NEW q \in SaleQtys, P!receive_stock(q) \/ P!reserve_stock(q) \/ P!release_stock(q)
      PROVE  session' = session
  BY <1>7 DEF P!receive_stock, P!reserve_stock, P!release_stock
<1> QED BY <1>2, <1>4, <1>5, <1>6, <1>7 DEF P!Next

LEMMA SellsStep ==
    ASSUME TillInv, SerialInv, P!Next, NEW n \in DOMAIN orders' \ DOMAIN orders
    PROVE  P!Is(orders'[n].session, "open")
<1>1. PICK t \in Threads : P!insert_order(t)
  <2>1. ASSUME NEW t \in Threads, P!void_mark(t) PROVE DOMAIN orders' = DOMAIN orders
    BY <2>1 DEF P!void_mark
  <2>2. ASSUME NEW t \in Threads, NEW s \in Sessions, P!Request(t, s) PROVE orders' = orders
    BY <2>2 DEF P!Request, P!capture, P!refund, P!cash_check, P!close_count, P!close_retry
  <2>3. ASSUME NEW t \in Threads, \/ \E m \in DOMAIN orders : P!void_check(t, m)
                                  \/ P!cash_movement(t) \/ P!consolidate(t) \/ P!abandon(t)
        PROVE  orders' = orders
    BY <2>3 DEF P!void_check, P!cash_movement, P!consolidate, P!abandon
  <2>4. ASSUME NEW q \in SaleQtys, P!receive_stock(q) \/ P!reserve_stock(q) \/ P!release_stock(q)
        PROVE  orders' = orders
    BY <2>4 DEF P!receive_stock, P!reserve_stock, P!release_stock
  <2>5. ASSUME NEW s \in Sessions, P!open(s) PROVE orders' = orders
    BY <2>5 DEF P!open
  <2> QED BY <2>1, <2>2, <2>3, <2>4, <2>5 DEF P!Next
<1>2. PICK h : h = handler[t]
  OBVIOUS
<1>3. /\ P!Is(h.session, "open")
      /\ orders' = IF P!Wins(P!Ticket(h).uuid) THEN Append(orders, P!Ticket(h)) ELSE orders
  BY <1>1, <1>2 DEF SerialInv, InHandStands, HandStands, P!insert_order
<1>4. orders' = Append(orders, P!Ticket(h))
  BY <1>3
<1>5. \E S : orders \in Seq(S)
  BY DEF TillInv, P!TypeOK
<1>6. orders'[n] = P!Ticket(h)
  BY <1>4, <1>5, Appended
<1>7. P!Ticket(h).session = h.session
  BY DEF P!Ticket
<1> QED BY <1>3, <1>6, <1>7

\* What was counted at a close stands, whatever retries it, and of requests
\* that do not overlap nothing is sold or refunded outside of an open session.
THEOREM CountedSessionsStand == MCSpec => SessionsStand
<1>1. TillsSound /\ [MCNext]_<< side, sales, money >> =>
        [\A s \in Sessions : session[s].status \in {"closing", "closed"} =>
            /\ session'[s].counted = session[s].counted
            /\ session'[s].expected = session[s].expected]_P!vars
  BY CountsStep DEF TillsSound, MCNext, sales, P!vars
<1>2. TillsSound /\ [MCNext]_<< side, sales, money >> =>
        [serial => \A n \in DOMAIN orders' \ DOMAIN orders : P!Is(orders'[n].session, "open")]_sales
  BY SellsStep DEF TillsSound, MCNext, sales
<1> QED BY <1>1, <1>2, TillsInvariant, PTL DEF MCSpec, SessionsStand, P!CountsStand, SellsInside

(* The money of a session.                                                  *)

LEMMA DivIs ==
    ASSUME NEW n \in Int, NEW m \in Nat \ {0}
    PROVE  n \div m \in Int /\ (n \div m) * m <= n /\ n < (n \div m) * m + m
OBVIOUS

\* Rounding yields whole cents, at most half a cent away.
LEMMA MoneyIs ==
    ASSUME NEW n \in Int, NEW d \in Nat \ {0}
    PROVE  \E k \in Int : /\ Till!Money(n, d) = 10 * k
                          /\ 10 * k * d - n <= 5 * d
                          /\ n - 10 * k * d <= 5 * d
<1> DEFINE q == n \div (10 * d)
<1>1. q \in Int /\ q * (10 * d) <= n /\ n < q * (10 * d) + 10 * d
  <2>1. 10 * d \in Nat \ {0}
    OBVIOUS
  <2> QED BY <2>1, DivIs, Zenon
<1> HIDE DEF q
<1> DEFINE k == IF 2 * (n - 10 * d * q) > 10 * d \/ (2 * (n - 10 * d * q) = 10 * d /\ q % 2 = 1) THEN q + 1 ELSE q
<1>2. Till!Money(n, d) = 10 * k
  BY DEF Till!Money, q
<1>3. 10 * k * d - n <= 5 * d /\ n - 10 * k * d <= 5 * d
  <2>1. PICK a \in Int : a = 10 * d * q /\ a = q * (10 * d) /\ a = 10 * q * d
    BY <1>1
  <2>2. 10 * (q + 1) * d = a + 10 * d
    BY <1>1, <2>1
  <2>3. CASE k = q + 1 /\ 2 * (n - a) >= 10 * d
    <3>1. 10 * k * d = a + 10 * d
      BY <2>2, <2>3
    <3> HIDE DEF k
    <3> QED BY <1>1, <2>1, <2>3, <3>1
  <2>4. CASE k = q /\ 2 * (n - a) <= 10 * d
    <3>1. 10 * k * d = a
      BY <2>1, <2>4
    <3> HIDE DEF k
    <3> QED BY <1>1, <2>1, <2>4, <3>1
  <2> QED BY <1>1, <2>1, <2>3, <2>4
<1>4. k \in Int
  BY <1>1
<1> HIDE DEF k
<1> QED BY <1>2, <1>3, <1>4

LEMMA WholeType ==
    ASSUME NEW n \in Int, NEW d \in Nat \ {0}
    PROVE  Till!Money(n, d) \in Int
<1>1. PICK k \in Int : Till!Money(n, d) = 10 * k
  BY MoneyIs, Zenon
<1>2. 10 * k \in Int
  OBVIOUS
<1> QED BY <1>1, <1>2, Zenon

\* What is not more than some whole cents is not rounded to more, and what is
\* not less than none is not rounded to less.
LEMMA MoneyAtMost ==
    ASSUME NEW n \in Int, NEW d \in Nat \ {0}, NEW c \in Int, n <= 10 * c * d
    PROVE  Till!Money(n, d) <= 10 * c
<1>1. PICK k \in Int : Till!Money(n, d) = 10 * k /\ 10 * k * d - n <= 5 * d
  BY MoneyIs
<1>2. (2 * k - 2 * c) * d <= d
  <2>1. PICK a \in Int, b \in Int : a = k * d /\ b = c * d
    OBVIOUS
  <2>2. 10 * k * d = 10 * a /\ 10 * c * d = 10 * b /\ (2 * k - 2 * c) * d = 2 * a - 2 * b
    BY <2>1
  <2> QED BY <1>1, <2>2
<1>3. ~(2 * k - 2 * c >= 2)
  <2> SUFFICES ASSUME 2 * k - 2 * c >= 2 PROVE FALSE
    OBVIOUS
  <2>1. PICK e \in Nat : 2 * k - 2 * c = e + 2
    <3>1. 2 * k - 2 * c - 2 \in Nat /\ 2 * k - 2 * c = (2 * k - 2 * c - 2) + 2
      OBVIOUS
    <3> QED BY <3>1
  <2>2. (e + 2) * d = e * d + 2 * d /\ e * d >= 0
    OBVIOUS
  <2> QED BY <1>2, <2>1, <2>2
<1> QED BY <1>1, <1>3

LEMMA MoneyAtLeast ==
    ASSUME NEW n \in Nat, NEW d \in Nat \ {0}
    PROVE  Till!Money(n, d) >= 0
<1>1. PICK k \in Int : Till!Money(n, d) = 10 * k /\ n - 10 * k * d <= 5 * d
  <2>1. n \in Int
    OBVIOUS
  <2> QED BY <2>1, MoneyIs
<1>2. ~(k <= -1)
  <2> SUFFICES ASSUME k <= -1 PROVE FALSE
    OBVIOUS
  <2>1. PICK e \in Nat : k = -(e + 1)
    <3>1. -k - 1 \in Nat /\ k = -((-k - 1) + 1)
      OBVIOUS
    <3> QED BY <3>1
  <2>2. 10 * k * d = -(10 * (e * d)) - 10 * d /\ e * d >= 0 /\ e * d \in Int
    BY <2>1
  <2> QED BY <1>1, <2>2
<1> QED BY <1>1, <1>2

LEMMA MoneyWhole == Till!Money(0, 1) = 0 /\ \A n \in Int, d \in Nat \ {0} : Till!Money(Till!Money(n, d), 1) = Till!Money(n, d)
<1>1. ASSUME NEW c \in Int PROVE Till!Money(10 * c, 1) = 10 * c
  <2>1. PICK k \in Int : Till!Money(10 * c, 1) = 10 * k /\ 10 * k * 1 - 10 * c <= 5 * 1 /\ 10 * c - 10 * k * 1 <= 5 * 1
    BY MoneyIs
  <2> QED BY <2>1
<1>2. ASSUME NEW n \in Int, NEW d \in Nat \ {0} PROVE Till!Money(Till!Money(n, d), 1) = Till!Money(n, d)
  BY <1>1, MoneyIs
<1> QED BY <1>1, <1>2

\* The share of a line that is refunded is the share of its money, to half a cent.
LEMMA ShareIs ==
    ASSUME NEW line, line.qty \in Nat \ {0}, NEW qty \in Nat, NEW v \in Int
    PROVE  /\ Till!share(line, qty, v) \in Int
           /\ Till!share(line, qty, v) * line.qty - v * qty <= 5 * line.qty
           /\ v * qty - Till!share(line, qty, v) * line.qty <= 5 * line.qty
<1>1. v * qty \in Int
  OBVIOUS
<1>2. PICK k \in Int : /\ Till!Money(v * qty, line.qty) = 10 * k
                       /\ 10 * k * line.qty - v * qty <= 5 * line.qty
                       /\ v * qty - 10 * k * line.qty <= 5 * line.qty
  BY <1>1, MoneyIs
<1> QED BY <1>2 DEF Till!share

LEMMA TillTally == ASSUME NEW f, NEW S PROVE Till!Tally(f, S) = Tally(f, S)
BY DEF Till!Tally, Tally, Till!MapThenSumSet, MapThenSumSet, Till!MapThenFoldSet, MapThenFoldSet

ReceiptLines == [qty : Nat, net : Int, tax : Int]
Receipt ==
    [kind : {"sale", "refund"}, status : {"captured", "voided"}, lines : Seq(ReceiptLines), drift : BOOLEAN,
     refund_of : Nat, total : Int, tax : Int, cash : Int, mpesa : Int]

\* The tax of a line lies inside its price.
TaxInside ==
    \A n \in DOMAIN receipts : receipts[n].kind = "sale" =>
        \A i \in DOMAIN receipts[n].lines :
            LET line == receipts[n].lines[i] IN line.qty > 0 /\ 0 <= line.tax /\ line.tax <= line.net

\* A refund is of a sale made before it, line by line, of shares of its money.
SharesSale(r) ==
    LET n == receipts[r].refund_of IN
    /\ n \in DOMAIN receipts /\ receipts[n].kind = "sale"
    /\ DOMAIN receipts[r].lines = DOMAIN receipts[n].lines
    /\ receipts[r].lines = Till!refunded_lines(n, [i \in DOMAIN receipts[n].lines |-> receipts[r].lines[i].qty])
    /\ receipts[r].cash + receipts[r].mpesa = receipts[r].total

SharesOfSales == \A r \in DOMAIN receipts : receipts[r].kind = "refund" => SharesSale(r)

WithinSold ==
    \A n \in Till!Sales : \A i \in DOMAIN receipts[n].lines : Till!Back(n, i, "qty") <= receipts[n].lines[i].qty

EntryTold == entry = << >> \/ \E v \in Variances : entry = Till!pos_session_request(v)

TakingsInv ==
    /\ price \in Prices /\ receipts \in Seq(Receipt)
    /\ TaxInside /\ SharesOfSales /\ WithinSold /\ EntryTold

\* What is asked of the money holds of every receipt and entry of this shape.

LEMMA ReceiptsTyped ==
    ASSUME receipts \in Seq(Receipt)
    PROVE  /\ IsFiniteSet(DOMAIN receipts)
           /\ \A n \in DOMAIN receipts : /\ receipts[n] \in Receipt
                                         /\ \A i \in DOMAIN receipts[n].lines : receipts[n].lines[i] \in ReceiptLines
<1>1. IsFiniteSet(DOMAIN receipts)
  <2>1. DOMAIN receipts = 1..Len(receipts) /\ Len(receipts) \in Int
    OBVIOUS
  <2> QED BY <2>1, FS_Interval
<1>2. ASSUME NEW n \in DOMAIN receipts
      PROVE  /\ receipts[n] \in Receipt
             /\ \A i \in DOMAIN receipts[n].lines : receipts[n].lines[i] \in ReceiptLines
  <2>1. receipts[n] \in Receipt
    OBVIOUS
  <2>2. receipts[n].lines \in Seq(ReceiptLines)
    BY <2>1 DEF Receipt
  <2> QED BY <2>1, <2>2
<1> QED BY <1>1, <1>2

LEMMA SetsFinite ==
    ASSUME receipts \in Seq(Receipt)
    PROVE  /\ IsFiniteSet(Till!Sales) /\ IsFiniteSet(Till!Refunds)
           /\ \A n : IsFiniteSet(Till!RefundsOf(n))
           /\ Till!Sales \subseteq DOMAIN receipts /\ Till!Refunds \subseteq DOMAIN receipts
           /\ \A n : Till!RefundsOf(n) \subseteq DOMAIN receipts
<1>1. /\ Till!Sales \subseteq DOMAIN receipts /\ Till!Refunds \subseteq DOMAIN receipts
      /\ \A n : Till!RefundsOf(n) \subseteq DOMAIN receipts
  BY DEF Till!Sales, Till!Refunds, Till!RefundsOf
<1> QED BY <1>1, ReceiptsTyped, FS_Subset

\* The entry of what was sold and refunded, paid in whole cents, balances.
LEMMA EntryBalances ==
    ASSUME TakingsInv, Till!WholeCents, entry # << >>
    PROVE  Till!Tally(entry, DOMAIN entry) = 0
<1>1. PICK v \in Variances : entry = Till!pos_session_request(v)
  BY DEF TakingsInv, EntryTold
<1>2. v \in Int
  BY TillAssumption
<1> DEFINE f(field) == [n \in Till!Sales |-> receipts[n][field]]
           g(field) == [n \in Till!Refunds |-> receipts[n][field]]
           paid == [n \in DOMAIN receipts |-> receipts[n].cash + receipts[n].mpesa]
<1>3. \A n \in DOMAIN receipts : /\ receipts[n].cash \in Int /\ receipts[n].mpesa \in Int
                                 /\ receipts[n].total \in Int /\ receipts[n].tax \in Int
  BY ReceiptsTyped DEF TakingsInv, Receipt
<1>4. /\ Till!Sales \subseteq DOMAIN receipts /\ Till!Refunds \subseteq DOMAIN receipts
      /\ IsFiniteSet(Till!Sales) /\ IsFiniteSet(Till!Refunds)
  BY SetsFinite DEF TakingsInv
<1>5. \A n \in Till!Sales : f("total")[n] = f("cash")[n] + f("mpesa")[n]
  BY DEF Till!WholeCents
<1>6. \A n \in Till!Refunds : g("total")[n] = g("cash")[n] + g("mpesa")[n]
  BY DEF TakingsInv, SharesOfSales, SharesSale, Till!Refunds
<1>7. /\ \A n \in Till!Sales : f("cash")[n] \in Int /\ f("mpesa")[n] \in Int /\ f("tax")[n] \in Int
      /\ \A n \in Till!Refunds : g("cash")[n] \in Int /\ g("mpesa")[n] \in Int /\ g("tax")[n] \in Int
  BY <1>3, <1>4
<1>8. \A field \in {"cash", "mpesa", "total", "tax"} : /\ Till!Taken(field) = Tally(f(field), Till!Sales)
                                                      /\ Till!Refunded(field) = Tally(g(field), Till!Refunds)
  BY TillTally DEF Till!Taken, Till!Refunded, Till!Column
<1> HIDE DEF f, g
<1>9. Tally(f("total"), Till!Sales) = Tally(f("cash"), Till!Sales) + Tally(f("mpesa"), Till!Sales)
  BY <1>4, <1>5, <1>7, TallyAdd
<1>10. Tally(g("total"), Till!Refunds) = Tally(g("cash"), Till!Refunds) + Tally(g("mpesa"), Till!Refunds)
  BY <1>4, <1>6, <1>7, TallyAdd
<1>11. /\ Tally(f("cash"), Till!Sales) \in Int /\ Tally(f("mpesa"), Till!Sales) \in Int /\ Tally(f("tax"), Till!Sales) \in Int
       /\ Tally(g("cash"), Till!Refunds) \in Int /\ Tally(g("mpesa"), Till!Refunds) \in Int /\ Tally(g("tax"), Till!Refunds) \in Int
  BY <1>4, <1>7, TallyType
<1>12. PICK cash \in Int, mpesa \in Int, tax \in Int, net \in Int :
            /\ cash = Till!tender_net("cash") /\ mpesa = Till!tender_net("mpesa")
            /\ tax = Till!tax_net /\ net = Till!net_sales /\ cash + mpesa = net + tax
  <2>1. PICK c \in Int, d \in Int, m \in Int, n \in Int, x \in Int, y \in Int :
             /\ c = Till!Taken("cash") /\ m = Till!Taken("mpesa") /\ x = Till!Taken("tax") /\ c + m = Till!Taken("total")
             /\ d = Till!Refunded("cash") /\ n = Till!Refunded("mpesa") /\ y = Till!Refunded("tax")
             /\ d + n = Till!Refunded("total")
    <3>1. \A field \in {"cash", "mpesa", "tax"} : Till!Taken(field) \in Int /\ Till!Refunded(field) \in Int
      BY <1>8, <1>11
    <3>2. /\ Till!Taken("total") = Till!Taken("cash") + Till!Taken("mpesa")
          /\ Till!Refunded("total") = Till!Refunded("cash") + Till!Refunded("mpesa")
      BY <1>8, <1>9, <1>10
    <3> QED BY <3>1, <3>2
  <2>2. /\ Till!tender_net("cash") = c - d /\ Till!tender_net("mpesa") = m - n
        /\ Till!tax_net = x - y /\ Till!net_sales = ((c + m) - x) - ((d + n) - y)
    BY <2>1 DEF Till!tender_net, Till!tax_net, Till!net_sales
  <2> QED BY <2>2
<1>13. entry = [cash |-> cash + v, mpesa_clearing |-> mpesa, sales |-> -net, vat_output |-> -tax, cash_over_short |-> -v]
  BY <1>1, <1>12 DEF Till!pos_session_request
<1>14. Tally(entry, DOMAIN entry) = (cash + v) + (mpesa + (-net + (-tax + (-v))))
  <2> DEFINE Fields == {"cash", "mpesa_clearing", "sales", "vat_output", "cash_over_short"}
  <2>1. DOMAIN entry = {"cash", "mpesa_clearing", "sales", "vat_output", "cash_over_short"}
    BY <1>13
  <2>2. PICK e : e = entry /\ e.cash = cash + v /\ e.mpesa_clearing = mpesa /\ e.sales = -net /\ e.vat_output = -tax
                 /\ e.cash_over_short = -v
    BY <1>13
  <2>3. \A x \in {"cash", "mpesa_clearing", "sales", "vat_output", "cash_over_short"} : e[x] \in Int
    BY <1>2, <2>2
  <2>4. Tally(e, {}) = 0
    BY TallyEmpty
  <2>5. Tally(e, {"cash_over_short"}) = -v
    <3>1. Tally(e, {} \cup {"cash_over_short"}) = e["cash_over_short"] + Tally(e, {})
      BY <2>3, FS_EmptySet, TallyInsert
    <3> QED BY <1>2, <2>2, <2>4, <3>1
  <2>6. IsFiniteSet({"cash_over_short"})
    BY FS_Singleton
  <2>7. IsFiniteSet({"vat_output", "cash_over_short"}) /\ Tally(e, {"vat_output", "cash_over_short"}) = -tax + (-v)
    <3>1. {"cash_over_short"} \cup {"vat_output"} = {"vat_output", "cash_over_short"} /\ "vat_output" \notin {"cash_over_short"}
      OBVIOUS
    <3>2. Tally(e, {"cash_over_short"} \cup {"vat_output"}) = e["vat_output"] + Tally(e, {"cash_over_short"})
      BY <2>3, <2>6, <3>1, TallyInsert
    <3> QED BY <2>2, <2>5, <2>6, <3>1, <3>2, FS_AddElement
  <2>8. IsFiniteSet({"sales", "vat_output", "cash_over_short"}) /\ Tally(e, {"sales", "vat_output", "cash_over_short"}) = -net + (-tax + (-v))
    <3>1. /\ {"vat_output", "cash_over_short"} \cup {"sales"} = {"sales", "vat_output", "cash_over_short"}
          /\ "sales" \notin {"vat_output", "cash_over_short"}
      OBVIOUS
    <3>2. Tally(e, {"vat_output", "cash_over_short"} \cup {"sales"}) = e["sales"] + Tally(e, {"vat_output", "cash_over_short"})
      BY <2>3, <2>7, <3>1, TallyInsert
    <3> QED BY <2>2, <2>7, <3>1, <3>2, FS_AddElement
  <2>9. /\ IsFiniteSet({"mpesa_clearing", "sales", "vat_output", "cash_over_short"})
        /\ Tally(e, {"mpesa_clearing", "sales", "vat_output", "cash_over_short"}) = mpesa + (-net + (-tax + (-v)))
    <3>1. /\ {"sales", "vat_output", "cash_over_short"} \cup {"mpesa_clearing"} = {"mpesa_clearing", "sales", "vat_output", "cash_over_short"}
          /\ "mpesa_clearing" \notin {"sales", "vat_output", "cash_over_short"}
      OBVIOUS
    <3>2. Tally(e, {"sales", "vat_output", "cash_over_short"} \cup {"mpesa_clearing"})
            = e["mpesa_clearing"] + Tally(e, {"sales", "vat_output", "cash_over_short"})
      BY <2>3, <2>8, <3>1, TallyInsert
    <3> QED BY <2>2, <2>8, <3>1, <3>2, FS_AddElement
  <2>10. /\ {"mpesa_clearing", "sales", "vat_output", "cash_over_short"} \cup {"cash"} = DOMAIN entry
         /\ "cash" \notin {"mpesa_clearing", "sales", "vat_output", "cash_over_short"}
    BY <2>1
  <2>11. Tally(e, {"mpesa_clearing", "sales", "vat_output", "cash_over_short"} \cup {"cash"})
           = e["cash"] + Tally(e, {"mpesa_clearing", "sales", "vat_output", "cash_over_short"})
    BY <2>1, <2>3, <2>9, <2>10, TallyInsert
  <2> QED BY <2>2, <2>9, <2>10, <2>11
<1> QED BY <1>2, <1>12, <1>14, TillTally

\* What a line was refunded in parts is its share, to half a cent a part.
LEMMA PartsAreShares ==
    ASSUME TakingsInv, NEW n \in Till!Sales, NEW i \in DOMAIN receipts[n].lines, NEW field \in {"net", "tax"}
    PROVE  LET line == receipts[n].lines[i] IN
           Till!Abs(Till!Back(n, i, field) * line.qty - line[field] * Till!Back(n, i, "qty"))
             <= 5 * line.qty * Cardinality(Till!RefundsOf(n))
<1> DEFINE R == Till!RefundsOf(n)
           a == [r \in R |-> receipts[r].lines[i][field]]
           q == [r \in R |-> receipts[r].lines[i]["qty"]]
<1>1. PICK line : line = receipts[n].lines[i]
  OBVIOUS
<1>2. PICK k, v : k = line.qty /\ v = line[field]
  OBVIOUS
<1>3. line \in ReceiptLines /\ k \in Nat \ {0} /\ v \in Int
  BY <1>1, <1>2, ReceiptsTyped DEF TakingsInv, TaxInside, Till!Sales, ReceiptLines
<1>4. IsFiniteSet(R) /\ R \subseteq DOMAIN receipts
  BY SetsFinite DEF TakingsInv
<1>5. ASSUME NEW r \in R
      PROVE  /\ a[r] \in Int /\ q[r] \in Nat
             /\ a[r] * k - v * q[r] <= 5 * k /\ v * q[r] - a[r] * k <= 5 * k
  <2>1. /\ DOMAIN receipts[r].lines = DOMAIN receipts[n].lines
        /\ receipts[r].lines = Till!refunded_lines(n, [j \in DOMAIN receipts[n].lines |-> receipts[r].lines[j].qty])
    BY DEF TakingsInv, SharesOfSales, SharesSale, Till!RefundsOf, Till!Refunds
  <2>2. receipts[r].lines[i] \in ReceiptLines
    BY <1>4, <2>1, ReceiptsTyped DEF TakingsInv
  <2>3. PICK b : b = receipts[r].lines[i].qty
    OBVIOUS
  <2>4. b \in Nat
    BY <2>2, <2>3 DEF ReceiptLines
  <2>5. receipts[r].lines[i] = [qty |-> b, net |-> Till!share(line, b, line.net), tax |-> Till!share(line, b, line.tax)]
    BY <1>1, <2>1, <2>3 DEF Till!refunded_lines
  <2>6. receipts[r].lines[i][field] = Till!share(line, b, v)
    BY <1>2, <2>5
  <2>7. /\ Till!share(line, b, v) \in Int
        /\ Till!share(line, b, v) * k - v * b <= 5 * k
        /\ v * b - Till!share(line, b, v) * k <= 5 * k
    BY <1>2, <1>3, <2>4, ShareIs
  <2> QED BY <2>3, <2>4, <2>6, <2>7
<1>6. Till!Back(n, i, field) = Tally(a, R) /\ Till!Back(n, i, "qty") = Tally(q, R)
  BY TillTally DEF Till!Back
<1> HIDE DEF a, q, R
<1> DEFINE ak == [r \in R |-> a[r] * k]
           qv == [r \in R |-> q[r] * (-v)]
           over == [r \in R |-> ak[r] + qv[r]]
           ak_ == [r \in R |-> a[r] * (-k)]
           qv_ == [r \in R |-> q[r] * v]
           under == [r \in R |-> ak_[r] + qv_[r]]
<1>7. ASSUME NEW r \in R
      PROVE  /\ ak[r] \in Int /\ ak[r] = a[r] * k /\ qv[r] \in Int /\ qv[r] = q[r] * (-v)
             /\ over[r] \in Int /\ over[r] = ak[r] + qv[r] /\ over[r] <= 5 * k
             /\ ak_[r] \in Int /\ ak_[r] = a[r] * (-k) /\ qv_[r] \in Int /\ qv_[r] = q[r] * v
             /\ under[r] \in Int /\ under[r] = ak_[r] + qv_[r] /\ under[r] <= 5 * k
  <2>1. PICK x \in Int, y \in Int : x = a[r] /\ y = q[r]
    BY <1>5
  <2>2. PICK xk \in Int, yv \in Int : xk = x * k /\ yv = v * y
    BY <1>3
  <2>3. y * (-v) = -yv /\ y * v = yv /\ x * (-k) = -xk
    BY <1>3, <2>2
  <2> QED BY <1>3, <1>5, <2>1, <2>2, <2>3
<1> HIDE DEF ak, qv, over, ak_, qv_, under
<1>8. /\ Tally(ak, R) = Tally(a, R) * k /\ Tally(qv, R) = Tally(q, R) * (-v)
      /\ Tally(ak_, R) = Tally(a, R) * (-k) /\ Tally(qv_, R) = Tally(q, R) * v
  <2>1. k \in Int /\ -k \in Int /\ -v \in Int
    BY <1>3
  <2> QED BY <1>3, <1>4, <1>5, <1>7, <2>1, TallyScale
<1>9. Tally(over, R) = Tally(ak, R) + Tally(qv, R) /\ Tally(under, R) = Tally(ak_, R) + Tally(qv_, R)
  BY <1>4, <1>7, TallyAdd
<1>10. Tally(over, R) <= (5 * k) * Cardinality(R) /\ Tally(under, R) <= (5 * k) * Cardinality(R)
  <2>1. 5 * k \in Int
    BY <1>3
  <2> QED BY <1>4, <1>7, <2>1, TallyAtMost
<1>11. PICK A \in Int, Q \in Int : A = Tally(a, R) /\ Q = Tally(q, R)
  <2>1. \A r \in R : a[r] \in Int /\ q[r] \in Int
    BY <1>5
  <2> QED BY <1>4, <2>1, TallyType
<1>12. A * k - v * Q <= 5 * k * Cardinality(R) /\ -(A * k - v * Q) <= 5 * k * Cardinality(R)
  <2>1. PICK Ak \in Int, vQ \in Int : Ak = A * k /\ vQ = v * Q
    BY <1>3
  <2>2. Q * (-v) = -vQ /\ Q * v = vQ /\ A * (-k) = -Ak
    BY <1>3, <2>1
  <2> QED BY <1>8, <1>9, <1>10, <1>11, <2>1, <2>2
<1>13. Till!Abs(A * k - v * Q) <= 5 * k * Cardinality(R)
  BY <1>12 DEF Till!Abs
<1> QED BY <1>1, <1>2, <1>6, <1>11, <1>13 DEF R

LEMMA TakingsImplied == TakingsInv => TakingsTie
<1> SUFFICES ASSUME TakingsInv PROVE TakingsTie
  OBVIOUS
<1>1. entry # << >> /\ Till!WholeCents => Till!Tally(entry, DOMAIN entry) = 0
  BY EntryBalances
<1>2. ASSUME NEW n \in Till!Sales, NEW i \in DOMAIN receipts[n].lines
      PROVE  /\ 0 <= receipts[n].lines[i].tax /\ receipts[n].lines[i].tax <= receipts[n].lines[i].net
             /\ Till!Back(n, i, "qty") <= receipts[n].lines[i].qty
  BY DEF TakingsInv, TaxInside, WithinSold, Till!Sales
<1>3. \A S : Till!Cardinality(S) = Cardinality(S)
  BY Zenon DEF Till!Cardinality, Cardinality
<1> QED BY <1>1, <1>2, <1>3, PartsAreShares DEF TakingsTie, Till!TakingsTie

LEMMA TakingsInit == Till!Init => TakingsInv
BY TillAssumption DEF Till!Init, TakingsInv, TaxInside, SharesOfSales, WithinSold, EntryTold, Till!Sales, Receipt

LEMMA SumIs ==
    ASSUME NEW lines \in Seq(ReceiptLines), NEW field \in {"net", "tax"}
    PROVE  Till!Sum(lines, field) \in Int
<1> DEFINE f == [i \in DOMAIN lines |-> lines[i][field]]
<1>1. \A i \in DOMAIN lines : f[i] \in Int
  <2>1. \A i \in DOMAIN lines : lines[i] \in ReceiptLines
    OBVIOUS
  <2> QED BY <2>1 DEF ReceiptLines
<1>2. IsFiniteSet(DOMAIN lines)
  <2>1. DOMAIN lines = 1..Len(lines) /\ Len(lines) \in Int
    OBVIOUS
  <2> QED BY <2>1, FS_Interval
<1>3. Till!Sum(lines, field) = Tally(f, DOMAIN lines)
  BY TillTally DEF Till!Sum, Till!Column
<1> HIDE DEF f
<1> QED BY <1>1, <1>2, <1>3, TallyType

\* A receipt is stored after the others, which stay as they were.
LEMMA InsertIs ==
    ASSUME TakingsInv, NEW kind \in {"sale", "refund"}, NEW lines \in Seq(ReceiptLines),
           NEW tenders \in [cash : Int, mpesa : Int], NEW refund_of \in Nat, NEW drift \in BOOLEAN,
           Till!insert_order(kind, lines, tenders, refund_of, drift)
    PROVE  /\ receipts' \in Seq(Receipt)
           /\ DOMAIN receipts' = DOMAIN receipts \cup {Len(receipts) + 1} /\ Len(receipts) + 1 \notin DOMAIN receipts
           /\ \A m \in DOMAIN receipts : receipts'[m] = receipts[m]
           /\ LET new == receipts'[Len(receipts) + 1] IN
              /\ new.kind = kind /\ new.status = "captured" /\ new.lines = lines /\ new.refund_of = refund_of
              /\ new.total = Till!Money(Till!Sum(lines, "net"), 1)
              /\ new.cash = Till!Money(tenders.cash, 1) /\ new.mpesa = Till!Money(tenders.mpesa, 1)
<1> DEFINE slip == [kind |-> kind, status |-> "captured", lines |-> lines, drift |-> drift, refund_of |-> refund_of,
                     total |-> Till!Money(Till!Sum(lines, "net"), 1), tax |-> Till!Money(Till!Sum(lines, "tax"), 1),
                     cash |-> Till!Money(tenders.cash, 1), mpesa |-> Till!Money(tenders.mpesa, 1)]
<1>1. receipts' = Append(receipts, slip)
  BY DEF Till!insert_order
<1>2. slip \in Receipt
  <2>1. Till!Sum(lines, "net") \in Int /\ Till!Sum(lines, "tax") \in Int /\ tenders.cash \in Int /\ tenders.mpesa \in Int
    BY SumIs
  <2>2. /\ Till!Money(Till!Sum(lines, "net"), 1) \in Int /\ Till!Money(Till!Sum(lines, "tax"), 1) \in Int
        /\ Till!Money(tenders.cash, 1) \in Int /\ Till!Money(tenders.mpesa, 1) \in Int
    BY <2>1, WholeType
  <2> QED BY <2>2 DEF Receipt
<1>3. receipts \in Seq(Receipt)
  BY DEF TakingsInv
<1>4. slip.kind = kind /\ slip.status = "captured" /\ slip.lines = lines /\ slip.refund_of = refund_of
      /\ slip.total = Till!Money(Till!Sum(lines, "net"), 1)
      /\ slip.cash = Till!Money(tenders.cash, 1) /\ slip.mpesa = Till!Money(tenders.mpesa, 1)
  OBVIOUS
<1> HIDE DEF slip
<1>5. /\ receipts' \in Seq(Receipt)
      /\ DOMAIN receipts' = DOMAIN receipts \cup {Len(receipts) + 1} /\ Len(receipts) + 1 \notin DOMAIN receipts
      /\ \A m \in DOMAIN receipts : receipts'[m] = receipts[m]
      /\ receipts'[Len(receipts) + 1] = slip
  BY <1>1, <1>2, <1>3
<1> QED BY <1>4, <1>5

\* What was refunded of a sale, where the refunds in question stay as they were.
LEMMA BackKept ==
    ASSUME receipts \in Seq(Receipt), NEW n, NEW i, Till!RefundsOf(n)' = Till!RefundsOf(n),
           \A r \in Till!RefundsOf(n) : receipts'[r].lines = receipts[r].lines
    PROVE  Till!Back(n, i, "qty")' = Till!Back(n, i, "qty")
<1>1. Till!Back(n, i, "qty") = Tally([r \in Till!RefundsOf(n) |-> receipts[r].lines[i]["qty"]], Till!RefundsOf(n))
  BY TillTally DEF Till!Back
<1>2. Till!Back(n, i, "qty")'
        = Tally([r \in Till!RefundsOf(n)' |-> receipts'[r].lines[i]["qty"]], Till!RefundsOf(n)')
  BY TillTally DEF Till!Back
<1>3. [r \in Till!RefundsOf(n)' |-> receipts'[r].lines[i]["qty"]]
        = [r \in Till!RefundsOf(n) |-> receipts[r].lines[i]["qty"]]
  OBVIOUS
<1> QED BY <1>1, <1>2, <1>3, Zenon

\* The lines of a sale, and of a refund, keep their shape.
LEMMA PricedLines ==
    ASSUME NEW basket \in Baskets, NEW shown \in Prices
    PROVE  /\ Till!compute_totals(basket, shown) \in Seq(ReceiptLines)
           /\ \A i \in DOMAIN Till!compute_totals(basket, shown) :
                 LET line == Till!compute_totals(basket, shown)[i] IN
                 line.qty > 0 /\ 0 <= line.tax /\ line.tax <= line.net
<1> DEFINE lines == Till!compute_totals(basket, shown)
<1>1. basket \in Seq([qty : Nat \ {0}, discount_pct : 0..100, rate : Nat]) /\ shown \in Nat
  BY TillAssumption
<1>2. DOMAIN lines = DOMAIN basket /\ DOMAIN basket = 1..Len(basket) /\ Len(basket) \in Nat
  BY <1>1 DEF Till!compute_totals
<1>3. ASSUME NEW i \in DOMAIN basket
      PROVE  /\ lines[i] \in ReceiptLines /\ lines[i].qty > 0
             /\ 0 <= lines[i].tax /\ lines[i].tax <= lines[i].net
  <2>1. PICK q, off, rate : q = basket[i].qty /\ off = basket[i].discount_pct /\ rate = basket[i].rate
    OBVIOUS
  <2>2. q \in Nat \ {0} /\ off \in 0..100 /\ rate \in Nat
    <3> DEFINE Rows == [qty : Nat \ {0}, discount_pct : 0..100, rate : Nat]
    <3>1. basket[i] \in Rows
      <4>1. basket \in Seq(Rows)
        BY <1>1
      <4> HIDE DEF Rows
      <4> QED BY <4>1
    <3> QED BY <2>1, <3>1
  <2>3. PICK g : g = Till!effective_gross(basket[i], shown)
    OBVIOUS
  <2>4. lines[i] = [qty |-> q, net |-> g, tax |-> Till!tax_inside(g, rate)]
    BY <2>1, <2>3 DEF Till!compute_totals
  <2>5. PICK c \in Int : g = 10 * c /\ g >= 0
    <3>1. q * shown * (100 - off) \in Nat
      <4>1. PICK x \in Nat, y \in Nat : x = q * shown /\ y = 100 - off
        BY <1>1, <2>2
      <4>2. x * y \in Nat
        OBVIOUS
      <4> QED BY <4>1, <4>2
    <3>2. g = Till!Money(q * shown * (100 - off), 100)
      BY <2>1, <2>3 DEF Till!effective_gross
    <3>3. PICK n : n = q * shown * (100 - off)
      OBVIOUS
    <3>4. n \in Nat /\ n \in Int /\ 100 \in Nat \ {0}
      BY <3>1, <3>3
    <3> QED BY <3>2, <3>3, <3>4, MoneyIs, MoneyAtLeast
  <2>6. g * rate \in Nat /\ 100 + rate \in Nat \ {0} /\ g * rate <= 10 * c * (100 + rate)
    <3>1. c \in Nat
      BY <2>5
    <3>2. PICK cr \in Nat : cr = c * rate
      BY <2>2, <3>1
    <3>3. g * rate = 10 * cr /\ 10 * c * (100 + rate) = 1000 * c + 10 * cr
      BY <2>2, <2>5, <3>2
    <3> QED BY <2>2, <3>1, <3>2, <3>3
  <2>7. PICK n : n = g * rate
    OBVIOUS
  <2>8. Till!Money(n, 100 + rate) \in Int /\ Till!Money(n, 100 + rate) >= 0 /\ Till!Money(n, 100 + rate) <= 10 * c
    <3>1. n \in Nat /\ n \in Int
      BY <2>6, <2>7
    <3> QED BY <2>6, <2>7, <3>1, WholeType, MoneyAtLeast, MoneyAtMost
  <2>9. PICK tax : tax = Till!tax_inside(g, rate) /\ tax \in Int /\ tax >= 0 /\ tax <= g
    BY <2>5, <2>7, <2>8 DEF Till!tax_inside
  <2> QED BY <2>2, <2>4, <2>5, <2>9 DEF ReceiptLines
<1>4. \A i \in 1..Len(basket) : lines[i] \in ReceiptLines
  BY <1>2, <1>3
<1>5. lines = [i \in 1..Len(basket) |-> lines[i]]
  BY <1>2 DEF Till!compute_totals
<1> HIDE DEF lines
<1>6. lines \in Seq(ReceiptLines)
  BY <1>2, <1>4, <1>5
<1> QED BY <1>2, <1>3, <1>6 DEF lines

LEMMA RefundedLines ==
    ASSUME TakingsInv, NEW n \in Till!Sales, NEW qtys \in [DOMAIN receipts[n].lines -> Nat]
    PROVE  /\ Till!refunded_lines(n, qtys) \in Seq(ReceiptLines)
           /\ DOMAIN Till!refunded_lines(n, qtys) = DOMAIN receipts[n].lines
           /\ \A i \in DOMAIN receipts[n].lines : Till!refunded_lines(n, qtys)[i].qty = qtys[i]
<1> DEFINE lines == Till!refunded_lines(n, qtys)
<1>1. PICK sold : sold = receipts[n].lines
  OBVIOUS
<1>2. n \in DOMAIN receipts /\ receipts[n].kind = "sale"
  BY DEF Till!Sales
<1>3. sold \in Seq(ReceiptLines) /\ \A i \in DOMAIN sold : sold[i] \in ReceiptLines /\ sold[i].qty > 0
  <2>1. sold \in Seq(ReceiptLines)
    BY <1>1, <1>2, ReceiptsTyped DEF TakingsInv, Receipt
  <2> QED BY <1>1, <1>2, <2>1 DEF TakingsInv, TaxInside
<1>4. DOMAIN sold = 1..Len(sold) /\ Len(sold) \in Nat
  BY <1>3
<1>5. lines = [i \in 1..Len(sold) |-> [qty |-> qtys[i], net |-> Till!share(sold[i], qtys[i], sold[i].net),
                                       tax |-> Till!share(sold[i], qtys[i], sold[i].tax)]]
  BY <1>1, <1>4 DEF Till!refunded_lines
<1>6. ASSUME NEW i \in 1..Len(sold) PROVE lines[i] \in ReceiptLines /\ lines[i].qty = qtys[i]
  <2>1. sold[i].qty \in Nat \ {0} /\ sold[i].net \in Int /\ sold[i].tax \in Int /\ qtys[i] \in Nat
    <3>1. sold[i] \in ReceiptLines /\ sold[i].qty > 0 /\ qtys[i] \in Nat
      BY <1>1, <1>3, <1>4
    <3> QED BY <3>1 DEF ReceiptLines
  <2>2. Till!share(sold[i], qtys[i], sold[i].net) \in Int /\ Till!share(sold[i], qtys[i], sold[i].tax) \in Int
    BY <2>1, ShareIs
  <2> QED BY <1>5, <2>1, <2>2 DEF ReceiptLines
<1>7. DOMAIN lines = 1..Len(sold) /\ lines = [i \in 1..Len(sold) |-> lines[i]]
  BY <1>5
<1> HIDE DEF lines
<1>8. lines \in Seq(ReceiptLines)
  BY <1>4, <1>6, <1>7
<1> QED BY <1>1, <1>4, <1>6, <1>7, <1>8 DEF lines

\* What stays of the receipts that are there.
ReceiptsStay ==
    /\ DOMAIN receipts \subseteq DOMAIN receipts'
    /\ \A n \in DOMAIN receipts :
          /\ receipts'[n].kind = receipts[n].kind /\ receipts'[n].lines = receipts[n].lines
          /\ receipts'[n].refund_of = receipts[n].refund_of /\ receipts'[n].total = receipts[n].total
          /\ receipts'[n].cash = receipts[n].cash /\ receipts'[n].mpesa = receipts[n].mpesa

LEMMA SharesStay ==
    ASSUME ReceiptsStay, NEW r \in DOMAIN receipts, SharesSale(r)
    PROVE  SharesSale(r)'
<1>1. PICK n : n = receipts[r].refund_of
  OBVIOUS
<1>2. /\ n \in DOMAIN receipts /\ receipts[n].kind = "sale"
      /\ DOMAIN receipts[r].lines = DOMAIN receipts[n].lines
      /\ receipts[r].lines = Till!refunded_lines(n, [i \in DOMAIN receipts[n].lines |-> receipts[r].lines[i].qty])
      /\ receipts[r].cash + receipts[r].mpesa = receipts[r].total
  BY <1>1 DEF SharesSale
<1>3. /\ receipts'[r].refund_of = n /\ receipts'[r].lines = receipts[r].lines /\ receipts'[n].lines = receipts[n].lines
      /\ receipts'[r].total = receipts[r].total /\ receipts'[r].cash = receipts[r].cash
      /\ receipts'[r].mpesa = receipts[r].mpesa /\ receipts'[n].kind = "sale" /\ n \in DOMAIN receipts'
  BY <1>1, <1>2 DEF ReceiptsStay
<1>4. \A q : Till!refunded_lines(n, q)' = Till!refunded_lines(n, q)
  BY <1>3 DEF Till!refunded_lines, Till!share, Till!Money
<1>5. [i \in DOMAIN receipts'[n].lines |-> receipts'[r].lines[i].qty] = [i \in DOMAIN receipts[n].lines |-> receipts[r].lines[i].qty]
  BY <1>3
<1>6. PICK q : q = [i \in DOMAIN receipts[n].lines |-> receipts[r].lines[i].qty]
  OBVIOUS
<1>7. receipts'[r].lines = Till!refunded_lines(n, q)'
  BY <1>2, <1>3, <1>4, <1>6
<1>8. Till!refunded_lines(n, q)' = Till!refunded_lines(n, [i \in DOMAIN receipts[n].lines |-> receipts[r].lines[i].qty])'
  BY <1>5, <1>6 DEF Till!refunded_lines
<1> QED BY <1>1, <1>2, <1>3, <1>7, <1>8 DEF SharesSale

LEMMA RequestStays == ASSUME UNCHANGED receipts, NEW v PROVE Till!pos_session_request(v)' = Till!pos_session_request(v)
<1>1. ASSUME NEW field PROVE Till!Taken(field)' = Till!Taken(field) /\ Till!Refunded(field)' = Till!Refunded(field)
  <2>1. /\ Till!Taken(field) = Tally([n \in Till!Sales |-> receipts[n][field]], Till!Sales)
        /\ Till!Refunded(field) = Tally([n \in Till!Refunds |-> receipts[n][field]], Till!Refunds)
    BY TillTally DEF Till!Taken, Till!Refunded, Till!Column
  <2>2. /\ Till!Taken(field)' = Tally([n \in Till!Sales' |-> receipts'[n][field]], Till!Sales')
        /\ Till!Refunded(field)' = Tally([n \in Till!Refunds' |-> receipts'[n][field]], Till!Refunds')
    BY TillTally DEF Till!Taken, Till!Refunded, Till!Column
  <2>3. Till!Sales' = Till!Sales /\ Till!Refunds' = Till!Refunds
    BY DEF Till!Sales, Till!Refunds
  <2>4. /\ [n \in Till!Sales' |-> receipts'[n][field]] = [n \in Till!Sales |-> receipts[n][field]]
        /\ [n \in Till!Refunds' |-> receipts'[n][field]] = [n \in Till!Refunds |-> receipts[n][field]]
    BY <2>3
  <2> QED BY <2>1, <2>2, <2>3, <2>4, Zenon
<1> QED BY <1>1 DEF Till!pos_session_request, Till!tender_net, Till!net_sales, Till!tax_net

LEMMA CaptureStep == ASSUME TakingsInv, Till!capture PROVE TakingsInv'
<1>1. PICK basket \in Baskets, shown \in Prices, offline \in BOOLEAN, split \in Splits :
        /\ entry = << >> /\ UNCHANGED << price, entry >>
        /\ \E lines \in { Till!compute_totals(basket, shown) } :
            LET total == Till!Sum(lines, "net")
                tenders == [cash |-> total - split.cash, mpesa |-> split.mpesa] IN
            Till!insert_order("sale", lines, tenders, 0, shown # price)
  BY DEF Till!capture
<1>2. PICK lines : lines = Till!compute_totals(basket, shown)
  OBVIOUS
<1>3. lines \in Seq(ReceiptLines) /\ \A i \in DOMAIN lines : lines[i].qty > 0 /\ 0 <= lines[i].tax /\ lines[i].tax <= lines[i].net
  BY <1>2, PricedLines
<1>4. PICK tenders \in [cash : Int, mpesa : Int] : Till!insert_order("sale", lines, tenders, 0, shown # price)
  <2>1. Till!insert_order("sale", lines, [cash |-> Till!Sum(lines, "net") - split.cash, mpesa |-> split.mpesa], 0, shown # price)
    BY <1>1, <1>2
  <2>2. Till!Sum(lines, "net") \in Int
    BY <1>3, SumIs
  <2>3. split.cash \in Int /\ split.mpesa \in Int
    BY TillAssumption
  <2> QED BY <2>1, <2>2, <2>3
<1>5. PICK m : m = Len(receipts) + 1
  OBVIOUS
<1>6. /\ receipts' \in Seq(Receipt)
      /\ DOMAIN receipts' = DOMAIN receipts \cup {m} /\ m \notin DOMAIN receipts
      /\ \A n \in DOMAIN receipts : receipts'[n] = receipts[n]
      /\ receipts'[m].kind = "sale" /\ receipts'[m].status = "captured" /\ receipts'[m].lines = lines
  <2>1. (shown # price) \in BOOLEAN /\ 0 \in Nat
    OBVIOUS
  <2> QED BY <1>3, <1>4, <1>5, <2>1, InsertIs
<1>7. TaxInside'
  BY <1>3, <1>6 DEF TakingsInv, TaxInside
<1>8. SharesOfSales'
  <2>1. ReceiptsStay
    BY <1>6 DEF ReceiptsStay
  <2>2. ASSUME NEW r \in DOMAIN receipts', receipts'[r].kind = "refund" PROVE SharesSale(r)'
    <3>1. r \in DOMAIN receipts /\ receipts[r].kind = "refund"
      BY <1>6, <2>2
    <3> QED BY <2>1, <3>1, SharesStay DEF TakingsInv, SharesOfSales
  <2> QED BY <2>2 DEF SharesOfSales
<1>9. WithinSold'
  <2>1. \A n \in DOMAIN receipts : Till!RefundsOf(n)' = Till!RefundsOf(n)
    BY <1>6 DEF Till!RefundsOf, Till!Refunds
  <2>2. Till!Sales' = Till!Sales \cup {m}
    BY <1>6 DEF Till!Sales
  <2>3. ASSUME NEW n \in Till!Sales, NEW i \in DOMAIN receipts'[n].lines
        PROVE  Till!Back(n, i, "qty")' <= receipts'[n].lines[i].qty
    <3>1. n \in DOMAIN receipts
      BY DEF Till!Sales
    <3>2. \A r \in Till!RefundsOf(n) : receipts'[r].lines = receipts[r].lines
      BY <1>6, SetsFinite DEF TakingsInv
    <3>3. Till!Back(n, i, "qty")' = Till!Back(n, i, "qty")
      BY <2>1, <3>1, <3>2, BackKept DEF TakingsInv
    <3> QED BY <1>6, <3>1, <3>3 DEF TakingsInv, WithinSold
  <2>4. ASSUME NEW i \in DOMAIN lines PROVE Till!Back(m, i, "qty")' <= lines[i].qty
    <3>1. Till!RefundsOf(m)' = {}
      <4>1. \A r \in DOMAIN receipts : receipts[r].kind = "refund" => receipts[r].refund_of # m
        BY <1>6 DEF TakingsInv, SharesOfSales, SharesSale
      <4> QED BY <1>6, <4>1 DEF Till!RefundsOf, Till!Refunds
    <3>2. Till!Back(m, i, "qty")'
            = Tally([r \in Till!RefundsOf(m)' |-> receipts'[r].lines[i]["qty"]], Till!RefundsOf(m)')
      BY TillTally DEF Till!Back
    <3>3. Till!Back(m, i, "qty")' = 0
      BY <3>1, <3>2, TallyEmpty
    <3>4. lines[i].qty \in Nat
      <4>1. lines[i] \in ReceiptLines
        BY <1>3
      <4> QED BY <4>1 DEF ReceiptLines
    <3> QED BY <3>3, <3>4
  <2>5. ASSUME NEW n \in Till!Sales', NEW i \in DOMAIN receipts'[n].lines
        PROVE  Till!Back(n, i, "qty")' <= receipts'[n].lines[i].qty
    <3>1. CASE n \in Till!Sales
      BY <2>3, <3>1
    <3>2. CASE n = m
      BY <1>6, <2>4, <3>2
    <3> QED BY <2>2, <3>1, <3>2
  <2> QED BY <2>5 DEF WithinSold
<1>10. price' \in Prices /\ EntryTold'
  BY <1>1 DEF TakingsInv, EntryTold
<1> QED BY <1>6, <1>7, <1>8, <1>9, <1>10 DEF TakingsInv

LEMMA RefundStep == ASSUME TakingsInv, Till!refund PROVE TakingsInv'
<1>1. PICK s \in Till!Sales, tender \in {"cash", "mpesa"} :
        \E qtys \in [DOMAIN receipts[s].lines -> UNION { 0..q : q \in Till!Sold(s) }] :
            /\ entry = << >>
            /\ \A i \in DOMAIN qtys : Till!refunded_qty(s, i) + qtys[i] <= receipts[s].lines[i].qty
            /\ \E lines \in { Till!refunded_lines(s, qtys) } :
                LET total == Till!Sum(lines, "net") IN
                Till!insert_order("refund", lines,
                    [cash |-> IF tender = "cash" THEN total ELSE 0, mpesa |-> IF tender = "mpesa" THEN total ELSE 0],
                    s, FALSE)
            /\ UNCHANGED << price, entry >>
  BY DEF Till!refund
<1>2. PICK qtys \in [DOMAIN receipts[s].lines -> UNION { 0..q : q \in Till!Sold(s) }] :
        /\ entry = << >> /\ UNCHANGED << price, entry >>
        /\ \A i \in DOMAIN qtys : Till!refunded_qty(s, i) + qtys[i] <= receipts[s].lines[i].qty
        /\ \E lines \in { Till!refunded_lines(s, qtys) } :
            LET total == Till!Sum(lines, "net") IN
            Till!insert_order("refund", lines,
                [cash |-> IF tender = "cash" THEN total ELSE 0, mpesa |-> IF tender = "mpesa" THEN total ELSE 0],
                s, FALSE)
  BY <1>1
<1>3. s \in DOMAIN receipts /\ receipts[s].kind = "sale"
  BY DEF Till!Sales
<1>4. qtys \in [DOMAIN receipts[s].lines -> Nat]
  <2>1. \A i \in DOMAIN receipts[s].lines : receipts[s].lines[i].qty \in Nat
    BY <1>3, ReceiptsTyped DEF TakingsInv, ReceiptLines
  <2>2. \A q \in Till!Sold(s) : q \in Nat
    BY <2>1 DEF Till!Sold
  <2> QED BY <2>2
<1>5. PICK lines : lines = Till!refunded_lines(s, qtys)
  OBVIOUS
<1>6. /\ lines \in Seq(ReceiptLines) /\ DOMAIN lines = DOMAIN receipts[s].lines
      /\ \A i \in DOMAIN receipts[s].lines : lines[i].qty = qtys[i]
  BY <1>4, <1>5, RefundedLines
<1>7. PICK total \in Int : total = Till!Sum(lines, "net")
  BY <1>6, SumIs
<1>8. PICK tenders \in [cash : Int, mpesa : Int] :
        /\ tenders.cash = (IF tender = "cash" THEN total ELSE 0) /\ tenders.mpesa = (IF tender = "mpesa" THEN total ELSE 0)
        /\ Till!insert_order("refund", lines, tenders, s, FALSE)
  <2> DEFINE paid == [cash |-> IF tender = "cash" THEN total ELSE 0, mpesa |-> IF tender = "mpesa" THEN total ELSE 0]
  <2>1. Till!insert_order("refund", lines, paid, s, FALSE)
    BY <1>2, <1>5, <1>7
  <2>2. /\ paid \in [cash : Int, mpesa : Int]
        /\ paid.cash = (IF tender = "cash" THEN total ELSE 0) /\ paid.mpesa = (IF tender = "mpesa" THEN total ELSE 0)
    OBVIOUS
  <2> HIDE DEF paid
  <2> QED BY <2>1, <2>2
<1>9. PICK m : m = Len(receipts) + 1
  OBVIOUS
<1>10. /\ receipts' \in Seq(Receipt)
       /\ DOMAIN receipts' = DOMAIN receipts \cup {m} /\ m \notin DOMAIN receipts
       /\ \A n \in DOMAIN receipts : receipts'[n] = receipts[n]
       /\ receipts'[m].kind = "refund" /\ receipts'[m].status = "captured" /\ receipts'[m].lines = lines
       /\ receipts'[m].refund_of = s /\ receipts'[m].total = Till!Money(total, 1)
       /\ receipts'[m].cash = Till!Money(tenders.cash, 1) /\ receipts'[m].mpesa = Till!Money(tenders.mpesa, 1)
  <2>1. s \in Nat
    BY <1>3 DEF TakingsInv
  <2> QED BY <1>6, <1>7, <1>8, <1>9, <2>1, InsertIs
<1>11. TaxInside'
  BY <1>10 DEF TakingsInv, TaxInside
<1>12. SharesOfSales'
  <2>1. ReceiptsStay
    BY <1>10 DEF ReceiptsStay
  <2>2. SharesSale(m)'
    <3>1. /\ receipts'[m].refund_of = s /\ s \in DOMAIN receipts' /\ receipts'[s].kind = "sale"
          /\ receipts'[s].lines = receipts[s].lines /\ receipts'[m].lines = lines
          /\ DOMAIN receipts'[m].lines = DOMAIN receipts'[s].lines
      BY <1>3, <1>6, <1>10
    <3>2. \A q : Till!refunded_lines(s, q)' = Till!refunded_lines(s, q)
      BY <3>1 DEF Till!refunded_lines, Till!share, Till!Money
    <3>3. [i \in DOMAIN receipts'[s].lines |-> receipts'[m].lines[i].qty] = qtys
      BY <1>4, <1>6, <3>1
    <3>4. lines = Till!refunded_lines(s, [i \in DOMAIN receipts[s].lines |-> receipts[m].lines[i].qty])'
      BY <1>5, <3>2, <3>3 DEF Till!refunded_lines
    <3>5. receipts'[m].cash + receipts'[m].mpesa = receipts'[m].total
      <4>1. Till!Money(0, 1) = 0
        BY MoneyWhole
      <4>2. Till!Money(total, 1) \in Int
        <5>1. 1 \in Nat \ {0}
          OBVIOUS
        <5> QED BY <5>1, WholeType
      <4>3. /\ tender = "cash" => receipts'[m].cash = Till!Money(total, 1) /\ receipts'[m].mpesa = Till!Money(0, 1)
            /\ tender = "mpesa" => receipts'[m].cash = Till!Money(0, 1) /\ receipts'[m].mpesa = Till!Money(total, 1)
        BY <1>8, <1>10
      <4> QED BY <1>10, <4>1, <4>2, <4>3
    <3> QED BY <3>1, <3>4, <3>5 DEF SharesSale
  <2>3. ASSUME NEW r \in DOMAIN receipts, receipts[r].kind = "refund" PROVE SharesSale(r)'
    BY <2>1, <2>3, SharesStay DEF TakingsInv, SharesOfSales
  <2>4. \A r \in DOMAIN receipts' : receipts'[r].kind = "refund" => SharesSale(r)'
    BY <1>10, <2>2, <2>3
  <2> QED BY <2>4 DEF SharesOfSales
<1>13. WithinSold'
  <2>1. Till!Sales' = Till!Sales
    BY <1>10 DEF Till!Sales
  <2>2. /\ Till!RefundsOf(s)' = Till!RefundsOf(s) \cup {m}
        /\ \A n : n # s => Till!RefundsOf(n)' = Till!RefundsOf(n)
    BY <1>10 DEF Till!RefundsOf, Till!Refunds
  <2>3. \A n : \A r \in Till!RefundsOf(n) : receipts'[r].lines = receipts[r].lines
    BY <1>10, SetsFinite DEF TakingsInv
  <2>4. ASSUME NEW n \in Till!Sales, n # s, NEW i \in DOMAIN receipts[n].lines
        PROVE  Till!Back(n, i, "qty")' <= receipts[n].lines[i].qty
    <3>1. Till!Back(n, i, "qty")' = Till!Back(n, i, "qty")
      BY <2>2, <2>3, <2>4, BackKept DEF TakingsInv
    <3> QED BY <3>1 DEF TakingsInv, WithinSold
  <2>5. ASSUME NEW i \in DOMAIN receipts[s].lines
        PROVE  Till!Back(s, i, "qty")' <= receipts[s].lines[i].qty
    <3>1. PICK R, f, g : /\ R = Till!RefundsOf(s) /\ f = [r \in R |-> receipts[r].lines[i]["qty"]]
                         /\ g = [r \in R \cup {m} |-> receipts'[r].lines[i]["qty"]]
      OBVIOUS
    <3>2. IsFiniteSet(R) /\ R \subseteq DOMAIN receipts /\ m \notin R
      BY <1>10, <3>1, SetsFinite DEF TakingsInv
    <3>3. \A r \in R : f[r] \in Int /\ g[r] = f[r]
      <4>1. ASSUME NEW r \in R PROVE receipts[r].lines[i].qty \in Int
        <5>1. r \in DOMAIN receipts /\ DOMAIN receipts[r].lines = DOMAIN receipts[s].lines
          BY <3>1, <3>2 DEF TakingsInv, SharesOfSales, SharesSale, Till!RefundsOf, Till!Refunds
        <5> QED BY <5>1, ReceiptsTyped DEF TakingsInv, ReceiptLines
      <4> QED BY <2>3, <3>1, <4>1
    <3>4. g[m] = qtys[i] /\ qtys[i] \in Int
      BY <1>4, <1>6, <1>10, <3>1
    <3>5. Tally(g, R \cup {m}) = g[m] + Tally(g, R)
      <4>1. \A r \in R \cup {m} : g[r] \in Int
        BY <3>3, <3>4
      <4> QED BY <3>2, <4>1, TallyInsert
    <3>6. Tally(f, R) = Tally(g, R)
      BY <3>2, <3>3, TallySame
    <3>7. Till!Back(s, i, "qty") = Tally(f, R)
      BY <3>1, TillTally DEF Till!Back
    <3>8. Till!Back(s, i, "qty")' = Tally(g, R \cup {m})
      <4>1. Till!Back(s, i, "qty")'
              = Tally([r \in Till!RefundsOf(s)' |-> receipts'[r].lines[i]["qty"]], Till!RefundsOf(s)')
        BY TillTally DEF Till!Back
      <4> QED BY <2>2, <3>1, <4>1
    <3>9. Till!refunded_qty(s, i) + qtys[i] <= receipts[s].lines[i].qty
      BY <1>2, <1>4
    <3>10. Tally(f, R) \in Int
      BY <3>2, <3>3, TallyType
    <3> QED BY <3>4, <3>5, <3>6, <3>7, <3>8, <3>9, <3>10 DEF Till!refunded_qty
  <2>6. \A n \in Till!Sales : receipts'[n].lines = receipts[n].lines
    BY <1>10 DEF Till!Sales
  <2> QED BY <1>3, <2>1, <2>4, <2>5, <2>6 DEF WithinSold
<1>14. price' \in Prices /\ EntryTold'
  BY <1>2 DEF TakingsInv, EntryTold
<1> QED BY <1>10, <1>11, <1>12, <1>13, <1>14 DEF TakingsInv

LEMMA VoidTakings == ASSUME TakingsInv, Till!void PROVE TakingsInv'
<1>1. PICK n \in Till!Sales \cup Till!Refunds :
        /\ entry = << >> /\ UNCHANGED << price, entry >>
        /\ receipts' = [receipts EXCEPT ![n].status = "voided"]
  BY DEF Till!void
<1>2. n \in DOMAIN receipts /\ receipts \in Seq(Receipt)
  BY DEF TakingsInv, Till!Sales, Till!Refunds
<1>3. receipts' = [receipts EXCEPT ![n] = [receipts[n] EXCEPT !.status = "voided"]]
  BY <1>1
<1>4. PICK e : e = [receipts[n] EXCEPT !.status = "voided"]
  OBVIOUS
<1>5. /\ e \in Receipt /\ e.status = "voided" /\ e.kind = receipts[n].kind /\ e.lines = receipts[n].lines
      /\ e.refund_of = receipts[n].refund_of /\ e.total = receipts[n].total /\ e.cash = receipts[n].cash
      /\ e.mpesa = receipts[n].mpesa
  BY <1>2, <1>4, ReceiptsTyped DEF Receipt
<1>6. /\ receipts' \in Seq(Receipt) /\ DOMAIN receipts' = DOMAIN receipts /\ receipts'[n] = e
      /\ \A m \in DOMAIN receipts : m # n => receipts'[m] = receipts[m]
  BY <1>2, <1>3, <1>4, <1>5
<1>7. ReceiptsStay
  BY <1>5, <1>6 DEF ReceiptsStay
<1>8. TaxInside'
  BY <1>6, <1>7 DEF TakingsInv, TaxInside, ReceiptsStay
<1>9. SharesOfSales'
  <2>1. ASSUME NEW r \in DOMAIN receipts', receipts'[r].kind = "refund" PROVE SharesSale(r)'
    <3>1. r \in DOMAIN receipts /\ receipts[r].kind = "refund"
      BY <1>6, <1>7, <2>1 DEF ReceiptsStay
    <3> QED BY <1>7, <3>1, SharesStay DEF TakingsInv, SharesOfSales
  <2> QED BY <2>1 DEF SharesOfSales
<1>10. WithinSold'
  <2>1. Till!Sales' = Till!Sales \ {n} /\ \A x : Till!RefundsOf(x)' = Till!RefundsOf(x) \ {n}
    <3>1. Till!Sales' = Till!Sales \ {n} /\ Till!Refunds' = Till!Refunds \ {n}
      BY <1>5, <1>6, <1>7 DEF Till!Sales, Till!Refunds, ReceiptsStay
    <3>2. \A r \in Till!Refunds : receipts'[r].refund_of = receipts[r].refund_of
      BY <1>7 DEF ReceiptsStay, Till!Refunds
    <3> QED BY <3>1, <3>2 DEF Till!RefundsOf
  <2>2. ASSUME NEW x \in Till!Sales, NEW i \in DOMAIN receipts[x].lines
        PROVE  Till!Back(x, i, "qty")' <= receipts[x].lines[i].qty
    <3>1. PICK R, f, g : /\ R = Till!RefundsOf(x) /\ f = [r \in R |-> receipts[r].lines[i]["qty"]]
                         /\ g = [r \in R \ {n} |-> receipts'[r].lines[i]["qty"]]
      OBVIOUS
    <3>2. IsFiniteSet(R) /\ R \subseteq DOMAIN receipts
      BY <3>1, SetsFinite DEF TakingsInv
    <3>3. \A r \in R : f[r] \in Nat
      <4>1. ASSUME NEW r \in R PROVE receipts[r].lines[i].qty \in Nat
        <5>1. r \in DOMAIN receipts /\ DOMAIN receipts[r].lines = DOMAIN receipts[x].lines
          BY <3>1, <3>2 DEF TakingsInv, SharesOfSales, SharesSale, Till!RefundsOf, Till!Refunds
        <5> QED BY <5>1, ReceiptsTyped DEF TakingsInv, ReceiptLines
      <4> QED BY <3>1, <4>1
    <3>4. \A r \in R \ {n} : g[r] = f[r]
      BY <1>6, <3>1, <3>2
    <3>5. Till!Back(x, i, "qty") = Tally(f, R)
      BY <3>1, TillTally DEF Till!Back
    <3>6. Till!Back(x, i, "qty")' = Tally(g, R \ {n})
      <4>1. Till!Back(x, i, "qty")'
              = Tally([r \in Till!RefundsOf(x)' |-> receipts'[r].lines[i]["qty"]], Till!RefundsOf(x)')
        BY TillTally DEF Till!Back
      <4> QED BY <2>1, <3>1, <4>1
    <3>7. IsFiniteSet(R \ {n}) /\ \A r \in R \ {n} : f[r] \in Int
      <4>1. IsFiniteSet(R \ {n})
        BY <3>2, FS_RemoveElement
      <4> QED BY <3>3, <4>1
    <3>8. Tally(f, R \ {n}) = Tally(g, R \ {n}) /\ Tally(f, R \ {n}) \in Int
      BY <3>4, <3>7, TallySame, TallyType
    <3>9. Tally(f, R \ {n}) <= Tally(f, R)
      <4>1. CASE n \in R
        <5>1. Tally(f, R) = f[n] + Tally(f, R \ {n})
          BY <3>2, <3>3, <4>1, TallyRemove
        <5> QED BY <3>3, <3>8, <4>1, <5>1
      <4>2. CASE n \notin R
        <5>1. R \ {n} = R
          BY <4>2
        <5> QED BY <3>8, <5>1
      <4> QED BY <4>1, <4>2
    <3>10. Tally(f, R) <= receipts[x].lines[i].qty
      BY <3>5 DEF TakingsInv, WithinSold
    <3>11. receipts[x].lines[i].qty \in Nat /\ Tally(f, R) \in Int
      <4>1. x \in DOMAIN receipts
        BY DEF Till!Sales
      <4> QED BY <3>2, <3>3, <4>1, ReceiptsTyped, TallyType DEF TakingsInv, ReceiptLines
    <3> QED BY <3>6, <3>8, <3>9, <3>10, <3>11
  <2>3. \A x \in Till!Sales : receipts'[x].lines = receipts[x].lines
    BY <1>7 DEF ReceiptsStay, Till!Sales
  <2> QED BY <2>1, <2>2, <2>3 DEF WithinSold
<1>11. price' \in Prices /\ EntryTold'
  BY <1>1 DEF TakingsInv, EntryTold
<1> QED BY <1>6, <1>8, <1>9, <1>10, <1>11 DEF TakingsInv

\* Nothing is asked again of receipts that do not change.
LEMMA ReceiptsRest ==
    ASSUME TakingsInv, UNCHANGED receipts, price' \in Prices, EntryTold'
    PROVE  TakingsInv'
<1>1. ReceiptsStay
  BY DEF ReceiptsStay
<1>2. TaxInside'
  BY DEF TakingsInv, TaxInside
<1>3. SharesOfSales'
  BY <1>1, SharesStay DEF TakingsInv, SharesOfSales
<1>4. WithinSold'
  <2>1. Till!Sales' = Till!Sales /\ \A n : Till!RefundsOf(n)' = Till!RefundsOf(n)
    BY DEF Till!Sales, Till!RefundsOf, Till!Refunds
  <2>2. \A n, i : Till!Back(n, i, "qty")' = Till!Back(n, i, "qty")
    BY <2>1, BackKept DEF TakingsInv
  <2> QED BY <2>1, <2>2 DEF TakingsInv, WithinSold
<1> QED BY <1>2, <1>3, <1>4 DEF TakingsInv

LEMMA TakingsRest == ASSUME TakingsInv, UNCHANGED money PROVE TakingsInv'
<1>1. UNCHANGED << price, receipts, entry >>
  BY DEF money
<1>2. EntryTold'
  BY <1>1, RequestStays DEF TakingsInv, EntryTold
<1>3. price' \in Prices
  BY <1>1 DEF TakingsInv
<1> QED BY <1>1, <1>2, <1>3, ReceiptsRest

LEMMA TakingsStep == ASSUME TakingsInv, Till!Next PROVE TakingsInv'
<1>1. CASE Till!consolidate
  <2>1. PICK v \in Variances : entry' = Till!pos_session_request(v) /\ UNCHANGED << price, receipts >>
    BY <1>1 DEF Till!consolidate
  <2>2. EntryTold'
    BY <2>1, RequestStays DEF EntryTold
  <2> QED BY <2>1, <2>2, ReceiptsRest DEF TakingsInv
<1>2. CASE Till!reprice
  <2>1. price' \in Prices /\ UNCHANGED << receipts, entry >>
    BY <1>2 DEF Till!reprice
  <2>2. EntryTold'
    BY <2>1, RequestStays DEF TakingsInv, EntryTold
  <2> QED BY <2>1, <2>2, ReceiptsRest
<1> QED BY <1>1, <1>2, CaptureStep, RefundStep, VoidTakings DEF Till!Next

\* The entry of a closed session balances, whatever it sold at whatever prices,
\* rates and discounts, and took back in whatever parts; the tax of a line lies
\* inside its price; and the parts are the shares of what the line sold for.
THEOREM TakingsBalance == MCSpec => []TakingsTie
<1>1. MCInit => TakingsInv
  BY TakingsInit DEF MCInit
<1>2. TakingsInv /\ [MCNext]_<< side, sales, money >> => TakingsInv'
  BY TakingsStep, TakingsRest DEF MCNext
<1> QED BY <1>1, <1>2, TakingsImplied, PTL DEF MCSpec
=============================================================================
