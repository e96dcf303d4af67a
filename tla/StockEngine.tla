---------------------------- MODULE StockEngine ----------------------------
(***************************************************************************)
(* The stock engine (crates/nebula-apps/src/scm/inventory/stock.rs): what  *)
(* one movement does to the level row of an item in a warehouse.  The      *)
(* callers hold the row lock, so an operation is a function of the row.    *)
(*                                                                         *)
(* Quantities are whole stock units, values are cents and unit costs are   *)
(* millionths of the currency unit, so CostPerCent = 10^4 unit costs make  *)
(* one cent.  rust_decimal's round_dp rounds half to even.                 *)
(***************************************************************************)
EXTENDS Integers

CONSTANT CostPerCent

ASSUME CostPerCentAssumption == CostPerCent \in Nat \ {0}

Level == [on_hand : Nat, reserved : Nat, on_order : Nat, value : Int]

EmptyLevel == [on_hand |-> 0, reserved |-> 0, on_order |-> 0, value |-> 0]

Least(a, b) == IF a <= b THEN a ELSE b
Greatest(a, b) == IF a >= b THEN a ELSE b

\* a / b rounded half to even, b > 0.
RoundedQuotient(a, b) ==
    LET q == a \div b
        r == a % b
    IN  IF 2 * r > b \/ (2 * r = b /\ q % 2 = 1) THEN q + 1 ELSE q

round_money(costs) == RoundedQuotient(costs, CostPerCent)

level_average(l) ==
    IF l.on_hand = 0 THEN 0 ELSE RoundedQuotient(l.value * CostPerCent, l.on_hand)

CanReceive(l, qty, unit_cost) == qty > 0 /\ unit_cost >= 0

Received(l, qty, unit_cost) ==
    [l EXCEPT !.on_hand = @ + qty, !.value = @ + round_money(qty * unit_cost)]

\* MUTANT of CanIssue: the reservation its caller holds is not spent.
CanIssue_IgnoreCovered(l, qty, covered) ==
    /\ qty > 0
    /\ covered \in 0..qty
    /\ covered <= l.reserved
    /\ l.on_hand - l.reserved >= qty

\* An issue may spend the reservation its caller holds and free stock, never
\* stock that other documents hold.
CanIssue(l, qty, covered) ==
    /\ qty > 0
    /\ covered \in 0..qty
    /\ covered <= l.reserved
    /\ l.on_hand - (l.reserved - covered) >= qty

\* Issuing everything flushes the whole value of the level.
IssueValue(l, qty) ==
    IF l.on_hand = qty THEN l.value ELSE round_money(qty * level_average(l))

Issued(l, qty, covered) ==
    [l EXCEPT !.on_hand = @ - qty,
              !.value = @ - IssueValue(l, qty),
              !.reserved = @ - covered]

\* reserve_up_to grants what free stock allows.
Grant(l, want) ==
    IF want <= 0 THEN 0 ELSE Least(want, Greatest(l.on_hand - l.reserved, 0))

reserve_up_to(l, want) == [l EXCEPT !.reserved = @ + Grant(l, want)]

\* A level never releases more than it holds.
release_reserved(l, qty) ==
    IF qty <= 0 THEN l ELSE [l EXCEPT !.reserved = @ - Least(qty, @)]

adjust_on_order(l, delta) == [l EXCEPT !.on_order = Greatest(@ + delta, 0)]

----------------------------------------------------------------------------

\* What every level row satisfies between transactions: stock is never
\* negative, never promised twice, and an empty level carries no value ("zero
\* quantity always means exactly zero value").
SoundLevel(l) ==
    /\ 0 <= l.reserved /\ l.reserved <= l.on_hand
    /\ l.on_hand = 0 => l.value = 0
    /\ l.on_order >= 0

=============================================================================
