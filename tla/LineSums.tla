------------------------------ MODULE LineSums ------------------------------
(***************************************************************************)
(* Sums of the quantities on the lines of a document.  Quantities are      *)
(* NUMERIC(20, 6) columns, so they are bounded; MaxQty is that bound, in   *)
(* units of the last decimal.  A sum is the number of units on the lines,  *)
(* each line l of S holding the units <<l, 1>>, <<l, 2>>, ... <<l, f[l]>>. *)
(***************************************************************************)
EXTENDS Naturals, FiniteSets

CONSTANT MaxQty     \* the largest quantity a line can carry

ASSUME MaxQtyAssumption == MaxQty \in Nat

Qtys == 0..MaxQty

Units(f, S) == { u \in S \X (1..MaxQty) : u[2] <= f[u[1]] }

Sum(f, S) == Cardinality(Units(f, S))
=============================================================================
