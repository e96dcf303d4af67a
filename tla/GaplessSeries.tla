--------------------------- MODULE GaplessSeries ---------------------------
(***************************************************************************)
(* What numbering promises to the modules that number documents            *)
(* (crates/nebula/src/numbering.rs): every sequence starts at nothing, and *)
(* the only thing that ever happens to one is that its next number goes to *)
(* a document that is kept.                                                *)
(***************************************************************************)
EXTENDS Naturals

CONSTANT Series     \* the sequences: one per series key and period

VARIABLE last       \* last[r]: the last number issued to a kept document

Init == last = [r \in Series |-> 0]

Issue(r) == last' = [last EXCEPT ![r] = @ + 1]

Next == \E r \in Series : Issue(r)

Spec == Init /\ [][Next]_last
=============================================================================
