------------------------- MODULE MCSalesFulfilment -------------------------
(* Small instances of SalesFulfilment for TLC. *)
EXTENDS SalesFulfilment

CONSTANTS o1, o2, g1, g2

\* Two orders compete for the level g1.  One of them has two lines there, the
\* other also ships from g2 and has a service line.
MCLines == 1..5
MCOrderOf == << o1, o1, o2, o2, o2 >>
MCGateOf == << g1, g1, g1, g2, g1 >>
MCOrdered == << 1, 1, 2, 1, 1 >>
MCServices == {5}
=============================================================================
