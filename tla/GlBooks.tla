------------------------------- MODULE GlBooks -------------------------------
(***************************************************************************)
(* What the posting of a document promises the general ledger: once the    *)
(* document is posted its entry is asked for, and an entry that was asked  *)
(* for is booked once.                                                     *)
(***************************************************************************)
EXTENDS Naturals

CONSTANT Sources    \* the documents that have something to book

VARIABLES
    asked,          \* the sources whose document is posted
    entries         \* entries[s]: the journal entries that carry source s

vars == << asked, entries >>

Init ==
    /\ asked = {}
    /\ entries = [s \in Sources |-> 0]

Ask(s) ==
    /\ s \notin asked
    /\ asked' = asked \cup {s}
    /\ UNCHANGED entries

Book(s) ==
    /\ s \in asked /\ entries[s] = 0
    /\ entries' = [entries EXCEPT ![s] = 1]
    /\ UNCHANGED asked

Next == \E s \in Sources : Ask(s) \/ Book(s)

Spec == Init /\ [][Next]_vars

FairSpec == Spec /\ \A s \in Sources : WF_vars(Book(s))

=============================================================================
