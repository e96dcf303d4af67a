------------------------------ MODULE GlOutbox ------------------------------
(***************************************************************************)
(* The general-ledger outbox: SCM's side (crates/nebula-apps/src/scm/gl.rs)*)
(* stages a posting request in the transaction that posts the document,    *)
(* publishes it after the commit and sweeps what lingers; accounting's     *)
(* side (accounting/gl_port.rs) books a request once per source and        *)
(* acknowledges it, which deletes the staged row.                          *)
(*                                                                         *)
(* An event is delivered inside the call that publishes it, so a delivery  *)
(* belongs to its publisher: the request handler that posted the document, *)
(* or a sweeper (one per server).  Its transaction takes the advisory lock *)
(* of the source, looks for an entry and books one.  A server can stop     *)
(* between any two steps.  The grace period is abstracted to a row that    *)
(* becomes stale; amounts and account roles are left out, a closed period  *)
(* or a missing role being one condition under which nothing can be booked.*)
(***************************************************************************)
EXTENDS Naturals, Sequences, FiniteSets

CONSTANTS
    Docs,           \* the documents, and the source of their request
    Zero,           \* the documents whose request nets to nothing
    Sweepers,
    MaxCrashes,     \* bound on how often the server stops
    MaxClosings     \* bound on how often bookkeepers close the period

ASSUME OutboxAssumption ==
    /\ Zero \subseteq Docs
    /\ Docs \cap Sweepers = {}
    /\ MaxCrashes \in Nat /\ MaxClosings \in Nat

Publishers == Docs \cup Sweepers

VARIABLES
    posted,         \* the documents posted
    outbox,         \* outbox[d]: the staged row of d
    entries,        \* entries[d]: how many journal entries carry source d
    delivery,       \* delivery[p]: how far the event p publishes has got
    sweep,          \* sweep[p]: the rows a sweeper has read and not handled
    bookable,       \* the period is open and the roles are seeded
    crashes,
    closings

vars == << posted, outbox, entries, delivery, sweep, bookable, crashes, closings >>

Idle == [at |-> "idle"]

Deliveries == {Idle} \cup [at : {"published", "locked", "booked"}, source : Docs]

TypeOK ==
    /\ posted \subseteq Docs
    /\ outbox \in [Docs -> {"none", "fresh", "stale"}]
    /\ entries \in [Docs -> Nat]
    /\ delivery \in [Publishers -> Deliveries]
    /\ sweep \in [Sweepers -> Seq(Docs)]
    /\ bookable \in BOOLEAN
    /\ crashes \in 0..MaxCrashes /\ closings \in 0..MaxClosings

Init ==
    /\ posted = {}
    /\ outbox = [d \in Docs |-> "none"]
    /\ entries = [d \in Docs |-> 0]
    /\ delivery = [p \in Publishers |-> Idle]
    /\ sweep = [p \in Sweepers |-> << >>]
    /\ bookable = TRUE
    /\ crashes = 0 /\ closings = 0

Publish(p, d) == delivery' = [delivery EXCEPT ![p] = [at |-> "published", source |-> d]]

Drop(p) == delivery' = [delivery EXCEPT ![p] = Idle]

At(p, at) == delivery[p].at = at
Source(p) == delivery[p].source

----------------------------------------------------------------------------
(* The publishing side.                                                    *)

\* A document is posted: its request is staged in the same transaction and
\* published once that has committed.
post(d) ==
    /\ d \notin posted
    /\ posted' = posted \cup {d}
    /\ outbox' = [outbox EXCEPT ![d] = "fresh"]
    /\ Publish(d, d)
    /\ UNCHANGED << entries, sweep, bookable, crashes, closings >>

\* The grace period of a row runs out.
age(d) ==
    /\ outbox[d] = "fresh"
    /\ outbox' = [outbox EXCEPT ![d] = "stale"]
    /\ UNCHANGED << posted, entries, delivery, sweep, bookable, crashes, closings >>

Stale == { d \in Docs : outbox[d] = "stale" }

Orders(S) == { q \in [1..Cardinality(S) -> S] : \A i, j \in DOMAIN q : q[i] = q[j] => i = j }

\* A sweep reads the stale rows, in the order they were staged (any order
\* here), and finds nothing to do when there are none.
sweep_read(p) ==
    /\ sweep[p] = << >> /\ At(p, "idle")
    /\ \E q \in Orders(Stale) : sweep' = [sweep EXCEPT ![p] = q]
    /\ UNCHANGED << posted, outbox, entries, delivery, bookable, crashes, closings >>

\* It notes the attempt on the next row and publishes that one; a row that an
\* acknowledgement has deleted since it was read fails the whole sweep.
sweep_one(p) ==
    /\ sweep[p] # << >> /\ At(p, "idle")
    /\ LET d == Head(sweep[p])
       IN  IF outbox[d] = "none"
           THEN /\ sweep' = [sweep EXCEPT ![p] = << >>]
                /\ UNCHANGED << outbox, delivery >>
           ELSE /\ outbox' = [outbox EXCEPT ![d] = "fresh"]
                /\ Publish(p, d)
                /\ sweep' = [sweep EXCEPT ![p] = Tail(@)]
    /\ UNCHANGED << posted, entries, bookable, crashes, closings >>

\* The acknowledgement deletes the staged row.
ack(p) ==
    /\ At(p, "booked")
    /\ outbox' = [outbox EXCEPT ![Source(p)] = "none"]
    /\ Drop(p)
    /\ UNCHANGED << posted, entries, sweep, bookable, crashes, closings >>

----------------------------------------------------------------------------
(* The booking side.                                                       *)

\* MUTANT of Unlocked: nothing serializes the deliveries of a source.
Unlocked_Always(d) == TRUE

\* The advisory lock of the source is free.
Unlocked(d) == \A p \in Publishers : ~(At(p, "locked") /\ Source(p) = d)

Reach(p, at) == delivery' = [delivery EXCEPT ![p].at = at]

\* A request that nets to nothing is acknowledged and not booked; so is one
\* whose entry is found under the lock.
book(p) ==
    /\ At(p, "published")
    /\ IF Source(p) \in Zero THEN Reach(p, "booked")
       ELSE /\ Unlocked(Source(p))
            /\ Reach(p, IF entries[Source(p)] > 0 THEN "booked" ELSE "locked")
    /\ UNCHANGED << posted, outbox, entries, sweep, bookable, crashes, closings >>

\* The entry is posted and the transaction commits.
create_posted(p) ==
    /\ At(p, "locked") /\ bookable
    /\ entries' = [entries EXCEPT ![Source(p)] = @ + 1]
    /\ Reach(p, "booked")
    /\ UNCHANGED << posted, outbox, sweep, bookable, crashes, closings >>

\* MUTANT of fail: a request that cannot be booked is answered all the same.
fail_Answered(p) ==
    /\ At(p, "locked") /\ ~bookable
    /\ Reach(p, "booked")
    /\ UNCHANGED << posted, outbox, entries, sweep, bookable, crashes, closings >>

\* A request that cannot be booked is not acknowledged.
fail(p) ==
    /\ At(p, "locked") /\ ~bookable
    /\ Drop(p)
    /\ UNCHANGED << posted, outbox, entries, sweep, bookable, crashes, closings >>

----------------------------------------------------------------------------

\* The server stops: what it was publishing or sweeping is lost.
crash ==
    /\ crashes < MaxCrashes
    /\ crashes' = crashes + 1
    /\ delivery' = [p \in Publishers |-> Idle]
    /\ sweep' = [p \in Sweepers |-> << >>]
    /\ UNCHANGED << posted, outbox, entries, bookable, closings >>

\* Bookkeepers close the period, or retire an account the entry needs.
close_period ==
    /\ bookable /\ closings < MaxClosings
    /\ bookable' = FALSE
    /\ closings' = closings + 1
    /\ UNCHANGED << posted, outbox, entries, delivery, sweep, crashes >>

\* They reopen it.
reopen_period ==
    /\ ~bookable
    /\ bookable' = TRUE
    /\ UNCHANGED << posted, outbox, entries, delivery, sweep, crashes, closings >>

Deliver(p) == book(p) \/ create_posted(p) \/ fail(p) \/ ack(p)
Sweep(p) == sweep_read(p) \/ sweep_one(p)

Next ==
    \/ \E d \in Docs : post(d) \/ age(d)
    \/ \E p \in Publishers : Deliver(p)
    \/ \E p \in Sweepers : Sweep(p)
    \/ crash \/ close_period \/ reopen_period

Spec == Init /\ [][Next]_vars

\* Time passes, the sweeper's interval comes round, a delivery that started
\* comes to an end, and a period that requests wait for is reopened.  Nothing
\* makes a user post a document, a server stop or a bookkeeper close a period.
Fairness ==
    /\ \A d \in Docs : WF_vars(age(d))
    /\ \A p \in Sweepers : WF_vars(Sweep(p))
    /\ \A p \in Publishers : WF_vars(Deliver(p))
    /\ WF_vars(reopen_period)

FairSpec == Spec /\ Fairness

----------------------------------------------------------------------------

\* "Exactly once per source": no crash, duplicate delivery or sweep that races
\* the original books a document twice.
BookedOnce == \A d \in Docs : entries[d] <= 1

\* "A crash between commit and publish can never lose the request": what is
\* posted and has something to book is booked or still staged.
NothingLost ==
    \A d \in posted \ Zero : entries[d] = 0 => outbox[d] # "none"

\* The staged row does not outlive its purpose: it is cleared in the end.
RowsCleared == \A d \in Docs : d \in posted ~> outbox[d] = "none"

\* Posting a document books it, exactly once and in the end.
Books == INSTANCE GlBooks WITH
            Sources <- Docs \ Zero,
            asked <- posted \ Zero,
            entries <- [d \in Docs \ Zero |-> entries[d]]

ImplementsBooks == Books!Spec
BooksInTheEnd == Books!FairSpec

\* Every posted document is booked in the end, exactly once, and its staged row
\* does not outlive its purpose.
RequestsEnd == BooksInTheEnd /\ RowsCleared

=============================================================================
