------------------------------ MODULE Sourcing ------------------------------
(***************************************************************************)
(* What comes before a purchase order: requisitions and requests for       *)
(* quotation (crates/nebula-apps/src/scm/procurement/requisition.rs and    *)
(* rfq.rs).  Converting the one and awarding the other first commit a      *)
(* draft order in a transaction of its own, then claim it under the lock   *)
(* of the document; a request that finds the document taken removes its    *)
(* order again, and ignores whether that worked.  The process may die      *)
(* between the two transactions.                                           *)
(*                                                                         *)
(* Lines, quantities and prices are left out: an order is known by what it *)
(* was drafted for.  An order that left draft is Procurement's.            *)
(***************************************************************************)
EXTENDS Integers, FiniteSets

CONSTANTS
    Requisitions,
    Rfqs,
    Suppliers,
    Orders,     \* numbered as they are drafted
    Requests,   \* the convert and award requests being served
    None

VARIABLES
    requisition,    \* requisition[r]: its status and the order it became
    rfq,            \* rfq[q]: a request for quotation
    order,          \* order[o]: its status and the document it was drafted for
    request,        \* request[c]: the order a request has committed and not claimed yet
    died            \* the process died in the middle of a request

vars == << requisition, rfq, order, request, died >>

Documents == Requisitions \cup Rfqs

NoRequisition == [status |-> "none", order |-> None]
NoRfq == [status |-> "none", requisition |-> None, invited |-> {}, quoted |-> {}, order |-> None]
NoOrder == [status |-> "none", source |-> None]
Idle == [source |-> None, order |-> None]

TypeOK ==
    /\ requisition \in [Requisitions ->
         [status : {"none", "draft", "submitted", "approved", "rejected", "cancelled", "converted"},
          order : Orders \cup {None}]]
    /\ rfq \in [Rfqs ->
         [status : {"none", "draft", "sent", "closed", "cancelled", "awarded"},
          requisition : Requisitions \cup {None},
          invited : SUBSET Suppliers, quoted : SUBSET Suppliers, order : Orders \cup {None}]]
    /\ order \in [Orders -> [status : {"none", "draft", "submitted", "deleted"}, source : Documents \cup {None}]]
    /\ request \in [Requests -> [source : Documents \cup {None}, order : Orders \cup {None}]]
    /\ died \in BOOLEAN

Init ==
    /\ requisition = [r \in Requisitions |-> NoRequisition]
    /\ rfq = [q \in Rfqs |-> NoRfq]
    /\ order = [o \in Orders |-> NoOrder]
    /\ request = [c \in Requests |-> Idle]
    /\ died = FALSE

----------------------------------------------------------------------------
(* Requisitions.                                                           *)

\* Every handler locks the row, checks its status and writes the next one.
Moves(r, from, to) ==
    /\ requisition[r].status \in from
    /\ requisition' = [requisition EXCEPT ![r].status = to]
    /\ UNCHANGED << rfq, order, request, died >>

create_requisition(r) == Moves(r, {"none"}, "draft")
submit_requisition(r) == Moves(r, {"draft"}, "submitted")
approve_requisition(r) == Moves(r, {"submitted"}, "approved")
reject_requisition(r) == Moves(r, {"submitted"}, "rejected")
cancel_requisition(r) == Moves(r, {"draft", "submitted", "approved"}, "cancelled")

\* The foreign key of requests for quotation keeps the row.
delete_requisition(r) == (\A q \in Rfqs : rfq[q].requisition # r) /\ Moves(r, {"draft"}, "none")

----------------------------------------------------------------------------
(* Requests for quotation.                                                 *)

Header(linked, invited) == [NoRfq EXCEPT !.status = "draft", !.requisition = linked, !.invited = invited]

validate_rfq(linked) == linked # None => requisition[linked].status # "none"

Becomes(q, new) == rfq' = [rfq EXCEPT ![q] = new] /\ UNCHANGED << requisition, order, request, died >>

create_rfq(q, linked, invited) ==
    /\ rfq[q].status = "none"
    /\ validate_rfq(linked)
    /\ Becomes(q, Header(linked, invited))

update_rfq(q, linked, invited) ==
    /\ rfq[q].status = "draft"
    /\ validate_rfq(linked)
    /\ Becomes(q, Header(linked, invited))

delete_rfq(q) == rfq[q].status = "draft" /\ Becomes(q, NoRfq)

send(q) == rfq[q].status = "draft" /\ rfq[q].invited # {} /\ Becomes(q, [rfq[q] EXCEPT !.status = "sent"])

\* A supplier quotes every line, or again what it quoted before.
record_quotes(q, s) ==
    /\ rfq[q].status = "sent" /\ s \in rfq[q].invited
    /\ Becomes(q, [rfq[q] EXCEPT !.quoted = @ \cup {s}])

close_rfq(q) == rfq[q].status = "sent" /\ Becomes(q, [rfq[q] EXCEPT !.status = "closed"])

cancel_rfq(q) == rfq[q].status \in {"draft", "sent", "closed"} /\ Becomes(q, [rfq[q] EXCEPT !.status = "cancelled"])

----------------------------------------------------------------------------
(* Converting and awarding.                                                *)

Convertible(r) == requisition[r].status = "approved"
Awardable(q) == rfq[q].status \in {"sent", "closed"}

\* The draft order is committed before the document is locked.
Drafts(c, document, o) ==
    /\ request[c] = Idle
    /\ order[o] = NoOrder
    /\ \A p \in Orders : p < o => order[p] # NoOrder
    /\ order' = [order EXCEPT ![o] = [status |-> "draft", source |-> document]]
    /\ request' = [request EXCEPT ![c] = [source |-> document, order |-> o]]
    /\ UNCHANGED << requisition, rfq, died >>

convert_begin(c, r, o) == Convertible(r) /\ Drafts(c, r, o)

award_begin(c, q, s, o) == Awardable(q) /\ s \in rfq[q].invited \cap rfq[q].quoted /\ Drafts(c, q, o)

Exists(o) == order[o].status \in {"draft", "submitted"}

Ends(c) == request' = [request EXCEPT ![c] = Idle] /\ UNCHANGED died

\* MUTANT of Removes: the loser keeps its order.
Removes_Keeps(o) == UNCHANGED order

\* The loser's order is deleted if it is still a draft; if not, nobody is told.
Removes(o) == order' = IF order[o].status = "draft" THEN [order EXCEPT ![o].status = "deleted"] ELSE order

convert_finish(c, r) ==
    LET o == request[c].order IN
    /\ request[c].source = r
    /\ IF ~Convertible(r)
         THEN Removes(o) /\ UNCHANGED requisition
         ELSE \* the foreign key refuses an order somebody has deleted
              /\ requisition' = IF Exists(o)
                                  THEN [requisition EXCEPT ![r] = [status |-> "converted", order |-> o]]
                                  ELSE requisition
              /\ UNCHANGED order
    /\ UNCHANGED rfq
    /\ Ends(c)

\* MUTANT of LinkedConverted: whatever became of the requisition.
LinkedConverted_Always(q, o) ==
    IF rfq[q].requisition # None
      THEN [requisition EXCEPT ![rfq[q].requisition] = [status |-> "converted", order |-> o]]
      ELSE requisition

\* An approved requisition behind the request is converted by the same order.
LinkedConverted(q, o) ==
    IF rfq[q].requisition # None /\ Convertible(rfq[q].requisition)
      THEN [requisition EXCEPT ![rfq[q].requisition] = [status |-> "converted", order |-> o]]
      ELSE requisition

award_finish(c, q) ==
    LET o == request[c].order IN
    /\ request[c].source = q
    /\ IF ~Awardable(q)
         THEN Removes(o) /\ UNCHANGED << requisition, rfq >>
         ELSE /\ IF Exists(o)
                   THEN /\ requisition' = LinkedConverted(q, o)
                        /\ rfq' = [rfq EXCEPT ![q].status = "awarded", ![q].order = o]
                   ELSE UNCHANGED << requisition, rfq >>
              /\ UNCHANGED order
    /\ Ends(c)

\* The process dies: what was committed stays, the request is gone.
crash ==
    /\ \E c \in Requests : request[c] # Idle
    /\ request' = [c \in Requests |-> Idle]
    /\ died' = TRUE
    /\ UNCHANGED << requisition, rfq, order >>

----------------------------------------------------------------------------
(* What buyers do to the orders.                                           *)

\* A document refers to the order: the foreign keys keep its row.
Claimed(o) == (\E r \in Requisitions : requisition[r].order = o) \/ (\E q \in Rfqs : rfq[q].order = o)

delete_order(o) ==
    /\ order[o].status = "draft"
    /\ ~Claimed(o)
    /\ order' = [order EXCEPT ![o].status = "deleted"]
    /\ UNCHANGED << requisition, rfq, request, died >>

submit_order(o) ==
    /\ order[o].status = "draft"
    /\ order' = [order EXCEPT ![o].status = "submitted"]
    /\ UNCHANGED << requisition, rfq, request, died >>

----------------------------------------------------------------------------

RequisitionStep == \E r \in Requisitions :
    \/ create_requisition(r) \/ submit_requisition(r) \/ approve_requisition(r)
    \/ reject_requisition(r) \/ cancel_requisition(r) \/ delete_requisition(r)

RfqStep == \E q \in Rfqs :
    \/ \E linked \in Requisitions \cup {None}, invited \in SUBSET Suppliers :
         create_rfq(q, linked, invited) \/ update_rfq(q, linked, invited)
    \/ delete_rfq(q) \/ send(q) \/ close_rfq(q) \/ cancel_rfq(q)
    \/ \E s \in Suppliers : record_quotes(q, s)

RequestStep == \E c \in Requests :
    \/ \E r \in Requisitions : convert_finish(c, r) \/ \E o \in Orders : convert_begin(c, r, o)
    \/ \E q \in Rfqs :
         award_finish(c, q) \/ \E s \in Suppliers, o \in Orders : award_begin(c, q, s, o)

OrderStep == \E o \in Orders : delete_order(o) \/ submit_order(o)

Next == RequisitionStep \/ RfqStep \/ RequestStep \/ OrderStep \/ crash

Spec == Init /\ [][Next]_vars

----------------------------------------------------------------------------

\* A converted requisition and an awarded request name an order that exists,
\* and that was drafted for them: for the requisition, or for a request that
\* sources it.
ClaimsHold ==
    /\ \A r \in Requisitions : requisition[r].status = "converted" =>
         LET o == requisition[r].order  source == order[o].source IN
         Exists(o) /\ (source = r \/ (source \in Rfqs /\ rfq[source].requisition = r))
    /\ \A q \in Rfqs : rfq[q].status = "awarded" =>
         Exists(rfq[q].order) /\ order[rfq[q].order].source = q

\* However conversions, awards and cancellations race, an order drafted by one
\* of them and claimed by no document is a request still being served - unless
\* the process died, or a buyer submitted the order before its request lost.
DraftsAreClaimed ==
    died \/ \A o \in Orders : order[o].status = "draft" =>
        Claimed(o) \/ \E c \in Requests : request[c].order = o

\* What was converted or awarded stays so, by the same order: the loser of a
\* race never overwrites what the winner wrote.
ClaimsStick == [][
    /\ \A r \in Requisitions : requisition[r].status = "converted" => requisition'[r] = requisition[r]
    /\ \A q \in Rfqs : rfq[q].status = "awarded" => rfq'[q] = rfq[q] ]_vars

=============================================================================
