-------------------------- MODULE SalesCommitments ---------------------------
(***************************************************************************)
(* From an offer to a commitment: quotations                               *)
(* (crates/nebula-apps/src/scm/sales/quotation.rs), the orders cut from    *)
(* them or written by hand (order.rs), the customer's hold and credit      *)
(* limit (customer.rs) and the credit check of a confirmation, which reads *)
(* what the customer owes without locking it.                              *)
(*                                                                         *)
(* A document has one amount in base currency.  Reservations, numbers and  *)
(* deliveries line by line are SalesFulfilment's; prices are               *)
(* PriceResolution's.                                                      *)
(***************************************************************************)
EXTENDS LineSums, Integers

CONSTANTS
    Quotations,
    Orders,
    Limits,     \* credit limits, Unlimited among them
    Unlimited,  \* no credit limit is set
    None

ASSUME CommitmentAssumption == Limits \subseteq Nat /\ Unlimited \in Limits /\ IsFiniteSet(Orders)

VARIABLES
    customer,   \* exists, takes new documents, and its limit
    quotation,  \* quotation[q]: an offer
    order,      \* order[o]: an order of the customer
    confirming, \* confirming[o]: what the confirmation of o has read
    grown       \* the exposure grew while a confirmation was underway

vars == << customer, quotation, order, confirming, grown >>

Amounts == 1..MaxQty
NoQuotation == [status |-> "none", amount |-> 0, stands |-> TRUE, converted_to |-> None]
NoOrder == [status |-> "none", amount |-> 0, discount |-> 0, delivered |-> 0, quotation |-> None, cut |-> FALSE]
NotConfirming == [step |-> "idle", limit |-> 0, exposure |-> 0, credit_override |-> FALSE]
Customer == [exists |-> TRUE, open |-> TRUE, limit |-> Unlimited]

TypeOK ==
    /\ customer \in [exists : BOOLEAN, open : BOOLEAN, limit : Limits]
    /\ quotation \in [Quotations ->
         [status : {"none", "draft", "sent", "accepted", "declined", "expired", "converted"},
          amount : Qtys, stands : BOOLEAN, converted_to : Orders \cup {None}]]
    /\ order \in [Orders ->
         [status : {"none", "draft", "confirmed", "partially_delivered", "delivered", "closed", "cancelled", "deleted"},
          amount : Qtys, discount : Qtys, delivered : Qtys, quotation : Quotations \cup {None}, cut : BOOLEAN]]
    /\ confirming \in [Orders -> [step : {"idle", "buyer", "granted"}, limit : Limits \cup {0},
                                  exposure : Nat, credit_override : BOOLEAN]]
    /\ grown \in BOOLEAN

Init ==
    /\ customer = Customer
    /\ quotation = [q \in Quotations |-> NoQuotation]
    /\ order = [o \in Orders |-> NoOrder]
    /\ confirming = [o \in Orders |-> NotConfirming]
    /\ grown = FALSE

----------------------------------------------------------------------------
(* The customer: no document locks it.                                     *)

set_customer(open, limit) ==
    /\ customer.exists
    /\ customer' = [customer EXCEPT !.open = open, !.limit = limit]
    /\ UNCHANGED << quotation, order, confirming, grown >>

Named == (\E q \in Quotations : quotation[q].status # "none")
         \/ \E o \in Orders : order[o].status \notin {"none", "deleted"}

\* The foreign keys of its documents keep the customer.
delete_customer ==
    /\ customer.exists /\ ~Named
    /\ customer' = [customer EXCEPT !.exists = FALSE]
    /\ UNCHANGED << quotation, order, confirming, grown >>

\* It must be active and not on hold.
load_customer_for_new_order == customer.exists /\ customer.open

----------------------------------------------------------------------------
(* Quotations.                                                             *)

Offer(q, new) == quotation' = [quotation EXCEPT ![q] = new] /\ UNCHANGED << customer, order, confirming, grown >>

create_quotation(q, amount) ==
    /\ quotation[q] = NoQuotation
    /\ load_customer_for_new_order
    /\ Offer(q, [NoQuotation EXCEPT !.status = "draft", !.amount = amount])

update_quotation(q, amount) ==
    /\ quotation[q].status = "draft"
    /\ load_customer_for_new_order
    /\ Offer(q, [quotation[q] EXCEPT !.amount = amount])

delete_quotation(q) == quotation[q].status = "draft" /\ Offer(q, NoQuotation)

send(q) == quotation[q].status = "draft" /\ Offer(q, [quotation[q] EXCEPT !.status = "sent"])

\* The day after valid_until comes.
lapse(q) == quotation[q].status # "none" /\ Offer(q, [quotation[q] EXCEPT !.stands = FALSE])

\* An offer that no longer stands expires instead.
accept(q) ==
    /\ quotation[q].status = "sent"
    /\ Offer(q, [quotation[q] EXCEPT !.status = IF quotation[q].stands THEN "accepted" ELSE "expired"])

decline(q) == quotation[q].status = "sent" /\ Offer(q, [quotation[q] EXCEPT !.status = "declined"])

\* The order carries the amounts of the offer.
convert(q, o) ==
    /\ quotation[q].status = "accepted"
    /\ load_customer_for_new_order
    /\ order[o] = NoOrder
    /\ order' = [order EXCEPT ![o] = [NoOrder EXCEPT !.status = "draft", !.amount = quotation[q].amount,
                                                     !.quotation = q, !.cut = TRUE]]
    /\ quotation' = [quotation EXCEPT ![q].status = "converted", ![q].converted_to = o]
    /\ UNCHANGED << customer, confirming, grown >>

----------------------------------------------------------------------------
(* Orders.  A confirmation holds the row of its order.                     *)

Free(o) == confirming[o] = NotConfirming

Writes(o, new) ==
    /\ Free(o)
    /\ order' = [order EXCEPT ![o] = new]
    /\ UNCHANGED << customer, quotation, confirming >>

Keeps(o, new) == Writes(o, new) /\ UNCHANGED grown

create_order(o, amount, discount) ==
    /\ order[o] = NoOrder
    /\ load_customer_for_new_order
    /\ Keeps(o, [NoOrder EXCEPT !.status = "draft", !.amount = amount, !.discount = discount])

\* The lines are priced anew, whatever the order was cut from.
update_order(o, amount, discount) ==
    /\ order[o].status = "draft"
    /\ load_customer_for_new_order
    /\ Keeps(o, [order[o] EXCEPT !.amount = amount, !.discount = discount, !.cut = FALSE])

delete_order(o) == order[o].status = "draft" /\ Keeps(o, [NoOrder EXCEPT !.status = "deleted"])

Deliverable == {"confirmed", "partially_delivered"}

\* MUTANT of Open: what is confirmed and not delivered at all is not counted.
Open_Partly == { o \in Orders : order[o].status = "partially_delivered" }

Open == { o \in Orders : order[o].status \in Deliverable }

undelivered == [o \in Orders |-> order[o].amount - order[o].delivered]

\* What the customer is committed to by other orders, header discounts aside.
customer_exposure(o) == Sum(undelivered, Open \ {o})

order_value(o) == order[o].amount - order[o].discount

confirm_begin(o, credit_override) ==
    /\ Free(o)
    /\ order[o].status = "draft"
    /\ load_customer_for_new_order
    /\ confirming' = [confirming EXCEPT ![o] = [step |-> "buyer", limit |-> customer.limit, exposure |-> 0,
                                                credit_override |-> credit_override]]
    /\ UNCHANGED << customer, quotation, order, grown >>

Within(o) == confirming[o].limit = Unlimited \/ customer_exposure(o) + order_value(o) <= confirming[o].limit

\* Past the limit the confirmation is refused, unless it may override.
confirm_check(o) ==
    /\ confirming[o].step = "buyer"
    /\ confirming' = [confirming EXCEPT ![o] =
         IF Within(o) THEN [@ EXCEPT !.step = "granted", !.exposure = customer_exposure(o), !.credit_override = FALSE]
         ELSE IF confirming[o].credit_override THEN [@ EXCEPT !.step = "granted", !.exposure = customer_exposure(o)]
         ELSE NotConfirming]
    /\ UNCHANGED << customer, quotation, order, grown >>

Underway(o) == \E p \in Orders \ {o} : confirming[p].step = "granted"

confirm_commit(o) ==
    /\ confirming[o].step = "granted"
    /\ order' = [order EXCEPT ![o].status = "confirmed"]
    /\ confirming' = [confirming EXCEPT ![o] = NotConfirming]
    /\ grown' = (grown \/ Underway(o))
    /\ UNCHANGED << customer, quotation >>

Status(o, delivered) ==
    IF delivered = order[o].amount THEN "delivered" ELSE IF delivered = 0 THEN "confirmed" ELSE "partially_delivered"

deliver(o, amount) ==
    /\ order[o].status \in Deliverable
    /\ order[o].delivered + amount <= order[o].amount
    /\ Keeps(o, [order[o] EXCEPT !.delivered = @ + amount, !.status = Status(o, order[o].delivered + amount)])

\* A delivery is cancelled: what the customer is committed to grows.
return(o, amount) ==
    /\ order[o].status \in Deliverable \cup {"delivered"}
    /\ amount <= order[o].delivered
    /\ Writes(o, [order[o] EXCEPT !.delivered = @ - amount, !.status = Status(o, order[o].delivered - amount)])
    /\ grown' = (grown \/ Underway(o))

cancel(o) ==
    /\ order[o].status \in {"draft", "confirmed"}
    /\ Keeps(o, [order[o] EXCEPT !.status = "cancelled"])

close(o) ==
    /\ order[o].status \in {"confirmed", "partially_delivered", "delivered"}
    /\ Keeps(o, [order[o] EXCEPT !.status = "closed"])

----------------------------------------------------------------------------

CustomerStep == delete_customer \/ \E open \in BOOLEAN, limit \in Limits : set_customer(open, limit)

QuotationStep == \E q \in Quotations :
    \/ \E amount \in Amounts : create_quotation(q, amount) \/ update_quotation(q, amount)
    \/ delete_quotation(q) \/ send(q) \/ lapse(q) \/ accept(q) \/ decline(q)
    \/ \E o \in Orders : convert(q, o)

OrderStep == \E o \in Orders :
    \/ \E amount \in Amounts : \E discount \in 0..(amount - 1) :
         create_order(o, amount, discount) \/ update_order(o, amount, discount)
    \/ delete_order(o) \/ cancel(o) \/ close(o)
    \/ \E credit_override \in BOOLEAN : confirm_begin(o, credit_override)
    \/ confirm_check(o) \/ confirm_commit(o)
    \/ \E amount \in Amounts : deliver(o, amount) \/ return(o, amount)

Next == CustomerStep \/ QuotationStep \/ OrderStep

Spec == Init /\ [][Next]_vars

----------------------------------------------------------------------------

\* An order confirmed without an override fits the limit its confirmation has
\* read, together with what the customer is committed to at that moment, and
\* not only when it was summed - whatever is delivered, cancelled, closed,
\* edited and cut from quotations in between - unless the commitment grew
\* between the check and the commit: by another confirmation, or by a delivery
\* taken back.
CreditHeld == [][ \A o \in Orders :
    /\ order[o].status = "draft" /\ order'[o].status = "confirmed"
    /\ confirming[o].limit # Unlimited /\ ~confirming[o].credit_override /\ ~grown
    => customer_exposure(o) + order_value(o) <= confirming[o].limit ]_vars

\* An offer the customer holds stays what it was, and becomes one order at most,
\* ever; until somebody edits that order, it charges what was offered.
OffersStand == [][
    /\ \A q \in Quotations : quotation[q].status \notin {"none", "draft"} =>
         /\ quotation'[q].status # "none" /\ quotation'[q].amount = quotation[q].amount
         /\ quotation[q].converted_to # None => quotation'[q].converted_to = quotation[q].converted_to
    /\ \A o \in Orders : order'[o].cut =>
         LET q == order'[o].quotation IN
         quotation'[q].converted_to = o /\ quotation'[q].amount = order'[o].amount ]_vars

=============================================================================
