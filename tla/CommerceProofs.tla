--------------------------- MODULE CommerceProofs ----------------------------
(* Proofs about what comes before an order binds anybody: the claims of        *)
(* requisitions and requests for quotation on the orders drafted for them, the *)
(* credit check, what was decided and stays so, and the price of a query.      *)
EXTENDS MCCommerce, Sequences, StockProofs

----------------------------------------------------------------------------
(* Sourcing.  A request between its two transactions holds an order nobody has *)
(* claimed, two requests never the same one.                                   *)

OnlyClaimantsName ==
    /\ \A r \in Requisitions : requisition[r].status # "converted" => requisition[r].order = None
    /\ \A q \in Rfqs : rfq[q].status # "awarded" => rfq[q].order = None

Holds(c) ==
    LET o == request[c].order IN
    /\ o \in Purchases /\ request[c].source \in S!Documents
    /\ purchase[o].status # "none" /\ purchase[o].source = request[c].source
    /\ ~S!Claimed(o)

PendingSound == \A c \in Requests : request[c] # S!Idle => Holds(c)

PendingApart == \A c, d \in Requests :
    c # d /\ request[c] # S!Idle /\ request[d] # S!Idle => request[c].order # request[d].order

\* A requisition converted by an award is behind an awarded request.
ClaimsExplained ==
    /\ \A r \in Requisitions : requisition[r].status = "converted" =>
         LET o == requisition[r].order  source == purchase[o].source IN
         /\ o \in Purchases /\ S!Exists(o)
         /\ source = r \/ (source \in Rfqs /\ rfq[source].status = "awarded" /\ rfq[source].requisition = r)
    /\ \A q \in Rfqs : rfq[q].status = "awarded" =>
         rfq[q].order \in Purchases /\ S!Exists(rfq[q].order) /\ purchase[rfq[q].order].source = q

SourcingInv ==
    S!TypeOK /\ OnlyClaimantsName /\ PendingSound /\ PendingApart /\ ClaimsExplained /\ S!DraftsAreClaimed

LEMMA SourcingInit == S!Init => SourcingInv
<1> SUFFICES ASSUME S!Init PROVE SourcingInv
  OBVIOUS
<1>1. S!TypeOK
  BY DEF S!Init, S!TypeOK, S!NoRequisition, S!NoRfq, S!NoOrder, S!Idle
<1>2. OnlyClaimantsName /\ ClaimsExplained
  BY DEF S!Init, OnlyClaimantsName, ClaimsExplained, S!NoRequisition, S!NoRfq
<1>3. PendingSound /\ PendingApart
  BY DEF S!Init, PendingSound, PendingApart
<1>4. S!DraftsAreClaimed
  BY DEF S!Init, S!DraftsAreClaimed, S!NoOrder
<1> QED BY <1>1, <1>2, <1>3, <1>4 DEF SourcingInv

\* A step of a requisition that claims nothing.
LEMMA MovesStep ==
    ASSUME SourcingInv, NEW r \in Requisitions, NEW from, NEW to, "converted" \notin from,
           to \in {"none", "draft", "submitted", "approved", "rejected", "cancelled"},
           S!Moves(r, from, to)
    PROVE  SourcingInv'
<1> USE DEF SourcingInv
<1>1. /\ requisition' = [requisition EXCEPT ![r].status = to]
      /\ UNCHANGED << rfq, purchase, request, died >>
      /\ requisition[r].status # "converted"
  BY DEF S!Moves
<1>2. requisition \in [Requisitions ->
         [status : {"none", "draft", "submitted", "approved", "rejected", "cancelled", "converted"},
          order : Purchases \cup {None}]]
  BY DEF S!TypeOK
<1>3. \A p \in Requisitions : /\ requisition'[p].order = requisition[p].order
                              /\ requisition'[p].status = "converted" <=> requisition[p].status = "converted"
  BY <1>1, <1>2
<1>4. S!TypeOK'
  BY <1>1, <1>2 DEF S!TypeOK
<1>5. OnlyClaimantsName'
  BY <1>1, <1>3 DEF OnlyClaimantsName
<1>6. ClaimsExplained'
  BY <1>1, <1>3, SMTT(20) DEF ClaimsExplained, S!Exists
<1>7. \A o \in Purchases : S!Claimed(o)' <=> S!Claimed(o)
  BY <1>1, <1>3 DEF S!Claimed
<1>8. PendingSound'
  BY <1>1, <1>7 DEF PendingSound, Holds
<1>9. PendingApart'
  BY <1>1 DEF PendingApart
<1>10. S!DraftsAreClaimed'
  BY <1>1, <1>7 DEF S!DraftsAreClaimed
<1> QED BY <1>4, <1>5, <1>6, <1>8, <1>9, <1>10

LEMMA RequisitionKeepsSourcing == SourcingInv /\ S!RequisitionStep => SourcingInv'
<1> SUFFICES ASSUME SourcingInv, NEW r \in Requisitions,
                    \/ S!create_requisition(r) \/ S!submit_requisition(r) \/ S!approve_requisition(r)
                    \/ S!reject_requisition(r) \/ S!cancel_requisition(r) \/ S!delete_requisition(r)
             PROVE  SourcingInv'
  BY DEF S!RequisitionStep
<1>1. \E from \in SUBSET {"none", "draft", "submitted", "approved"},
         to \in {"none", "draft", "submitted", "approved", "rejected", "cancelled"} : S!Moves(r, from, to)
  BY DEF S!create_requisition, S!submit_requisition, S!approve_requisition,
         S!reject_requisition, S!cancel_requisition, S!delete_requisition
<1> QED BY <1>1, MovesStep

\* A step of a request for quotation that claims nothing.
LEMMA BecomesStep ==
    ASSUME SourcingInv, NEW q \in Rfqs, NEW new, rfq[q].status # "awarded", S!Becomes(q, new),
           new \in [status : {"none", "draft", "sent", "closed", "cancelled"},
                    requisition : Requisitions \cup {None},
                    invited : SUBSET Suppliers, quoted : SUBSET Suppliers, order : {None}]
    PROVE  SourcingInv'
<1> USE DEF SourcingInv
<1>1. rfq' = [rfq EXCEPT ![q] = new] /\ UNCHANGED << requisition, purchase, request, died >>
  BY DEF S!Becomes
<1>2. S!TypeOK'
  <2>1. rfq' \in [Rfqs ->
         [status : {"none", "draft", "sent", "closed", "cancelled", "awarded"},
          requisition : Requisitions \cup {None},
          invited : SUBSET Suppliers, quoted : SUBSET Suppliers, order : Purchases \cup {None}]]
    BY <1>1 DEF S!TypeOK
  <2> QED BY <1>1, <2>1 DEF S!TypeOK
<1>3. \A p \in Rfqs : /\ rfq'[p].order = rfq[p].order
                      /\ rfq'[p].status = "awarded" <=> rfq[p].status = "awarded"
                      /\ rfq[p].status = "awarded" => rfq'[p] = rfq[p]
  BY <1>1 DEF S!TypeOK, OnlyClaimantsName
<1>4. OnlyClaimantsName'
  BY <1>1, <1>3 DEF OnlyClaimantsName
<1>5. ClaimsExplained'
  BY <1>1, <1>3 DEF ClaimsExplained, S!Exists
<1>6. \A o \in Purchases : S!Claimed(o)' <=> S!Claimed(o)
  BY <1>1, <1>3 DEF S!Claimed
<1>7. PendingSound'
  BY <1>1, <1>6 DEF PendingSound, Holds
<1>8. PendingApart'
  BY <1>1 DEF PendingApart
<1>9. S!DraftsAreClaimed'
  BY <1>1, <1>6 DEF S!DraftsAreClaimed
<1> QED BY <1>2, <1>4, <1>5, <1>7, <1>8, <1>9

LEMMA RfqKeepsSourcing == SourcingInv /\ S!RfqStep => SourcingInv'
<1> DEFINE Unclaimed == [status : {"none", "draft", "sent", "closed", "cancelled"},
                         requisition : Requisitions \cup {None},
                         invited : SUBSET Suppliers, quoted : SUBSET Suppliers, order : {None}]
<1> SUFFICES ASSUME SourcingInv, NEW q \in Rfqs,
                    \/ \E linked \in Requisitions \cup {None}, invited \in SUBSET Suppliers :
                         S!create_rfq(q, linked, invited) \/ S!update_rfq(q, linked, invited)
                    \/ S!delete_rfq(q) \/ S!send(q) \/ S!close_rfq(q) \/ S!cancel_rfq(q)
                    \/ \E s \in Suppliers : S!record_quotes(q, s)
             PROVE  SourcingInv'
  BY DEF S!RfqStep
<1>1. rfq[q].status # "awarded" => rfq[q] \in Unclaimed
  BY DEF SourcingInv, S!TypeOK, OnlyClaimantsName
<1>2. rfq[q].status # "awarded" /\ \E new \in Unclaimed : S!Becomes(q, new)
  <2>1. CASE \E linked \in Requisitions \cup {None}, invited \in SUBSET Suppliers :
               S!create_rfq(q, linked, invited) \/ S!update_rfq(q, linked, invited)
    <3>1. PICK linked \in Requisitions \cup {None}, invited \in SUBSET Suppliers :
               S!create_rfq(q, linked, invited) \/ S!update_rfq(q, linked, invited)
      BY <2>1
    <3>2. S!Header(linked, invited) \in Unclaimed
      BY DEF S!Header, S!NoRfq
    <3> QED BY <3>1, <3>2 DEF S!create_rfq, S!update_rfq
  <2>2. CASE S!delete_rfq(q)
    <3>1. S!NoRfq \in Unclaimed
      BY DEF S!NoRfq
    <3> QED BY <2>2, <3>1 DEF S!delete_rfq
  <2>3. CASE S!send(q)
    BY <1>1, <2>3 DEF S!send
  <2>4. CASE S!close_rfq(q)
    BY <1>1, <2>4 DEF S!close_rfq
  <2>5. CASE S!cancel_rfq(q)
    BY <1>1, <2>5 DEF S!cancel_rfq
  <2>6. CASE \E s \in Suppliers : S!record_quotes(q, s)
    <3>1. PICK s \in Suppliers : S!record_quotes(q, s)
      BY <2>6
    <3>2. rfq[q].status # "awarded" /\ S!Becomes(q, [rfq[q] EXCEPT !.quoted = @ \cup {s}])
      BY <3>1 DEF S!record_quotes
    <3>3. [rfq[q] EXCEPT !.quoted = @ \cup {s}] \in Unclaimed
      BY <1>1, <3>2
    <3> QED BY <3>2, <3>3
  <2> QED BY <2>1, <2>2, <2>3, <2>4, <2>5, <2>6
<1> QED BY <1>2, BecomesStep

\* A request commits its draft order: nobody can have claimed it.
LEMMA DraftsStep ==
    ASSUME SourcingInv, NEW c \in Requests, NEW document \in S!Documents, NEW o \in Purchases,
           S!Drafts(c, document, o)
    PROVE  SourcingInv'
<1> USE DEF SourcingInv
<1>1. /\ request[c] = S!Idle /\ purchase[o] = S!NoOrder
      /\ purchase' = [purchase EXCEPT ![o] = [status |-> "draft", source |-> document]]
      /\ request' = [request EXCEPT ![c] = [source |-> document, order |-> o]]
      /\ UNCHANGED << requisition, rfq, died >>
  BY DEF S!Drafts
<1>2. S!TypeOK'
  <2>1. purchase' \in [Purchases -> [status : {"none", "draft", "submitted", "deleted"},
                                     source : S!Documents \cup {None}]]
    BY <1>1 DEF S!TypeOK
  <2>2. request' \in [Requests -> [source : S!Documents \cup {None}, order : Purchases \cup {None}]]
    BY <1>1 DEF S!TypeOK
  <2> QED BY <1>1, <2>1, <2>2 DEF S!TypeOK
<1>3. /\ purchase'[o] = [status |-> "draft", source |-> document]
      /\ \A p \in Purchases : p # o => purchase'[p] = purchase[p]
      /\ request'[c] = [source |-> document, order |-> o]
      /\ \A d \in Requests : d # c => request'[d] = request[d]
  BY <1>1 DEF S!TypeOK
<1>4. OnlyClaimantsName'
  BY <1>1 DEF OnlyClaimantsName
<1>5. \A p \in Purchases : S!Claimed(p)' <=> S!Claimed(p)
  BY <1>1 DEF S!Claimed
<1>6. \A p \in Purchases : S!Claimed(p) => S!Exists(p)
  BY NamesAssumption, SMTT(20) DEF S!Claimed, OnlyClaimantsName, ClaimsExplained, S!TypeOK
<1>7. ~S!Exists(o) /\ ~S!Claimed(o)
  BY <1>1, <1>6 DEF S!Exists, S!NoOrder
<1>8. ClaimsExplained'
  BY <1>1, <1>3, <1>7 DEF ClaimsExplained, S!Exists
<1>9. \A d \in Requests : d # c /\ request[d] # S!Idle => request[d].order # o
  BY <1>1 DEF PendingSound, Holds, S!NoOrder
<1>10. PendingSound'
  <2> SUFFICES ASSUME NEW d \in Requests, request'[d] # S!Idle PROVE Holds(d)'
    BY DEF PendingSound, S!Idle
  <2>1. CASE d = c
    BY <1>3, <1>5, <1>7, <2>1 DEF Holds, S!Documents
  <2>2. CASE d # c
    BY <1>3, <1>5, <1>9, <2>2 DEF PendingSound, Holds, S!Documents
  <2> QED BY <2>1, <2>2
<1>11. PendingApart'
  BY <1>3, <1>9 DEF PendingApart, S!Idle
<1>12. S!DraftsAreClaimed'
  <2> SUFFICES ASSUME ~died, NEW p \in Purchases, purchase'[p].status = "draft"
               PROVE  S!Claimed(p)' \/ \E d \in Requests : request'[d].order = p
    BY <1>1 DEF S!DraftsAreClaimed
  <2>1. CASE p = o
    BY <1>3, <2>1
  <2>2. CASE p # o
    <3>1. S!Claimed(p) \/ \E d \in Requests : request[d].order = p
      BY <1>3, <2>2 DEF S!DraftsAreClaimed
    <3>2. request[c].order # p
      BY <1>1, NamesAssumption DEF S!Idle
    <3> QED BY <1>3, <1>5, <3>1, <3>2
  <2> QED BY <2>1, <2>2
<1> QED BY <1>2, <1>4, <1>8, <1>10, <1>11, <1>12

\* What both ends of a request share: the order is claimed, or gone, or was
\* submitted behind its back; the other requests hold what they held.
LEMMA EndsStep ==
    ASSUME SourcingInv, NEW c \in Requests, NEW o, o = request[c].order, request[c] # S!Idle, S!Ends(c),
           S!TypeOK', OnlyClaimantsName', ClaimsExplained',
           \A p \in Purchases : purchase'[p].source = purchase[p].source,
           \A p \in Purchases : purchase[p].status # "none" => purchase'[p].status # "none",
           \A p \in Purchases : p # o => (S!Claimed(p)' <=> S!Claimed(p)),
           \A p \in Purchases : p # o => purchase'[p] = purchase[p],
           purchase'[o].status = "draft" => S!Claimed(o)'
    PROVE  SourcingInv'
<1> USE DEF SourcingInv
<1>1. request' = [request EXCEPT ![c] = S!Idle] /\ died' = died
  BY DEF S!Ends
<1>2. request'[c] = S!Idle /\ \A d \in Requests : d # c => request'[d] = request[d]
  BY <1>1 DEF S!TypeOK
<1>3. PendingSound'
  <2> SUFFICES ASSUME NEW d \in Requests, request'[d] # S!Idle PROVE Holds(d)'
    BY DEF PendingSound, S!Idle
  <2>1. d # c /\ request'[d] = request[d] /\ request[d].order # o
    BY <1>2 DEF PendingApart
  <2>2. Holds(d)
    BY <2>1 DEF PendingSound
  <2> QED BY <2>1, <2>2 DEF Holds, S!Documents
<1>4. PendingApart'
  BY <1>2 DEF PendingApart, S!Idle
<1>5. S!DraftsAreClaimed'
  <2> SUFFICES ASSUME ~died, NEW p \in Purchases, purchase'[p].status = "draft", p # o
               PROVE  S!Claimed(p)' \/ \E d \in Requests : request'[d].order = p
    BY <1>1 DEF S!DraftsAreClaimed
  <2>1. S!Claimed(p) \/ \E d \in Requests : request[d].order = p
    BY DEF S!DraftsAreClaimed
  <2> QED BY <1>2, <2>1
<1> QED BY <1>3, <1>4, <1>5

\* A request that comes too late removes the order it holds, or leaves what
\* somebody has submitted or deleted meanwhile.
LEMMA LoserStep ==
    ASSUME SourcingInv, NEW c \in Requests, NEW o, o = request[c].order, request[c] # S!Idle,
           S!Ends(c), UNCHANGED << requisition, rfq >>,
           S!Removes(o) \/ (purchase' = purchase /\ ~S!Exists(o))
    PROVE  SourcingInv'
<1> USE DEF SourcingInv
<1>1. Holds(c)
  BY DEF PendingSound
<1>2. o \in Purchases /\ ~S!Claimed(o)
  BY <1>1 DEF Holds
<1>3. \A p \in Purchases : S!Claimed(p)' <=> S!Claimed(p)
  BY DEF S!Claimed
<1>4. \/ purchase' = purchase /\ purchase[o].status # "draft"
      \/ purchase' = [purchase EXCEPT ![o].status = "deleted"]
  BY DEF S!Removes, S!Exists
<1>5. request' = [request EXCEPT ![c] = S!Idle] /\ died' = died
  BY DEF S!Ends
<1>6. S!TypeOK'
  <2>1. purchase' \in [Purchases -> [status : {"none", "draft", "submitted", "deleted"},
                                     source : S!Documents \cup {None}]]
    BY <1>4 DEF S!TypeOK
  <2>2. request' \in [Requests -> [source : S!Documents \cup {None}, order : Purchases \cup {None}]]
    BY <1>5 DEF S!TypeOK, S!Idle
  <2> QED BY <1>5, <2>1, <2>2 DEF S!TypeOK
<1>7. /\ \A p \in Purchases : p # o => purchase'[p] = purchase[p]
      /\ \A p \in Purchases : purchase'[p].source = purchase[p].source
      /\ purchase'[o].status # "draft"
      /\ purchase[o].status # "none" => purchase'[o].status # "none"
  BY <1>2, <1>4 DEF S!TypeOK
<1>8. OnlyClaimantsName'
  BY DEF OnlyClaimantsName
<1>9. ClaimsExplained'
  BY <1>2, <1>7, SMTT(20) DEF ClaimsExplained, S!Exists, S!Claimed
<1> QED BY <1>3, <1>6, <1>7, <1>8, <1>9, EndsStep

LEMMA ConvertStep ==
    ASSUME SourcingInv, NEW c \in Requests, NEW r \in Requisitions, S!convert_finish(c, r)
    PROVE  SourcingInv'
<1> DEFINE o == request[c].order
<1> USE DEF SourcingInv
<1>1. request[c].source = r /\ S!Ends(c) /\ rfq' = rfq
  BY DEF S!convert_finish
<1>2. request[c] # S!Idle
  BY <1>1, NamesAssumption DEF S!Idle
<1>3. Holds(c)
  BY <1>2 DEF PendingSound
<1>4. CASE S!Convertible(r) /\ S!Exists(o)
  <2>1. /\ requisition' = [requisition EXCEPT ![r] = [status |-> "converted", order |-> o]]
        /\ purchase' = purchase /\ requisition[r].status = "approved"
    BY <1>4 DEF S!convert_finish, S!Convertible
  <2>2. o \in Purchases /\ purchase[o].source = r /\ requisition[r].order = None
    BY <1>1, <1>3, <2>1 DEF Holds, OnlyClaimantsName
  <2>3. request' = [request EXCEPT ![c] = S!Idle] /\ died' = died
    BY <1>1 DEF S!Ends
  <2>4. S!TypeOK'
    <3>1. requisition' \in [Requisitions ->
         [status : {"none", "draft", "submitted", "approved", "rejected", "cancelled", "converted"},
          order : Purchases \cup {None}]]
      BY <2>1, <2>2 DEF S!TypeOK
    <3>2. request' \in [Requests -> [source : S!Documents \cup {None}, order : Purchases \cup {None}]]
      BY <2>3 DEF S!TypeOK, S!Idle
    <3> QED BY <1>1, <2>1, <2>3, <3>1, <3>2 DEF S!TypeOK
  <2>5. /\ requisition'[r] = [status |-> "converted", order |-> o]
        /\ \A p \in Requisitions : p # r => requisition'[p] = requisition[p]
    BY <2>1 DEF S!TypeOK
  <2>6. OnlyClaimantsName'
    BY <1>1, <2>5 DEF OnlyClaimantsName
  <2>7. ClaimsExplained'
    <3>1. purchase' = purchase /\ rfq' = rfq
      BY <1>1, <2>1
    <3>2. ASSUME NEW p \in Requisitions, requisition'[p].status = "converted"
          PROVE  LET x == requisition'[p].order  source == purchase[x].source IN
                 /\ x \in Purchases /\ S!Exists(x)
                 /\ source = p \/ (source \in Rfqs /\ rfq[source].status = "awarded" /\ rfq[source].requisition = p)
      <4>1. CASE p = r
        BY <1>4, <2>2, <2>5, <4>1
      <4>2. CASE p # r
        BY <2>5, <3>2, <4>2 DEF ClaimsExplained
      <4> QED BY <4>1, <4>2
    <3> QED BY <3>1, <3>2 DEF ClaimsExplained, S!Exists
  <2>8. \A p \in Purchases : p # o => (S!Claimed(p)' <=> S!Claimed(p))
    BY <1>1, <2>2, <2>5, NamesAssumption DEF S!Claimed
  <2>9. \E p \in Requisitions : requisition'[p].order = o
    BY <2>5
  <2> QED BY <1>1, <1>2, <2>1, <2>4, <2>6, <2>7, <2>8, <2>9, EndsStep DEF S!Claimed
<1>5. CASE ~S!Convertible(r)
  BY <1>1, <1>2, <1>5, LoserStep DEF S!convert_finish
<1>6. CASE S!Convertible(r) /\ ~S!Exists(o)
  BY <1>1, <1>2, <1>6, LoserStep DEF S!convert_finish
<1> QED BY <1>4, <1>5, <1>6

LEMMA AwardStep ==
    ASSUME SourcingInv, NEW c \in Requests, NEW q \in Rfqs, S!award_finish(c, q)
    PROVE  SourcingInv'
<1> DEFINE o == request[c].order
<1> USE DEF SourcingInv
<1>1. request[c].source = q /\ S!Ends(c)
  BY DEF S!award_finish
<1>2. request[c] # S!Idle
  BY <1>1, NamesAssumption DEF S!Idle
<1>3. Holds(c)
  BY <1>2 DEF PendingSound
<1>4. CASE S!Awardable(q) /\ S!Exists(o)
  <2>1. /\ requisition' = S!LinkedConverted(q, o)
        /\ rfq' = [rfq EXCEPT ![q].status = "awarded", ![q].order = o]
        /\ purchase' = purchase /\ rfq[q].status # "awarded"
    BY <1>4 DEF S!award_finish, S!Awardable
  <2>2. o \in Purchases /\ purchase[o].source = q /\ rfq[q].order = None
    BY <1>1, <1>3, <2>1 DEF Holds, OnlyClaimantsName
  <2>3. request' = [request EXCEPT ![c] = S!Idle] /\ died' = died
    BY <1>1 DEF S!Ends
  <2>4. \A p \in Requisitions :
          \/ requisition'[p] = requisition[p]
          \/ /\ p = rfq[q].requisition /\ requisition[p].status = "approved"
             /\ requisition'[p] = [status |-> "converted", order |-> o]
    BY <2>1 DEF S!LinkedConverted, S!Convertible, S!TypeOK
  <2>5. /\ rfq'[q].status = "awarded" /\ rfq'[q].order = o /\ rfq'[q].requisition = rfq[q].requisition
        /\ \A p \in Rfqs : p # q => rfq'[p] = rfq[p]
    BY <2>1 DEF S!TypeOK
  <2>6. S!TypeOK'
    <3>1. requisition' \in [Requisitions ->
         [status : {"none", "draft", "submitted", "approved", "rejected", "cancelled", "converted"},
          order : Purchases \cup {None}]]
      <4>1. CASE requisition' = requisition
        BY <4>1 DEF S!TypeOK
      <4>2. CASE /\ rfq[q].requisition \in Requisitions
                 /\ requisition' = [requisition EXCEPT ![rfq[q].requisition] = [status |-> "converted", order |-> o]]
        BY <2>2, <4>2 DEF S!TypeOK
      <4> QED BY <2>1, <4>1, <4>2 DEF S!LinkedConverted, S!TypeOK
    <3> DEFINE Rfq == [status : {"none", "draft", "sent", "closed", "cancelled", "awarded"},
                       requisition : Requisitions \cup {None},
                       invited : SUBSET Suppliers, quoted : SUBSET Suppliers, order : Purchases \cup {None}]
    <3>2. rfq' \in [Rfqs -> Rfq]
      <4>1. rfq' = [rfq EXCEPT ![q] = [rfq[q] EXCEPT !.status = "awarded", !.order = o]]
        BY <2>1 DEF S!TypeOK
      <4> HIDE DEF o
      <4>2. rfq[q] \in Rfq
        BY DEF S!TypeOK
      <4>3. [rfq[q] EXCEPT !.status = "awarded", !.order = o] \in Rfq
        BY <2>2, <4>2
      <4> QED BY <4>1, <4>3 DEF S!TypeOK
    <3>3. request' \in [Requests -> [source : S!Documents \cup {None}, order : Purchases \cup {None}]]
      BY <2>3 DEF S!TypeOK, S!Idle
    <3>4. purchase' = purchase /\ died' = died
      BY <2>1, <2>3
    <3> QED BY <3>1, <3>2, <3>3, <3>4 DEF S!TypeOK
  <2>7. OnlyClaimantsName'
    BY <2>4, <2>5 DEF OnlyClaimantsName
  <2>8. ClaimsExplained'
    <3>1. purchase' = purchase
      BY <2>1
    <3>2. purchase[o].status \in {"draft", "submitted"}
      BY <1>4 DEF S!Exists
    <3> HIDE DEF o
    <3>3. ASSUME NEW p \in Rfqs, rfq'[p].status = "awarded"
          PROVE  /\ rfq'[p].order \in Purchases
                 /\ purchase[rfq'[p].order].status \in {"draft", "submitted"}
                 /\ purchase[rfq'[p].order].source = p
      <4>1. CASE p = q
        BY <2>2, <2>5, <3>2, <4>1
      <4>2. CASE p # q
        BY <2>5, <3>3, <4>2 DEF ClaimsExplained, S!Exists
      <4> QED BY <4>1, <4>2
    <3>4. ASSUME NEW r \in Requisitions, requisition'[r].status = "converted"
          PROVE  LET x == requisition'[r].order  y == purchase[x].source IN
                 /\ x \in Purchases /\ purchase[x].status \in {"draft", "submitted"}
                 /\ y = r \/ (y \in Rfqs /\ rfq'[y].status = "awarded" /\ rfq'[y].requisition = r)
      <4>1. CASE requisition'[r] = requisition[r]
        BY <2>5, <3>4, <4>1 DEF ClaimsExplained, S!Exists
      <4>2. CASE r = rfq[q].requisition /\ requisition'[r] = [status |-> "converted", order |-> o]
        BY <2>2, <2>5, <3>2, <4>2
      <4> QED BY <2>4, <4>1, <4>2
    <3> QED BY <3>1, <3>3, <3>4 DEF ClaimsExplained, S!Exists
  <2>9. \A p \in Purchases : p # o => (S!Claimed(p)' <=> S!Claimed(p))
    BY <2>2, <2>4, <2>5, NamesAssumption DEF S!Claimed, OnlyClaimantsName
  <2>10. \E p \in Rfqs : rfq'[p].order = o
    BY <2>5
  <2> QED BY <1>1, <1>2, <2>1, <2>6, <2>7, <2>8, <2>9, <2>10, EndsStep DEF S!Claimed
<1>5. CASE ~S!Awardable(q)
  BY <1>1, <1>2, <1>5, LoserStep DEF S!award_finish
<1>6. CASE S!Awardable(q) /\ ~S!Exists(o)
  BY <1>1, <1>2, <1>6, LoserStep DEF S!award_finish
<1> QED BY <1>4, <1>5, <1>6

LEMMA RequestKeepsSourcing == SourcingInv /\ S!RequestStep => SourcingInv'
<1> SUFFICES ASSUME SourcingInv, NEW c \in Requests,
                    \/ \E r \in Requisitions : S!convert_finish(c, r) \/ \E o \in Purchases : S!convert_begin(c, r, o)
                    \/ \E q \in Rfqs : \/ S!award_finish(c, q)
                                       \/ \E s \in Suppliers, o \in Purchases : S!award_begin(c, q, s, o)
             PROVE  SourcingInv'
  BY DEF S!RequestStep
<1>1. CASE \E r \in Requisitions : S!convert_finish(c, r)
  BY <1>1, ConvertStep
<1>2. CASE \E q \in Rfqs : S!award_finish(c, q)
  BY <1>2, AwardStep
<1>3. CASE \E r \in Requisitions, o \in Purchases : S!convert_begin(c, r, o)
  BY <1>3, DraftsStep DEF S!convert_begin, S!Documents
<1>4. CASE \E q \in Rfqs, s \in Suppliers, o \in Purchases : S!award_begin(c, q, s, o)
  BY <1>4, DraftsStep DEF S!award_begin, S!Documents
<1> QED BY <1>1, <1>2, <1>3, <1>4

\* A buyer deletes a draft nobody refers to, or submits one.
LEMMA BuyerKeepsSourcing == SourcingInv /\ S!OrderStep => SourcingInv'
<1> SUFFICES ASSUME SourcingInv, NEW o \in Purchases, S!delete_order(o) \/ S!submit_order(o)
             PROVE  SourcingInv'
  BY DEF S!OrderStep
<1> USE DEF SourcingInv
<1>1. UNCHANGED << requisition, rfq, request, died >> /\ purchase[o].status = "draft"
  BY DEF S!delete_order, S!submit_order
<1>2. \/ ~S!Claimed(o) /\ purchase' = [purchase EXCEPT ![o].status = "deleted"]
      \/ purchase' = [purchase EXCEPT ![o].status = "submitted"]
  BY DEF S!delete_order, S!submit_order
<1>3. S!TypeOK'
  <2>1. purchase' \in [Purchases -> [status : {"none", "draft", "submitted", "deleted"},
                                     source : S!Documents \cup {None}]]
    <3>1. CASE purchase' = [purchase EXCEPT ![o].status = "deleted"]
      BY <3>1 DEF S!TypeOK
    <3>2. CASE purchase' = [purchase EXCEPT ![o].status = "submitted"]
      BY <3>2 DEF S!TypeOK
    <3> QED BY <1>2, <3>1, <3>2
  <2> QED BY <1>1, <2>1 DEF S!TypeOK
<1>4. /\ \A p \in Purchases : p # o => purchase'[p] = purchase[p]
      /\ \A p \in Purchases : purchase'[p].source = purchase[p].source
      /\ purchase'[o].status \in {"submitted", "deleted"}
      /\ purchase'[o].status = "deleted" => ~S!Claimed(o)
  BY <1>2 DEF S!TypeOK
<1>5. \A p \in Purchases : S!Claimed(p)' <=> S!Claimed(p)
  BY <1>1 DEF S!Claimed
<1>6. OnlyClaimantsName'
  BY <1>1 DEF OnlyClaimantsName
<1>7. ClaimsExplained'
  BY <1>1, <1>4 DEF ClaimsExplained, S!Exists, S!Claimed
<1>8. PendingSound'
  <2> SUFFICES ASSUME NEW c \in Requests, request[c] # S!Idle PROVE Holds(c)'
    BY <1>1 DEF PendingSound, S!Idle
  <2>1. Holds(c)
    BY DEF PendingSound
  <2> QED BY <1>1, <1>4, <1>5, <2>1 DEF Holds, S!Documents
<1>9. PendingApart'
  BY <1>1 DEF PendingApart
<1>10. S!DraftsAreClaimed'
  BY <1>1, <1>4, <1>5 DEF S!DraftsAreClaimed
<1> QED BY <1>3, <1>6, <1>7, <1>8, <1>9, <1>10

LEMMA CrashKeepsSourcing == SourcingInv /\ S!crash => SourcingInv'
<1> SUFFICES ASSUME SourcingInv, S!crash PROVE SourcingInv'
  OBVIOUS
<1> USE DEF SourcingInv
<1>1. /\ request' = [c \in Requests |-> S!Idle] /\ died' = TRUE
      /\ UNCHANGED << requisition, rfq, purchase >>
  BY DEF S!crash
<1>2. S!TypeOK'
  BY <1>1 DEF S!TypeOK, S!Idle
<1>3. OnlyClaimantsName' /\ ClaimsExplained'
  BY <1>1 DEF OnlyClaimantsName, ClaimsExplained, S!Exists
<1>4. PendingSound' /\ PendingApart'
  BY <1>1 DEF PendingSound, PendingApart, S!Idle
<1>5. S!DraftsAreClaimed'
  BY <1>1 DEF S!DraftsAreClaimed
<1> QED BY <1>2, <1>3, <1>4, <1>5

LEMMA SourcingStep == SourcingInv /\ [S!Next]_sourcing => SourcingInv'
<1>1. SourcingInv /\ UNCHANGED sourcing => SourcingInv'
  BY SMTT(20) DEF sourcing, SourcingInv, S!TypeOK, OnlyClaimantsName, PendingSound, PendingApart, Holds,
         ClaimsExplained, S!DraftsAreClaimed, S!Claimed, S!Exists, S!Idle, S!Documents
<1> QED BY <1>1, RequisitionKeepsSourcing, RfqKeepsSourcing, RequestKeepsSourcing,
           BuyerKeepsSourcing, CrashKeepsSourcing DEF S!Next

LEMMA SourcingInvariant == MCSpec => []SourcingInv
<1>1. MCInit => SourcingInv
  BY SourcingInit DEF MCInit
<1>2. SourcingInv /\ [MCNext]_<< side, vars, sourcing, resolution, lists >> => SourcingInv'
  BY SourcingStep DEF MCNext
<1> QED BY <1>1, <1>2, PTL DEF MCSpec

\* A converted requisition and an awarded request for quotation keep the order
\* they became, whatever else races for them.
LEMMA ClaimsStickStep ==
    SourcingInv /\ [S!Next]_sourcing =>
      /\ \A r \in Requisitions : requisition[r].status = "converted" => requisition'[r] = requisition[r]
      /\ \A q \in Rfqs : rfq[q].status = "awarded" => rfq'[q] = rfq[q]
<1> DEFINE Stick == /\ \A r \in Requisitions : requisition[r].status = "converted" => requisition'[r] = requisition[r]
                    /\ \A q \in Rfqs : rfq[q].status = "awarded" => rfq'[q] = rfq[q]
<1> SUFFICES ASSUME SourcingInv, [S!Next]_sourcing PROVE Stick
  OBVIOUS
<1> USE DEF SourcingInv
<1>1. CASE UNCHANGED << requisition, rfq >>
  BY <1>1
<1>2. CASE S!RequisitionStep
  <2>1. PICK r \in Requisitions : \E from \in SUBSET {"none", "draft", "submitted", "approved"},
                                     to \in {"none", "draft", "submitted", "approved", "rejected", "cancelled"} :
                                       S!Moves(r, from, to)
    BY <1>2 DEF S!RequisitionStep, S!create_requisition, S!submit_requisition, S!approve_requisition,
                S!reject_requisition, S!cancel_requisition, S!delete_requisition
  <2> QED BY <2>1 DEF S!Moves, S!TypeOK
<1>3. CASE S!RfqStep
  <2>1. PICK q \in Rfqs : rfq[q].status # "awarded" /\ requisition' = requisition
                          /\ \A p \in Rfqs : p # q => rfq'[p] = rfq[p]
    BY <1>3 DEF S!RfqStep, S!create_rfq, S!update_rfq, S!delete_rfq, S!send, S!close_rfq, S!cancel_rfq,
                S!record_quotes, S!Becomes, S!TypeOK
  <2> QED BY <2>1
<1>4. CASE S!RequestStep
  <2>1. CASE \E c \in Requests, r \in Requisitions : S!convert_finish(c, r)
    BY <2>1 DEF S!convert_finish, S!Convertible, S!TypeOK
  <2>2. CASE \E c \in Requests, q \in Rfqs : S!award_finish(c, q)
    <3>1. PICK c \in Requests, q \in Rfqs : S!award_finish(c, q)
      BY <2>2
    <3>2. CASE UNCHANGED << requisition, rfq >>
      BY <3>2
    <3>3. CASE /\ S!Awardable(q)
               /\ requisition' = S!LinkedConverted(q, request[c].order)
               /\ rfq' = [rfq EXCEPT ![q].status = "awarded", ![q].order = request[c].order]
      <4>1. \A r \in Requisitions : requisition[r].status = "converted" => requisition'[r] = requisition[r]
        BY <3>3 DEF S!LinkedConverted, S!Convertible, S!TypeOK
      <4>2. \A p \in Rfqs : p # q => rfq'[p] = rfq[p]
        BY <3>3 DEF S!TypeOK
      <4> QED BY <3>3, <4>1, <4>2 DEF S!Awardable
    <3> QED BY <3>1, <3>2, <3>3 DEF S!award_finish
  <2>3. CASE UNCHANGED << requisition, rfq >>
    BY <2>3
  <2> QED BY <1>4, <2>1, <2>2, <2>3 DEF S!RequestStep, S!convert_begin, S!award_begin, S!Drafts
<1> QED BY <1>1, <1>2, <1>3, <1>4 DEF S!Next, S!OrderStep, S!delete_order, S!submit_order, S!crash, sourcing

----------------------------------------------------------------------------
(* Price lists.  What a pending request read about the status of its list is   *)
(* still so, or the request is marked as outdated.                             *)

Listed == [status : {"none", "draft", "active", "archived", "deleted"},
           scope : L!Scopes, lines : SUBSET UNION ListedLines]

Operations == {"none", "update", "retitle", "activate", "archive", "replace", "delete"}

\* The statuses a list may have had when an operation was let through.
LetThrough(op) ==
    CASE op \in {"update", "activate", "delete"} -> {"draft"}
      [] op = "retitle" -> {"active"}
      [] op \in {"archive", "replace"} -> {"draft", "active"}
      [] OTHER -> {}

Pending == [op : Operations, list : Lists \cup {None}, crossed : BOOLEAN, outdated : BOOLEAN]

ListsTyped ==
    /\ list \in [Lists -> Listed]
    /\ pricing \in [Requests -> Pending]

ReadsStand == \A c \in Requests : pricing[c].op # "none" =>
    /\ pricing[c].list \in Lists
    /\ ~pricing[c].outdated => list[pricing[c].list].status \in LetThrough(pricing[c].op)

ListInv == ListsTyped /\ ReadsStand

LEMMA ListInit == L!Init => ListInv
<1> SUFFICES ASSUME L!Init PROVE ListInv
  OBVIOUS
<1>1. L!NoList \in Listed
  BY DEF L!NoList, Listed, L!Scopes
<1>2. ListsTyped
  BY <1>1 DEF ListsTyped, Pending, L!Init, L!Idle, L!Reading, Operations
<1>3. ReadsStand
  BY DEF L!Init, L!Idle, L!Reading, ReadsStand
<1> QED BY <1>2, <1>3 DEF ListInv

LEMMA ReadsStep ==
    ASSUME ListInv, NEW c \in Requests, NEW op \in Operations \ {"none"}, NEW l \in Lists, NEW allowed,
           allowed \subseteq LetThrough(op) \/ list[l].status \in LetThrough(op), L!Reads(c, op, l, allowed)
    PROVE  ListInv'
<1> USE DEF ListInv
<1>1. /\ list[l].status \in LetThrough(op)
      /\ pricing' = [pricing EXCEPT ![c] = [op |-> op, list |-> l, crossed |-> FALSE, outdated |-> FALSE]]
      /\ UNCHANGED << list, pointer >>
  BY DEF L!Reads, L!Reading
<1>2. ListsTyped'
  BY <1>1 DEF ListsTyped, Pending
<1>3. ReadsStand'
  <2> SUFFICES ASSUME NEW d \in Requests, pricing'[d].op # "none"
               PROVE  /\ pricing'[d].list \in Lists
                      /\ ~pricing'[d].outdated =>
                           list[pricing'[d].list].status \in LetThrough(pricing'[d].op)
    BY <1>1 DEF ReadsStand, LetThrough
  <2>1. CASE d = c
    <3>1. pricing'[d] = [op |-> op, list |-> l, crossed |-> FALSE, outdated |-> FALSE]
      BY <1>1, <2>1 DEF ListsTyped
    <3> QED BY <1>1, <3>1
  <2>2. CASE d # c
    <3>1. pricing'[d] = pricing[d]
      BY <1>1, <2>2 DEF ListsTyped
    <3> QED BY <3>1 DEF ReadsStand
  <2> QED BY <2>1, <2>2
<1> QED BY <1>2, <1>3

\* A write leaves the other lists alone, and marks the others who have read its
\* own when it moves the status.
LEMMA WritesStep ==
    ASSUME ListInv, NEW c \in Requests, NEW new \in Listed, pricing[c].op # "none", L!Writes(c, new)
    PROVE  /\ ListInv'
           /\ pricing'[c] = L!Idle
           /\ \A l \in Lists : list'[l] = list[l] \/ (l = pricing[c].list /\ list'[l] = new)
<1> USE DEF ListInv
<1> DEFINE l == pricing[c].list
           written == [list EXCEPT ![l] = new]
<1>1. l \in Lists
  BY DEF ReadsStand
<1>2. /\ list' = list \/ list' = written
      /\ \A d \in Requests : d # c =>
            /\ pricing'[d].op = pricing[d].op /\ pricing'[d].list = pricing[d].list
            /\ pricing'[d].outdated =
                  (pricing[d].outdated \/ (d \in L!Behind(c) /\ list'[l].status # list[l].status))
      /\ pricing'[c] = L!Idle
  BY DEF L!Writes, ListsTyped, Pending
<1>3. list' \in [Lists -> Listed]
  BY <1>1, <1>2 DEF ListsTyped
<1>4. pricing' \in [Requests -> Pending]
  <2>1. \A d \in Requests : [pricing[d] EXCEPT
                                !.crossed = @ \/ (d \in L!Behind(c) /\ pricing[c].op = "replace"),
                                !.outdated = @ \/ (d \in L!Behind(c) /\ list'[l].status # list[l].status)]
                            \in Pending
    BY DEF ListsTyped, Pending
  <2>2. L!Idle \in Pending
    BY DEF L!Idle, L!Reading, Operations, Pending
  <2> QED BY <2>1, <2>2 DEF L!Writes
<1>5. \A k \in Lists : list'[k] = list[k] \/ (k = l /\ list'[k] = new)
  BY <1>1, <1>2 DEF ListsTyped
<1>6. ReadsStand'
  <2> SUFFICES ASSUME NEW d \in Requests, pricing'[d].op # "none"
               PROVE  /\ pricing'[d].list \in Lists
                      /\ ~pricing'[d].outdated =>
                           list'[pricing'[d].list].status \in LetThrough(pricing'[d].op)
    BY DEF ReadsStand, LetThrough
  <2>1. d # c
    BY <1>2 DEF L!Idle, L!Reading
  <2>2. pricing[d].list = l => pricing'[d].outdated \/ list'[l].status = list[l].status
    BY <1>2, <2>1 DEF L!Behind
  <2>3. pricing[d].list # l => list'[pricing[d].list] = list[pricing[d].list]
    BY <1>2, <1>5, <2>1 DEF ReadsStand
  <2> QED BY <1>2, <2>1, <2>2, <2>3 DEF ReadsStand
<1> QED BY <1>2, <1>3, <1>4, <1>5, <1>6 DEF ListsTyped

\* What a list may become in a step of a request that is not outdated.
Rests(l) ==
    /\ list[l].status = "active" => list'[l].status \in {"active", "archived"} /\ list'[l].scope = list[l].scope
    /\ list[l].status = "archived" => list'[l] = list[l]

\* A request writes what its operation makes of the list it has read.
Makes(op, old, new) ==
    CASE op = "archive" -> new = [old EXCEPT !.status = "archived"]
      [] op = "retitle" -> new = old
      [] op = "replace" -> new.status = old.status /\ new.scope = old.scope
      [] OTHER -> TRUE

LEMMA WriteRests ==
    ASSUME ListInv, NEW c \in Requests, NEW new \in Listed, L!Writes(c, new), pricing[c].op # "none",
           Makes(pricing[c].op, list[pricing[c].list], new)
    PROVE  ListInv' /\ \A l \in Lists : Rests(l) \/ L!WrittenOutdated(l)
<1> DEFINE l == pricing[c].list
<1>1. ListInv' /\ pricing'[c] = L!Idle /\ \A k \in Lists : list'[k] = list[k] \/ (k = l /\ list'[k] = new)
  BY WritesStep
<1>2. l \in Lists /\ pricing[c].op \in Operations
  BY DEF ListInv, ListsTyped, ReadsStand, Pending
<1>3. ASSUME ~pricing[c].outdated, list'[l] = new PROVE Rests(l)
  <2>1. list[l].status \in LetThrough(pricing[c].op)
    BY <1>1, <1>3 DEF ListInv, ReadsStand
  <2>2. list[l] \in Listed
    BY <1>2 DEF ListInv, ListsTyped
  <2> HIDE DEF l
  <2>3. Makes(pricing[c].op, list[l], new)
    BY DEF l
  <2>4. CASE pricing[c].op \in {"update", "activate", "delete"}
    BY <2>1, <2>4 DEF LetThrough, Rests
  <2>5. CASE pricing[c].op = "archive"
    BY <1>3, <2>1, <2>2, <2>3, <2>5 DEF LetThrough, Rests, Makes, Listed
  <2>6. CASE pricing[c].op = "retitle"
    BY <1>3, <2>1, <2>3, <2>6 DEF LetThrough, Rests, Makes
  <2>7. CASE pricing[c].op = "replace"
    BY <1>3, <2>1, <2>3, <2>7 DEF LetThrough, Rests, Makes
  <2> QED BY <1>2, <2>4, <2>5, <2>6, <2>7 DEF Operations
<1>4. pricing[c].outdated => L!WrittenOutdated(l)
  BY <1>1 DEF L!WrittenOutdated
<1> QED BY <1>1, <1>3, <1>4 DEF Rests

LEMMA FinishRests ==
    ASSUME ListInv, NEW c \in Requests,
           \/ \E scope \in L!Scopes : L!update_finish(c, scope)
           \/ \E lines \in ListedLines : L!replace_finish(c, lines)
           \/ L!activate_finish(c) \/ L!archive_finish(c) \/ L!delete_finish(c)
    PROVE  ListInv' /\ \A l \in Lists : Rests(l) \/ L!WrittenOutdated(l)
<1> DEFINE l == pricing[c].list
<1>1. pricing[c].op # "none" => l \in Lists /\ list[l] \in Listed
  BY DEF ListInv, ListsTyped, ReadsStand
<1>2. CASE \E scope \in L!Scopes : L!update_finish(c, scope)
  <2>1. PICK scope \in L!Scopes : L!update_finish(c, scope)
    BY <1>2
  <2>2. CASE pricing[c].op = "update" /\ L!Writes(c, [list[l] EXCEPT !.scope = scope])
    <3>1. [list[l] EXCEPT !.scope = scope] \in Listed
      BY <1>1, <2>2 DEF Listed
    <3> QED BY <2>2, <3>1, WriteRests DEF Makes
  <2>3. CASE pricing[c].op = "retitle" /\ L!Writes(c, list[l])
    BY <1>1, <2>3, WriteRests DEF Makes
  <2> QED BY <2>1, <2>2, <2>3 DEF L!update_finish
<1>3. CASE \E lines \in ListedLines : L!replace_finish(c, lines)
  <2>1. PICK lines \in ListedLines : L!replace_finish(c, lines)
    BY <1>3
  <2>2. pricing[c].op = "replace"
    BY <2>1 DEF L!replace_finish
  <2>3. ASSUME NEW new, new \in SUBSET UNION ListedLines
        PROVE  /\ [list[l] EXCEPT !.lines = new] \in Listed
               /\ Makes("replace", list[l], [list[l] EXCEPT !.lines = new])
    BY <1>1, <2>2, <2>3 DEF Listed, Makes
  <2>4. lines \in SUBSET UNION ListedLines /\ list[l].lines \in SUBSET UNION ListedLines
    BY <1>1, <2>2 DEF Listed
  <2>5. PICK new \in SUBSET UNION ListedLines : L!Writes(c, [list[l] EXCEPT !.lines = new])
    <3>1. CASE L!Writes(c, [list[l] EXCEPT !.lines = lines])
      BY <2>4, <3>1
    <3>2. CASE L!Writes(c, [list[l] EXCEPT !.lines = IF @ \cap lines = {} THEN @ \cup lines ELSE @])
      <4>1. (IF list[l].lines \cap lines = {} THEN list[l].lines \cup lines ELSE list[l].lines)
              \in SUBSET UNION ListedLines
        BY <2>4
      <4> QED BY <3>2, <4>1
    <3> QED BY <2>1, <3>1, <3>2 DEF L!replace_finish
  <2> QED BY <2>2, <2>3, <2>5, WriteRests
<1>4. CASE L!activate_finish(c)
  <2>1. [list[l] EXCEPT !.status = "active"] \in Listed
    BY <1>1, <1>4 DEF L!activate_finish, Listed
  <2> QED BY <1>4, <2>1, WriteRests DEF L!activate_finish, Makes
<1>5. CASE L!archive_finish(c)
  <2>1. [list[l] EXCEPT !.status = "archived"] \in Listed
    BY <1>1, <1>5 DEF L!archive_finish, Listed
  <2> QED BY <1>5, <2>1, WriteRests DEF L!archive_finish, Makes
<1>6. CASE L!delete_finish(c)
  <2>1. [L!NoList EXCEPT !.status = "deleted"] \in Listed
    BY DEF L!NoList, Listed, L!Scopes
  <2> QED BY <1>6, <2>1, WriteRests DEF L!delete_finish, Makes
<1> QED BY <1>2, <1>3, <1>4, <1>5, <1>6

LEMMA ListStep == ListInv /\ [L!Next]_lists => ListInv' /\ \A l \in Lists : Rests(l) \/ L!WrittenOutdated(l)
<1> SUFFICES ASSUME ListInv, [L!Next]_lists PROVE ListInv' /\ \A l \in Lists : Rests(l) \/ L!WrittenOutdated(l)
  OBVIOUS
<1>1. CASE UNCHANGED lists
  BY <1>1 DEF lists, ListInv, ListsTyped, ReadsStand, Rests, LetThrough
<1>2. CASE \E l \in Lists : L!create(l)
  <2>1. PICK l \in Lists, scope \in L!Scopes :
          /\ list[l].status = "none"
          /\ list' = [list EXCEPT ![l] = [L!NoList EXCEPT !.status = "draft", !.scope = scope]]
          /\ UNCHANGED << pointer, pricing >>
    BY <1>2 DEF L!create
  <2>2. [L!NoList EXCEPT !.status = "draft", !.scope = scope] \in Listed
    BY DEF L!NoList, Listed
  <2>3. ListsTyped'
    BY <2>1, <2>2 DEF ListInv, ListsTyped
  <2>4. \A k \in Lists : k # l => list'[k] = list[k]
    BY <2>1 DEF ListInv, ListsTyped
  <2>5. \A op \in Operations : "none" \notin LetThrough(op)
    BY DEF LetThrough, Operations
  <2>6. ReadsStand'
    BY <2>1, <2>4, <2>5 DEF ListInv, ListsTyped, ReadsStand, LetThrough
  <2> QED BY <2>1, <2>3, <2>4, <2>6 DEF ListInv, Rests
<1>3. CASE \E c \in Requests, l \in Lists : \/ L!update_begin(c, l) \/ L!activate_begin(c, l)
                                            \/ L!archive_begin(c, l) \/ L!replace_begin(c, l) \/ L!delete_begin(c, l)
  <2>1. PICK c \in Requests, l \in Lists : \/ L!update_begin(c, l) \/ L!activate_begin(c, l)
                                           \/ L!archive_begin(c, l) \/ L!replace_begin(c, l) \/ L!delete_begin(c, l)
    BY <1>3
  <2>2. PICK op \in Operations \ {"none"}, allowed \in SUBSET {"draft", "active"} :
          L!Reads(c, op, l, allowed) /\ (allowed \subseteq LetThrough(op) \/ list[l].status \in LetThrough(op))
    <3>1. CASE L!update_begin(c, l) /\ list[l].status = "active"
      BY <3>1 DEF L!update_begin, Operations, LetThrough
    <3>2. CASE L!update_begin(c, l) /\ list[l].status # "active"
      BY <3>2 DEF L!update_begin, L!Reads, Operations, LetThrough
    <3>3. CASE L!activate_begin(c, l)
      BY <3>3 DEF L!activate_begin, Operations, LetThrough
    <3>4. CASE L!archive_begin(c, l)
      BY <3>4 DEF L!archive_begin, Operations, LetThrough
    <3>5. CASE L!replace_begin(c, l)
      BY <3>5 DEF L!replace_begin, Operations, LetThrough
    <3>6. CASE L!delete_begin(c, l)
      BY <3>6 DEF L!delete_begin, Operations, LetThrough
    <3> QED BY <2>1, <3>1, <3>2, <3>3, <3>4, <3>5, <3>6
  <2>3. list' = list
    BY <2>2 DEF L!Reads
  <2> QED BY <2>2, <2>3, ReadsStep DEF Rests
<1>4. CASE \E c \in Requests : \/ \E scope \in L!Scopes : L!update_finish(c, scope)
                               \/ \E lines \in ListedLines : L!replace_finish(c, lines)
                               \/ L!activate_finish(c) \/ L!archive_finish(c) \/ L!delete_finish(c)
  BY <1>4, FinishRests
<1>5. CASE \E p \in Partners : \E l \in Lists \cup {None} : L!set_pointer(p, l)
  BY <1>5 DEF L!set_pointer, ListInv, ListsTyped, ReadsStand, Rests, LetThrough
<1> QED BY <1>1, <1>2, <1>3, <1>4, <1>5 DEF L!Next

----------------------------------------------------------------------------
(* Commitments.  What a granted confirmation found within the limit stays      *)
(* within it while nothing the customer is committed to grows.                 *)

Offered == [status : {"none", "draft", "sent", "accepted", "declined", "expired", "converted"},
            amount : Qtys, stands : BOOLEAN, converted_to : Orders \cup {None}]
Ordered == [status : {"none", "draft", "confirmed", "partially_delivered", "delivered", "closed", "cancelled", "deleted"},
            amount : Qtys, discount : Qtys, delivered : Qtys, quotation : Quotations \cup {None}, cut : BOOLEAN]
Checked == [step : {"idle", "buyer", "granted"}, limit : Limits \cup {0}, exposure : Nat, credit_override : BOOLEAN]

DeliveredFits == \A o \in Orders : /\ order[o].delivered <= order[o].amount
                                   /\ order[o].status = "draft" => order[o].delivered = 0

ConfirmingHolds == \A o \in Orders : confirming[o] # NotConfirming => order[o].status = "draft"

GrantedFits == \A o \in Orders :
    confirming[o].step = "granted" /\ confirming[o].limit # Unlimited /\ ~confirming[o].credit_override /\ ~grown
    => customer_exposure(o) + order_value(o) <= confirming[o].limit

ConvertedOnce == \A q \in Quotations : quotation[q].status # "converted" => quotation[q].converted_to = None

CutAsOffered == \A o \in Orders : order[o].cut =>
    LET q == order[o].quotation IN
    /\ q \in Quotations /\ quotation[q].status = "converted"
    /\ quotation[q].converted_to = o /\ quotation[q].amount = order[o].amount

CommitmentInv ==
    TypeOK /\ DeliveredFits /\ ConfirmingHolds /\ GrantedFits /\ ConvertedOnce /\ CutAsOffered

LEMMA CommitmentInit == Init => CommitmentInv
<1> SUFFICES ASSUME Init PROVE CommitmentInv
  OBVIOUS
<1>1. NoQuotation \in Offered /\ NoOrder \in Ordered /\ NotConfirming \in Checked
  BY MaxQtyAssumption DEF NoQuotation, NoOrder, NotConfirming, Offered, Ordered, Checked, Qtys
<1>2. TypeOK
  <2>1. customer \in [exists : BOOLEAN, open : BOOLEAN, limit : Limits] /\ grown \in BOOLEAN
    BY CommitmentAssumption DEF Init, Customer
  <2>2. /\ quotation \in [Quotations -> Offered]
        /\ order \in [Orders -> Ordered]
        /\ confirming \in [Orders -> Checked]
    BY <1>1 DEF Init
  <2> QED BY <2>1, <2>2 DEF TypeOK, Offered, Ordered, Checked
<1>3. DeliveredFits /\ CutAsOffered
  BY DEF Init, DeliveredFits, CutAsOffered, NoOrder
<1>4. ConfirmingHolds /\ GrantedFits
  BY DEF Init, ConfirmingHolds, GrantedFits, NotConfirming
<1>5. ConvertedOnce
  BY DEF Init, ConvertedOnce, NoQuotation
<1> QED BY <1>2, <1>3, <1>4, <1>5 DEF CommitmentInv

LEMMA Typed ==
    ASSUME TypeOK
    PROVE  /\ quotation \in [Quotations -> Offered]
           /\ order \in [Orders -> Ordered]
           /\ confirming \in [Orders -> Checked]
BY DEF TypeOK, Offered, Ordered, Checked

LEMMA ExposureType == ASSUME TypeOK, NEW o \in Orders PROVE customer_exposure(o) \in Nat
<1>1. IsFiniteSet(Open \ {o})
  BY CommitmentAssumption, FS_Subset DEF Open
<1> QED BY <1>1, SumType DEF customer_exposure

\* The exposure another order sees does not grow when this one stays out of the
\* open orders, leaves them, or has less left to deliver.
LEMMA ExposureShrinks ==
    ASSUME CommitmentInv, TypeOK', DeliveredFits', NEW o \in Orders, NEW p \in Orders,
           \A k \in Orders : k # o => order'[k] = order[k],
           p = o \/ (order'[o].status \in Deliverable =>
                      /\ order[o].status \in Deliverable
                      /\ order'[o].amount - order'[o].delivered <= order[o].amount - order[o].delivered)
    PROVE  customer_exposure(p)' <= customer_exposure(p)
<1>1. IsFiniteSet(Open \ {p})
  BY CommitmentAssumption, FS_Subset DEF Open
<1>2. Open' \ {p} \subseteq Open \ {p}
  BY DEF Open, Deliverable
<1>3. \A k \in Open' \ {p} : undelivered'[k] \in Nat /\ undelivered[k] \in Nat /\ undelivered'[k] <= undelivered[k]
  <2> SUFFICES ASSUME NEW k \in Open' \ {p}
               PROVE  undelivered'[k] \in Nat /\ undelivered[k] \in Nat /\ undelivered'[k] <= undelivered[k]
    OBVIOUS
  <2>1. k \in Orders /\ order[k] \in Ordered /\ order'[k] \in Ordered
    BY Typed DEF CommitmentInv, Open, TypeOK, Ordered
  <2>2. order[k].delivered <= order[k].amount /\ order'[k].delivered <= order'[k].amount
    BY <2>1 DEF CommitmentInv, DeliveredFits
  <2>3. order'[k].amount - order'[k].delivered <= order[k].amount - order[k].delivered
    BY <2>1, MaxQtyAssumption DEF Open, Ordered, Qtys, Deliverable
  <2>4. undelivered[k] = order[k].amount - order[k].delivered /\ undelivered'[k] = order'[k].amount - order'[k].delivered
    BY <2>1 DEF undelivered
  <2> QED BY <2>1, <2>2, <2>3, <2>4, MaxQtyAssumption DEF Ordered, Qtys
<1>4. Sum(undelivered', Open' \ {p}) <= Sum(undelivered, Open \ {p})
  BY <1>1, <1>2, <1>3, SumSmaller
<1> QED BY <1>4 DEF customer_exposure

\* What a step keeps of the offers, of the orders cut from them, and of the
\* confirmations: the three things the properties say of a step.
Kept ==
    /\ \A q \in Quotations : quotation[q].status \notin {"none", "draft"} =>
         /\ quotation'[q].status # "none" /\ quotation'[q].amount = quotation[q].amount
         /\ quotation[q].converted_to # None => quotation'[q].converted_to = quotation[q].converted_to
    /\ \A o \in Orders : order[o].status = "draft" /\ order'[o].status = "confirmed" => confirming[o].step = "granted"

\* A document writes its order while no confirmation holds it.
LEMMA OrderWritten ==
    ASSUME CommitmentInv, NEW o \in Orders, NEW new \in Ordered, Writes(o, new),
           grown' \in BOOLEAN, grown => grown',
           new.delivered <= new.amount, new.status = "draft" => new.delivered = 0,
           order[o].status = "draft" => new.status # "confirmed",
           new.cut => order[o].cut /\ new.quotation = order[o].quotation /\ new.amount = order[o].amount,
           \/ new.status \in Deliverable =>
                order[o].status \in Deliverable /\ new.amount - new.delivered <= order[o].amount - order[o].delivered
           \/ Underway(o) => grown'
    PROVE  CommitmentInv' /\ Kept
<1> USE DEF CommitmentInv
<1>1. /\ order' = [order EXCEPT ![o] = new] /\ confirming[o] = NotConfirming
      /\ UNCHANGED << customer, quotation, confirming >>
  BY DEF Writes, Free
<1>2. order \in [Orders -> Ordered]
  BY Typed
<1>3. order' \in [Orders -> Ordered] /\ order'[o] = new /\ \A p \in Orders : p # o => order'[p] = order[p]
  BY <1>1, <1>2
<1>4. TypeOK'
  BY <1>1, <1>3 DEF TypeOK, Ordered
<1>5. DeliveredFits'
  BY <1>3 DEF DeliveredFits
<1>6. ConfirmingHolds'
  BY <1>1, <1>3 DEF ConfirmingHolds, NotConfirming
<1>7. GrantedFits'
  <2> SUFFICES ASSUME NEW p \in Orders, confirming[p].step = "granted", confirming[p].limit # Unlimited,
                      ~confirming[p].credit_override, ~grown'
               PROVE  customer_exposure(p)' + order_value(p)' <= confirming[p].limit
    BY <1>1 DEF GrantedFits
  <2>1. p # o
    BY <1>1 DEF NotConfirming
  <2>2. Underway(o)
    BY <2>1 DEF Underway
  <2>3. customer_exposure(p)' <= customer_exposure(p)
    BY <1>3, <1>4, <1>5, <2>2, ExposureShrinks
  <2>4. customer_exposure(p) + order_value(p) <= confirming[p].limit
    BY DEF GrantedFits
  <2>5. order_value(p)' = order_value(p)
    BY <1>3, <2>1 DEF order_value
  <2>6. customer_exposure(p) \in Nat
    BY ExposureType
  <2>7. customer_exposure(p)' \in Nat
    <3>1. IsFiniteSet(Open' \ {p})
      BY CommitmentAssumption, FS_Subset DEF Open
    <3> QED BY <3>1, SumType DEF customer_exposure
  <2>8. order[p].amount \in Int /\ order[p].discount \in Int
    BY <1>2, MaxQtyAssumption DEF Ordered, Qtys
  <2>9. confirming[p] \in Checked
    BY Typed
  <2>10. order_value(p) \in Int
    BY <2>8 DEF order_value
  <2>11. confirming[p].limit \in Nat
    <3>1. Limits \cup {0} \subseteq Nat
      BY CommitmentAssumption
    <3> QED BY <2>9, <3>1 DEF Checked
  <2> QED BY <2>3, <2>4, <2>5, <2>6, <2>7, <2>10, <2>11
<1>8. ConvertedOnce'
  BY <1>1 DEF ConvertedOnce
<1>9. CutAsOffered'
  BY <1>1, <1>3 DEF CutAsOffered
<1>10. Kept
  BY <1>1, <1>3 DEF Kept
<1> QED BY <1>4, <1>5, <1>6, <1>7, <1>8, <1>9, <1>10

LEMMA OrderDeskKeeps ==
    ASSUME CommitmentInv, NEW o \in Orders,
           \/ \E amount \in Amounts : \E discount \in 0..(amount - 1) :
                create_order(o, amount, discount) \/ update_order(o, amount, discount)
           \/ delete_order(o) \/ cancel(o) \/ close(o)
           \/ \E amount \in Amounts : deliver(o, amount) \/ return(o, amount)
    PROVE  CommitmentInv' /\ Kept
<1> USE DEF CommitmentInv
<1>1. order[o] \in Ordered /\ grown \in BOOLEAN
  BY Typed DEF TypeOK
<1>2. /\ order[o].delivered <= order[o].amount
      /\ order[o].status = "draft" => order[o].delivered = 0
  BY DEF DeliveredFits
<1>3. NoOrder \in Ordered /\ NoOrder.delivered = 0 /\ ~NoOrder.cut /\ NoOrder.amount = 0
  BY MaxQtyAssumption DEF NoOrder, Ordered, Qtys
<1>4. CASE \E amount \in Amounts : \E discount \in 0..(amount - 1) : create_order(o, amount, discount)
  <2>1. PICK amount \in Amounts, discount \in 0..(MaxQty - 1) : create_order(o, amount, discount)
    BY <1>4, MaxQtyAssumption DEF Amounts
  <2> DEFINE new == [NoOrder EXCEPT !.status = "draft", !.amount = amount, !.discount = discount]
  <2>2. amount \in Qtys /\ discount \in Qtys
    BY MaxQtyAssumption DEF Qtys, Amounts
  <2>3. /\ new \in Ordered /\ new.status = "draft" /\ new.delivered = 0 /\ new.amount = amount /\ ~new.cut
    BY <1>3, <2>2 DEF Ordered
  <2>4. Writes(o, new) /\ grown' = grown
    BY <2>1 DEF create_order, Keeps
  <2> HIDE DEF new
  <2>5. new.delivered <= new.amount
    BY <2>2, <2>3, MaxQtyAssumption DEF Qtys
  <2> QED BY <1>1, <2>3, <2>4, <2>5, OrderWritten DEF Deliverable
<1>5. CASE \E amount \in Amounts : \E discount \in 0..(amount - 1) : update_order(o, amount, discount)
  <2>1. PICK amount \in Amounts, discount \in 0..(MaxQty - 1) : update_order(o, amount, discount)
    BY <1>5, MaxQtyAssumption DEF Amounts
  <2> DEFINE new == [order[o] EXCEPT !.amount = amount, !.discount = discount, !.cut = FALSE]
  <2>2. order[o].status = "draft" /\ Writes(o, new) /\ grown' = grown
    BY <2>1 DEF update_order, Keeps
  <2>3. amount \in Qtys /\ discount \in Qtys
    BY MaxQtyAssumption DEF Qtys, Amounts
  <2>4. new \in Ordered /\ new.status = "draft" /\ new.delivered = 0 /\ new.amount = amount /\ ~new.cut
    BY <1>1, <1>2, <2>2, <2>3 DEF Ordered
  <2> HIDE DEF new
  <2>5. new.delivered <= new.amount
    BY <2>3, <2>4, MaxQtyAssumption DEF Qtys
  <2> QED BY <1>1, <2>2, <2>4, <2>5, OrderWritten DEF Deliverable
<1>6. CASE delete_order(o)
  <2> DEFINE new == [NoOrder EXCEPT !.status = "deleted"]
  <2>1. new \in Ordered /\ new.delivered = 0 /\ new.amount = 0 /\ new.status = "deleted" /\ ~new.cut
    BY <1>3 DEF Ordered
  <2>2. Writes(o, new) /\ grown' = grown
    BY <1>6 DEF delete_order, Keeps
  <2> HIDE DEF new
  <2> QED BY <1>1, <2>1, <2>2, OrderWritten DEF Deliverable
<1>7. ASSUME cancel(o) \/ close(o) PROVE CommitmentInv' /\ Kept
  <2>1. PICK status \in {"cancelled", "closed"} : Keeps(o, [order[o] EXCEPT !.status = status])
    BY <1>7 DEF cancel, close
  <2> DEFINE new == [order[o] EXCEPT !.status = status]
  <2>2. /\ new \in Ordered /\ new.delivered <= new.amount /\ new.status \in {"cancelled", "closed"}
        /\ new.cut = order[o].cut /\ new.quotation = order[o].quotation /\ new.amount = order[o].amount
    BY <1>1, <1>2 DEF Ordered
  <2>3. Writes(o, new) /\ grown' = grown
    BY <2>1 DEF Keeps
  <2> QED BY <1>1, <2>2, <2>3, OrderWritten DEF Deliverable
<1>8. CASE \E amount \in Amounts : deliver(o, amount)
  <2>1. PICK amount \in Amounts : deliver(o, amount)
    BY <1>8
  <2> DEFINE delivered == order[o].delivered + amount
             new == [order[o] EXCEPT !.delivered = delivered, !.status = Status(o, delivered)]
  <2>2. order[o].status \in Deliverable /\ delivered <= order[o].amount /\ Writes(o, new) /\ grown' = grown
    BY <2>1 DEF deliver, Keeps
  <2>3. delivered \in Qtys /\ delivered > order[o].delivered
    BY <1>1, <2>2, MaxQtyAssumption DEF Ordered, Qtys, Amounts
  <2>4. Status(o, delivered) \in {"confirmed", "partially_delivered", "delivered"}
    BY DEF Status
  <2> HIDE DEF delivered
  <2>5. /\ new \in Ordered /\ new.status \in {"confirmed", "partially_delivered", "delivered"}
        /\ new.delivered = delivered /\ new.amount = order[o].amount
        /\ new.cut = order[o].cut /\ new.quotation = order[o].quotation
    BY <1>1, <2>3, <2>4 DEF Ordered
  <2> HIDE DEF new
  <2>6. new.amount - new.delivered <= order[o].amount - order[o].delivered
    BY <1>1, <2>2, <2>3, <2>5, MaxQtyAssumption DEF Ordered, Qtys
  <2> QED BY <1>1, <2>2, <2>5, <2>6, OrderWritten DEF Deliverable
<1>9. CASE \E amount \in Amounts : return(o, amount)
  <2>1. PICK amount \in Amounts : return(o, amount)
    BY <1>9
  <2> DEFINE delivered == order[o].delivered - amount
             new == [order[o] EXCEPT !.delivered = delivered, !.status = Status(o, delivered)]
  <2>2. /\ order[o].status # "draft" /\ amount <= order[o].delivered /\ Writes(o, new)
        /\ grown' = (grown \/ Underway(o))
    BY <2>1 DEF return, Deliverable
  <2>3. delivered \in Qtys /\ delivered <= order[o].amount
    BY <1>1, <1>2, <2>2, MaxQtyAssumption DEF Ordered, Qtys, Amounts
  <2>4. Status(o, delivered) \in {"confirmed", "partially_delivered", "delivered"}
    BY DEF Status
  <2> HIDE DEF delivered
  <2>5. /\ new \in Ordered /\ new.status \in {"confirmed", "partially_delivered", "delivered"}
        /\ new.delivered = delivered /\ new.amount = order[o].amount
        /\ new.cut = order[o].cut /\ new.quotation = order[o].quotation
    BY <1>1, <2>3, <2>4 DEF Ordered
  <2> HIDE DEF new
  <2>6. grown' \in BOOLEAN /\ (grown => grown') /\ (Underway(o) => grown')
    BY <1>1, <2>2 DEF Underway
  <2> QED BY <1>1, <2>2, <2>3, <2>5, <2>6, OrderWritten
<1> QED BY <1>4, <1>5, <1>6, <1>7, <1>8, <1>9

LEMMA ConfirmationKeeps ==
    ASSUME CommitmentInv, NEW o \in Orders,
           (\E credit_override \in BOOLEAN : confirm_begin(o, credit_override)) \/ confirm_check(o)
    PROVE  CommitmentInv' /\ Kept
<1> USE DEF CommitmentInv
<1>1. UNCHANGED << customer, quotation, order, grown >> /\ order[o].status = "draft"
  BY DEF confirm_begin, confirm_check, ConfirmingHolds, NotConfirming
<1>2. confirming \in [Orders -> Checked] /\ NotConfirming \in Checked /\ customer.limit \in Limits
  BY Typed DEF TypeOK, NotConfirming, Checked
<1>3. \E new \in Checked :
        /\ confirming' = [confirming EXCEPT ![o] = new]
        /\ new.step = "granted" /\ new.limit # Unlimited /\ ~new.credit_override
             => customer_exposure(o) + order_value(o) <= new.limit
  <2>1. CASE \E credit_override \in BOOLEAN : confirm_begin(o, credit_override)
    <3>1. PICK credit_override \in BOOLEAN : confirm_begin(o, credit_override)
      BY <2>1
    <3>2. [step |-> "buyer", limit |-> customer.limit, exposure |-> 0, credit_override |-> credit_override] \in Checked
      BY <1>2 DEF Checked
    <3> QED BY <3>1, <3>2 DEF confirm_begin
  <2>2. CASE confirm_check(o)
    <3> DEFINE old == confirming[o]  exposure == customer_exposure(o)
    <3>1. old \in Checked /\ exposure \in Nat
      BY <1>2, ExposureType
    <3> HIDE DEF old, exposure
    <3>2. /\ [old EXCEPT !.step = "granted", !.exposure = exposure, !.credit_override = FALSE] \in Checked
          /\ [old EXCEPT !.step = "granted", !.exposure = exposure, !.credit_override = FALSE].limit = old.limit
          /\ [old EXCEPT !.step = "granted", !.exposure = exposure] \in Checked
          /\ [old EXCEPT !.step = "granted", !.exposure = exposure].credit_override = old.credit_override
      BY <3>1 DEF Checked
    <3>3. confirming' = [confirming EXCEPT ![o] =
               IF Within(o) THEN [old EXCEPT !.step = "granted", !.exposure = exposure, !.credit_override = FALSE]
               ELSE IF old.credit_override THEN [old EXCEPT !.step = "granted", !.exposure = exposure]
               ELSE NotConfirming]
      BY <2>2, <1>2 DEF confirm_check, old, exposure
    <3>4. CASE Within(o)
      BY <3>2, <3>3, <3>4 DEF Within, old
    <3>5. CASE ~Within(o) /\ old.credit_override
      BY <3>2, <3>3, <3>5
    <3>6. CASE ~Within(o) /\ ~old.credit_override
      BY <1>2, <3>3, <3>6 DEF NotConfirming
    <3> QED BY <3>4, <3>5, <3>6
  <2> QED BY <2>1, <2>2
<1>4. PICK new \in Checked :
        /\ confirming' = [confirming EXCEPT ![o] = new]
        /\ new.step = "granted" /\ new.limit # Unlimited /\ ~new.credit_override
             => customer_exposure(o) + order_value(o) <= new.limit
  BY <1>3
<1>5. /\ confirming' \in [Orders -> Checked] /\ confirming'[o] = new
      /\ \A p \in Orders : p # o => confirming'[p] = confirming[p]
  BY <1>2, <1>4
<1>6. TypeOK'
  BY <1>1, <1>5 DEF TypeOK, Checked
<1>7. DeliveredFits' /\ ConvertedOnce' /\ CutAsOffered'
  BY <1>1 DEF DeliveredFits, ConvertedOnce, CutAsOffered
<1>8. ConfirmingHolds'
  BY <1>1, <1>5 DEF ConfirmingHolds, NotConfirming
<1>9. \A p \in Orders : customer_exposure(p)' = customer_exposure(p) /\ order_value(p)' = order_value(p)
  BY <1>1 DEF customer_exposure, order_value, undelivered, Open
<1>10. GrantedFits'
  <2> SUFFICES ASSUME NEW p \in Orders, confirming'[p].step = "granted", confirming'[p].limit # Unlimited,
                      ~confirming'[p].credit_override, ~grown
               PROVE  customer_exposure(p) + order_value(p) <= confirming'[p].limit
    BY <1>1, <1>9 DEF GrantedFits
  <2>1. CASE p = o
    BY <1>4, <1>5, <2>1
  <2>2. CASE p # o
    BY <1>5, <2>2 DEF GrantedFits
  <2> QED BY <2>1, <2>2
<1>11. Kept
  BY <1>1 DEF Kept
<1> QED BY <1>6, <1>7, <1>8, <1>10, <1>11

LEMMA CommitKeeps ==
    ASSUME CommitmentInv, NEW o \in Orders, confirm_commit(o)
    PROVE  CommitmentInv' /\ Kept
<1> USE DEF CommitmentInv
<1>1. /\ order' = [order EXCEPT ![o].status = "confirmed"]
      /\ confirming' = [confirming EXCEPT ![o] = NotConfirming]
      /\ grown' = (grown \/ Underway(o)) /\ UNCHANGED << customer, quotation >>
      /\ confirming[o].step = "granted"
  BY DEF confirm_commit
<1>2. order \in [Orders -> Ordered] /\ confirming \in [Orders -> Checked] /\ NotConfirming \in Checked
  BY Typed DEF NotConfirming, Checked
<1>3. /\ order' \in [Orders -> Ordered] /\ order'[o] = [order[o] EXCEPT !.status = "confirmed"]
      /\ \A p \in Orders : p # o => order'[p] = order[p]
  BY <1>1, <1>2 DEF Ordered
<1>4. /\ confirming' \in [Orders -> Checked] /\ confirming'[o] = NotConfirming
      /\ \A p \in Orders : p # o => confirming'[p] = confirming[p]
  BY <1>1, <1>2
<1>5. TypeOK'
  BY <1>1, <1>3, <1>4 DEF TypeOK, Ordered, Checked, Underway
<1>6. order[o] \in Ordered
  BY <1>2
<1>7. /\ order'[o].delivered = order[o].delivered /\ order'[o].amount = order[o].amount
      /\ order'[o].status = "confirmed" /\ order'[o].cut = order[o].cut /\ order'[o].quotation = order[o].quotation
  BY <1>3, <1>6 DEF Ordered
<1>8. DeliveredFits'
  BY <1>3, <1>7 DEF DeliveredFits
<1>9. ConfirmingHolds'
  BY <1>3, <1>4 DEF ConfirmingHolds, NotConfirming
<1>10. GrantedFits'
  <2> SUFFICES ASSUME NEW p \in Orders, confirming'[p].step = "granted", ~grown' PROVE FALSE
    BY DEF GrantedFits
  <2> QED BY <1>1, <1>4 DEF NotConfirming, Underway
<1>11. ConvertedOnce' /\ CutAsOffered'
  BY <1>1, <1>3, <1>7 DEF ConvertedOnce, CutAsOffered
<1>12. Kept
  BY <1>1, <1>3 DEF Kept
<1> QED BY <1>5, <1>8, <1>9, <1>10, <1>11, <1>12

\* An offer is written: the orders cut from a converted one charge what it said.
LEMMA OfferWritten ==
    ASSUME CommitmentInv, NEW q \in Quotations, NEW new \in Offered, Offer(q, new),
           new.status # "converted" => new.converted_to = None,
           quotation[q].status = "converted" =>
             new.status = "converted" /\ new.converted_to = quotation[q].converted_to /\ new.amount = quotation[q].amount,
           quotation[q].status \notin {"none", "draft"} => new.status # "none" /\ new.amount = quotation[q].amount
    PROVE  CommitmentInv' /\ Kept
<1> USE DEF CommitmentInv
<1>1. quotation' = [quotation EXCEPT ![q] = new] /\ UNCHANGED << customer, order, confirming, grown >>
  BY DEF Offer
<1>2. /\ quotation' \in [Quotations -> Offered] /\ quotation'[q] = new
      /\ \A p \in Quotations : p # q => quotation'[p] = quotation[p]
  BY <1>1, Typed
<1>3. TypeOK'
  BY <1>1, <1>2 DEF TypeOK, Offered
<1>4. DeliveredFits' /\ ConfirmingHolds'
  BY <1>1 DEF DeliveredFits, ConfirmingHolds, NotConfirming
<1>5. GrantedFits'
  BY <1>1 DEF GrantedFits, customer_exposure, order_value, undelivered, Open
<1>6. ConvertedOnce'
  BY <1>2 DEF ConvertedOnce
<1>7. CutAsOffered'
  BY <1>1, <1>2 DEF CutAsOffered
<1>8. Kept
  BY <1>1, <1>2 DEF Kept, ConvertedOnce
<1> QED BY <1>3, <1>4, <1>5, <1>6, <1>7, <1>8

LEMMA QuotationKeeps ==
    ASSUME CommitmentInv, NEW q \in Quotations,
           \/ \E amount \in Amounts : create_quotation(q, amount) \/ update_quotation(q, amount)
           \/ delete_quotation(q) \/ send(q) \/ lapse(q) \/ accept(q) \/ decline(q)
    PROVE  CommitmentInv' /\ Kept
<1>1. quotation[q] \in Offered /\ (quotation[q].status # "converted" => quotation[q].converted_to = None)
  BY Typed DEF CommitmentInv, ConvertedOnce
<1>2. NoQuotation \in Offered /\ NoQuotation.converted_to = None /\ NoQuotation.status = "none"
  BY MaxQtyAssumption DEF NoQuotation, Offered, Qtys
<1>3. CASE \E amount \in Amounts : create_quotation(q, amount) \/ update_quotation(q, amount)
  <2>1. PICK amount \in Amounts : create_quotation(q, amount) \/ update_quotation(q, amount)
    BY <1>3
  <2>2. amount \in Qtys
    BY MaxQtyAssumption DEF Amounts, Qtys
  <2>3. CASE create_quotation(q, amount)
    <3> DEFINE new == [NoQuotation EXCEPT !.status = "draft", !.amount = amount]
    <3>1. new \in Offered /\ new.status = "draft" /\ new.converted_to = None
      BY <1>2, <2>2 DEF Offered
    <3>2. Offer(q, new) /\ quotation[q].status = "none"
      BY <2>3, <1>2 DEF create_quotation
    <3> QED BY <3>1, <3>2, OfferWritten
  <2>4. CASE update_quotation(q, amount)
    <3> DEFINE new == [quotation[q] EXCEPT !.amount = amount]
    <3>1. new \in Offered /\ new.status = quotation[q].status /\ new.converted_to = quotation[q].converted_to
      BY <1>1, <2>2 DEF Offered
    <3>2. Offer(q, new) /\ quotation[q].status = "draft"
      BY <2>4 DEF update_quotation
    <3> QED BY <1>1, <3>1, <3>2, OfferWritten
  <2> QED BY <2>1, <2>3, <2>4
<1>4. CASE delete_quotation(q)
  BY <1>2, <1>4, OfferWritten DEF delete_quotation
<1>5. CASE lapse(q)
  <2> DEFINE new == [quotation[q] EXCEPT !.stands = FALSE]
  <2>1. /\ new \in Offered /\ new.status = quotation[q].status
        /\ new.converted_to = quotation[q].converted_to /\ new.amount = quotation[q].amount
    BY <1>1 DEF Offered
  <2> QED BY <1>1, <1>5, <2>1, OfferWritten DEF lapse
<1>6. CASE send(q) \/ accept(q) \/ decline(q)
  <2>1. PICK status \in {"sent", "accepted", "expired", "declined"} :
          quotation[q].status # "converted" /\ Offer(q, [quotation[q] EXCEPT !.status = status])
    BY <1>6 DEF send, accept, decline
  <2> DEFINE new == [quotation[q] EXCEPT !.status = status]
  <2>2. /\ new \in Offered /\ new.status = status
        /\ new.converted_to = quotation[q].converted_to /\ new.amount = quotation[q].amount
    BY <1>1 DEF Offered
  <2> QED BY <1>1, <2>1, <2>2, OfferWritten
<1> QED BY <1>3, <1>4, <1>5, <1>6

\* The order of an accepted offer takes its amount, and is the only one.
LEMMA ConversionKeeps ==
    ASSUME CommitmentInv, NEW q \in Quotations, NEW o \in Orders, convert(q, o)
    PROVE  CommitmentInv' /\ Kept
<1> USE DEF CommitmentInv
<1> DEFINE new == [NoOrder EXCEPT !.status = "draft", !.amount = quotation[q].amount, !.quotation = q, !.cut = TRUE]
<1>1. /\ order' = [order EXCEPT ![o] = new] /\ order[o] = NoOrder /\ UNCHANGED << customer, confirming, grown >>
      /\ quotation' = [quotation EXCEPT ![q].status = "converted", ![q].converted_to = o]
      /\ quotation[q].status = "accepted"
  BY DEF convert
<1>2. quotation \in [Quotations -> Offered] /\ quotation[q] \in Offered /\ order \in [Orders -> Ordered]
  BY Typed
<1>3. quotation[q].amount \in Qtys
  BY <1>2 DEF Offered
<1>4. /\ new \in Ordered /\ new.status = "draft" /\ new.delivered = 0 /\ new.amount = quotation[q].amount
      /\ new.quotation = q /\ new.cut
  <2>1. NoOrder \in Ordered /\ NoOrder.delivered = 0
    BY MaxQtyAssumption DEF NoOrder, Ordered, Qtys
  <2> QED BY <1>3, <2>1 DEF Ordered
<1>5. order' \in [Orders -> Ordered] /\ order'[o] = new /\ \A p \in Orders : p # o => order'[p] = order[p]
  BY <1>1, <1>2, <1>4
<1> HIDE DEF new
<1>6. quotation' = [quotation EXCEPT ![q] = [quotation[q] EXCEPT !.status = "converted", !.converted_to = o]]
  BY <1>1, <1>2
<1>7. [quotation[q] EXCEPT !.status = "converted", !.converted_to = o] \in Offered
  BY <1>2 DEF Offered
<1>8. quotation' \in [Quotations -> Offered] /\ \A p \in Quotations : p # q => quotation'[p] = quotation[p]
  BY <1>2, <1>6, <1>7
<1>9. /\ quotation'[q].status = "converted" /\ quotation'[q].converted_to = o
      /\ quotation'[q].amount = quotation[q].amount
  BY <1>2, <1>6 DEF Offered
<1>10. TypeOK'
  BY <1>1, <1>5, <1>8 DEF TypeOK, Offered, Ordered
<1>11. DeliveredFits'
  <2>1. new.delivered <= new.amount
    BY <1>3, <1>4, MaxQtyAssumption DEF Qtys
  <2> QED BY <1>4, <1>5, <2>1 DEF DeliveredFits
<1>12. ConfirmingHolds'
  BY <1>1, <1>4, <1>5 DEF ConfirmingHolds, NotConfirming
<1>13. confirming[o] = NotConfirming
  BY <1>1 DEF ConfirmingHolds, NoOrder
<1>14. GrantedFits'
  <2> SUFFICES ASSUME NEW p \in Orders, confirming[p].step = "granted", confirming[p].limit # Unlimited,
                      ~confirming[p].credit_override, ~grown
               PROVE  customer_exposure(p)' + order_value(p)' <= confirming[p].limit
    BY <1>1 DEF GrantedFits
  <2>1. p # o /\ order'[p] = order[p]
    BY <1>5, <1>13 DEF NotConfirming
  <2>2. Open' = Open /\ \A k \in Open : undelivered'[k] = undelivered[k]
    BY <1>1, <1>4, <1>5 DEF Open, Deliverable, undelivered, NoOrder
  <2>3. customer_exposure(p)' = customer_exposure(p)
    BY <2>2, SumSame DEF customer_exposure
  <2> QED BY <2>1, <2>3 DEF GrantedFits, order_value
<1>15. ConvertedOnce'
  BY <1>8, <1>9 DEF ConvertedOnce
<1>16. CutAsOffered'
  <2> SUFFICES ASSUME NEW p \in Orders, order'[p].cut
               PROVE  LET r == order'[p].quotation IN
                      /\ r \in Quotations /\ quotation'[r].status = "converted"
                      /\ quotation'[r].converted_to = p /\ quotation'[r].amount = order'[p].amount
    BY DEF CutAsOffered
  <2>1. CASE p = o
    BY <1>4, <1>5, <1>9, <2>1
  <2>2. CASE p # o
    BY <1>1, <1>5, <1>8, <2>2 DEF CutAsOffered
  <2> QED BY <2>1, <2>2
<1>17. Kept
  <2>1. quotation[q].converted_to = None
    BY <1>1 DEF ConvertedOnce
  <2> QED BY <1>1, <1>4, <1>5, <1>8, <1>9, <2>1 DEF Kept
<1> QED BY <1>10, <1>11, <1>12, <1>14, <1>15, <1>16, <1>17

LEMMA CustomerKeeps == CommitmentInv /\ CustomerStep => CommitmentInv' /\ Kept
<1> SUFFICES ASSUME CommitmentInv, CustomerStep PROVE CommitmentInv' /\ Kept
  OBVIOUS
<1> USE DEF CommitmentInv
<1>1. UNCHANGED << quotation, order, confirming, grown >>
  BY DEF CustomerStep, delete_customer, set_customer
<1>2. customer' \in [exists : BOOLEAN, open : BOOLEAN, limit : Limits]
  BY DEF CustomerStep, delete_customer, set_customer, TypeOK
<1>3. TypeOK'
  BY <1>1, <1>2 DEF TypeOK
<1>4. DeliveredFits' /\ ConfirmingHolds' /\ ConvertedOnce' /\ CutAsOffered'
  BY <1>1 DEF DeliveredFits, ConfirmingHolds, NotConfirming, ConvertedOnce, CutAsOffered
<1>5. GrantedFits'
  BY <1>1 DEF GrantedFits, customer_exposure, order_value, undelivered, Open
<1>6. Kept
  BY <1>1 DEF Kept
<1> QED BY <1>3, <1>4, <1>5, <1>6

LEMMA CommitmentStep == CommitmentInv /\ [Next]_vars => CommitmentInv' /\ Kept
<1> SUFFICES ASSUME CommitmentInv, [Next]_vars PROVE CommitmentInv' /\ Kept
  OBVIOUS
<1>1. CASE UNCHANGED vars
  BY <1>1 DEF vars, CommitmentInv, TypeOK, DeliveredFits, ConfirmingHolds, NotConfirming, ConvertedOnce,
              CutAsOffered, GrantedFits, customer_exposure, order_value, undelivered, Open, Kept
<1>2. CASE QuotationStep
  BY <1>2, QuotationKeeps, ConversionKeeps DEF QuotationStep
<1>3. CASE OrderStep
  <2>1. PICK o \in Orders :
          \/ \E amount \in Amounts : \E discount \in 0..(amount - 1) :
               create_order(o, amount, discount) \/ update_order(o, amount, discount)
          \/ delete_order(o) \/ cancel(o) \/ close(o)
          \/ \E credit_override \in BOOLEAN : confirm_begin(o, credit_override)
          \/ confirm_check(o) \/ confirm_commit(o)
          \/ \E amount \in Amounts : deliver(o, amount) \/ return(o, amount)
    BY <1>3 DEF OrderStep
  <2> QED BY <2>1, OrderDeskKeeps, ConfirmationKeeps, CommitKeeps
<1> QED BY <1>1, <1>2, <1>3, CustomerKeeps DEF Next

LEMMA CommitmentInvariant == MCSpec => []CommitmentInv
<1>1. MCInit => CommitmentInv
  BY CommitmentInit DEF MCInit
<1>2. CommitmentInv /\ [MCNext]_<< side, vars, sourcing, resolution, lists >> => CommitmentInv'
  BY CommitmentStep DEF MCNext
<1> QED BY <1>1, <1>2, PTL DEF MCSpec

LEMMA ListInvariant == MCSpec => []ListInv
<1>1. MCInit => ListInv
  BY ListInit DEF MCInit
<1>2. ListInv /\ [MCNext]_<< side, vars, sourcing, resolution, lists >> => ListInv'
  BY ListStep DEF MCNext
<1> QED BY <1>1, <1>2, PTL DEF MCSpec

----------------------------------------------------------------------------
(* Prices.  One line of a list is the best for a query, and the chain has the  *)
(* lists within reach in the order of the rule.                                *)

LEMMA PricedCardinality == \A T : P!Cardinality(T) = Cardinality(T)
BY Zenon DEF P!Cardinality, Cardinality

PricesTyped ==
    /\ prices \in [PricedLists -> P!List]
    /\ own \in PricedLists \cup {None}
    /\ group \in PricedLists \cup {None}

Live == { l \in PricedLists : prices[l].scope = "default" /\ prices[l].status = "active" }

\* The defaults are all lists for everyone, in order.
LEMMA DefaultsInOrder ==
    ASSUME PricesTyped
    PROVE  /\ Cardinality(Live) \in Nat
           /\ P!defaults \in [1..Cardinality(Live) -> Live]
           /\ \A i, j \in 1..Cardinality(Live) : i < j => P!Fresher(P!defaults[i], P!defaults[j])
           /\ \A l \in Live : \E i \in 1..Cardinality(Live) : P!defaults[i] = l
<1> DEFINE R == { x \in Live \X Live : P!Fresher(x[1], x[2]) }
<1>1. IsFiniteSet(Live)
  BY PricingAssumption, FS_Subset DEF Live
<1>2. /\ Live \subseteq Nat
      /\ \A l \in Live : prices[l].is_promotional \in BOOLEAN
  BY PricingAssumption DEF PricesTyped, P!List, Live
<1>3. \A a, b \in Live : << a, b >> \in R <=> P!Fresher(a, b)
  OBVIOUS
<1>4. \A a, b \in Live : a # b => P!Fresher(a, b) \/ P!Fresher(b, a)
  BY <1>2 DEF P!Fresher
<1>5. \A a, b, c \in Live : P!Fresher(a, b) /\ P!Fresher(b, c) => P!Fresher(a, c)
  BY <1>2 DEF P!Fresher
<1>6. \A a \in Live : ~P!Fresher(a, a)
  BY <1>2 DEF P!Fresher
<1>7. Ranks(R, Live)
  <2> HIDE DEF R
  <2> QED BY <1>3, <1>4, <1>5 DEF Ranks
<1>8. PICK s \in [1..Cardinality(Live) -> Live] :
          \A i, j \in 1..Cardinality(Live) : i < j => << s[i], s[j] >> \in R
  <2> HIDE DEF R
  <2> QED BY <1>1, <1>7, RowOfRanked
<1> HIDE DEF R
<1>9. \A i, j \in 1..Cardinality(Live) : i < j => P!Fresher(s[i], s[j])
  BY <1>3, <1>8
<1>10. P!defaults = CHOOSE r \in [1..Cardinality(Live) -> Live] :
                        \A i, j \in DOMAIN r : i < j => P!Fresher(r[i], r[j])
  BY PricedCardinality DEF P!defaults, P!Ranked, Live
<1>11. /\ P!defaults \in [1..Cardinality(Live) -> Live]
       /\ \A i, j \in DOMAIN P!defaults : i < j => P!Fresher(P!defaults[i], P!defaults[j])
  <2>1. \E r \in [1..Cardinality(Live) -> Live] : \A i, j \in DOMAIN r : i < j => P!Fresher(r[i], r[j])
    BY <1>9
  <2> QED BY <1>10, <2>1
<1>12. \A i, j \in 1..Cardinality(Live) : i < j => P!Fresher(P!defaults[i], P!defaults[j])
  BY <1>11
<1>13. \A i, j \in 1..Cardinality(Live) : i < j => P!defaults[i] # P!defaults[j]
  BY <1>6, <1>11, <1>12
<1>14. Cardinality(Live) \in Nat
  BY <1>1, FS_CardinalityType
<1>15. \A l \in Live : \E i \in 1..Cardinality(Live) : P!defaults[i] = l
  BY <1>1, <1>11, <1>13, RowsCover
<1> QED BY <1>11, <1>12, <1>14, <1>15

\* One line of a list is the best for a query, and prices it.
LEMMA OneBestLine ==
    ASSUME PricesTyped, NEW l \in PricedLists, NEW q, P!Eligible(l, q) # {}
    PROVE  \E m : P!Line(l, q) = {m} /\ P!best_line(l, q) = P!Priced(m)
<1> DEFINE E == P!Eligible(l, q)
           R == { x \in E \X E : P!Better(x[1], x[2]) }
<1>1. /\ IsFiniteSet(E)
      /\ \A a \in E : a.min_qty \in Int /\ a.uom \in {None, q.uom}
      /\ \A a, b \in E : a.uom = b.uom /\ a.min_qty = b.min_qty => a = b
  <2>1. prices[l].lines \in LineSets
    BY DEF PricesTyped, P!List
  <2>2. E \subseteq prices[l].lines
    BY DEF P!Eligible
  <2>3. \A a \in E : a.uom \in {None, q.uom}
    BY DEF P!Eligible
  <2> HIDE DEF E
  <2> QED BY <2>1, <2>2, <2>3, PricingAssumption, FS_Subset
<1> HIDE DEF E
<1>2. \A a, b \in E : << a, b >> \in R <=> P!Better(a, b)
  OBVIOUS
<1>3. \A a, b \in E : a # b => P!Better(a, b) \/ P!Better(b, a)
  BY <1>1 DEF P!Better
<1>4. \A a, b, c \in E : P!Better(a, b) /\ P!Better(b, c) => P!Better(a, c)
  BY <1>1 DEF P!Better
<1>5. \A a, b \in E : ~(P!Better(a, b) /\ P!Better(b, a))
  BY <1>1 DEF P!Better
<1>6. Ranks(R, E)
  <2> HIDE DEF R
  <2> QED BY <1>2, <1>3, <1>4 DEF Ranks
<1>7. PICK s \in [1..Cardinality(E) -> E] : \A i, j \in 1..Cardinality(E) : i < j => << s[i], s[j] >> \in R
  <2> HIDE DEF R
  <2> QED BY <1>1, <1>6, RowOfRanked
<1> HIDE DEF R
<1> DEFINE r == CHOOSE t \in [1..Cardinality(E) -> E] : \A i, j \in DOMAIN t : i < j => P!Better(t[i], t[j])
<1>8. /\ r \in [1..Cardinality(E) -> E]
      /\ \A i, j \in DOMAIN r : i < j => P!Better(r[i], r[j])
  <2>1. \E t \in [1..Cardinality(E) -> E] : \A i, j \in DOMAIN t : i < j => P!Better(t[i], t[j])
    BY <1>2, <1>7
  <2> QED BY <2>1
<1>9. P!best_line(l, q) = P!Priced(r[1])
  BY PricedCardinality DEF P!best_line, P!Ranked, E
<1> HIDE DEF r
<1>10. \A i, j \in 1..Cardinality(E) : i < j => r[i] # r[j]
  BY <1>5, <1>8
<1>11. \A a \in E : \E i \in 1..Cardinality(E) : r[i] = a
  <2>1. IsFiniteSet(E) /\ r \in [1..Cardinality(E) -> E]
    BY <1>1, <1>8
  <2> QED BY <1>10, <2>1, RowsCover
<1>12. Cardinality(E) \in Nat /\ Cardinality(E) > 0
  <2>1. E # {}
    BY DEF E
  <2> QED BY <1>1, <2>1, FS_CardinalityType, FS_EmptySet
<1>13. r[1] \in E /\ \A a \in E : a # r[1] => P!Better(r[1], a)
  <2>1. 1 \in 1..Cardinality(E) /\ \A i \in 1..Cardinality(E) : i # 1 => 1 < i
    BY <1>12
  <2> QED BY <1>8, <1>11, <2>1
<1>14. P!Line(l, q) = { a \in E : \A b \in E : ~P!Better(b, a) }
  BY DEF P!Line, E
<1>15. P!Line(l, q) = { r[1] }
  BY <1>5, <1>13, <1>14
<1> QED BY <1>9, <1>15

\* The rule's notion of a list that covers a query is the one of the search.
LEMMA CoversIs ==
    ASSUME PricesTyped, NEW l \in PricedLists, NEW q
    PROVE  /\ P!Covers(l, q) <=> P!list_matches(l, q) /\ P!best_line(l, q) # None
           /\ P!best_line(l, q) # None => \E line \in P!Line(l, q) : P!best_line(l, q) = P!Priced(line)
<1>1. CASE P!Eligible(l, q) = {}
  <2>1. P!best_line(l, q) = None
    BY <1>1 DEF P!best_line
  <2>2. P!Line(l, q) = {}
    BY <1>1 DEF P!Line
  <2> QED BY <2>1, <2>2 DEF P!Covers
<1>2. CASE P!Eligible(l, q) # {}
  <2>1. PICK m : P!Line(l, q) = {m} /\ P!best_line(l, q) = P!Priced(m)
    BY <1>2, OneBestLine
  <2> QED BY <2>1 DEF P!Covers, P!list_matches
<1> QED BY <1>1, <1>2

\* The chain tries the lists within reach only, and no list before a closer one
\* that is live.
LEMMA ChainInOrder ==
    ASSUME PricesTyped
    PROVE  /\ \A i \in DOMAIN P!candidates : i \in Nat /\ P!candidates[i] \in P!Reach
           /\ \A l \in P!Reach : prices[l].status = "active" =>
                \E i \in DOMAIN P!candidates :
                    /\ P!candidates[i] = l
                    /\ \A k \in DOMAIN P!candidates : k < i => ~P!Closer(l, P!candidates[k])
           /\ \A l \in P!Reach : ~P!Closer(l, l)
<1> DEFINE n == Cardinality(Live)
           d == P!defaults
<1>1. /\ n \in Nat
      /\ d \in [1..n -> Live]
      /\ \A i, j \in 1..n : i < j => P!Fresher(d[i], d[j])
      /\ \A l \in Live : \E i \in 1..n : d[i] = l
  BY DefaultsInOrder
<1> DEFINE c == P!candidates
           a == P!Pointer(own)
           b == P!Pointer(group)
           x == Len(a)
           y == Len(b)
<1>2. /\ a = IF own = None THEN << >> ELSE << own >>
      /\ b = IF group = None THEN << >> ELSE << group >>
      /\ c = (a \o b) \o d
  BY DEF P!Pointer, P!candidates
<1> HIDE DEF n, d, c, a, b
<1>3. /\ x \in 0..1 /\ y \in 0..1
      /\ x = 0 <=> own = None
      /\ y = 0 <=> group = None
      /\ DOMAIN c = 1..(x + y + n)
      /\ x = 1 => c[1] = own
      /\ y = 1 => c[x + 1] = group
      /\ \A i \in 1..n : c[x + y + i] = d[i]
  <2>1. d \in Seq(Live) /\ Len(d) = n
    BY <1>1
  <2>2. own = None \/ own # None
    OBVIOUS
  <2>3. a \in Seq(PricedLists) /\ b \in Seq(PricedLists)
    BY <1>2 DEF PricesTyped
  <2>4. /\ own = None => Len(a) = 0
        /\ own # None => Len(a) = 1 /\ a[1] = own
        /\ group = None => Len(b) = 0
        /\ group # None => Len(b) = 1 /\ b[1] = group
    BY <1>2
  <2>5. /\ (a \o b) \in Seq(PricedLists) /\ Len(a \o b) = Len(a) + Len(b)
        /\ \A i \in 1..Len(a) : (a \o b)[i] = a[i]
        /\ \A i \in 1..Len(b) : (a \o b)[Len(a) + i] = b[i]
    BY <2>3
  <2>6. d \in Seq(PricedLists)
    BY <1>1 DEF Live
  <2>7. /\ DOMAIN c = 1..(Len(a \o b) + n)
        /\ \A i \in 1..Len(a \o b) : c[i] = (a \o b)[i]
        /\ \A i \in 1..n : c[Len(a \o b) + i] = d[i]
    BY <1>2, <2>1, <2>5, <2>6, <1>1
  <2>8. Len(a) \in 0..1 /\ Len(b) \in 0..1
    BY <2>4
  <2>9. DOMAIN c = 1..(Len(a) + Len(b) + n) /\ \A i \in 1..n : c[Len(a) + Len(b) + i] = d[i]
    BY <2>5, <2>7
  <2>10. Len(a) = 1 => c[1] = own
    <3> SUFFICES ASSUME Len(a) = 1 PROVE c[1] = own
      OBVIOUS
    <3>1. 1 \in 1..Len(a) /\ 1 \in 1..Len(a \o b) /\ a[1] = own
      BY <2>4, <2>5, <2>8
    <3> QED BY <2>5, <2>7, <3>1
  <2>11. Len(b) = 1 => c[Len(a) + 1] = group
    <3> SUFFICES ASSUME Len(b) = 1 PROVE c[Len(a) + 1] = group
      OBVIOUS
    <3>1. 1 \in 1..Len(b) /\ Len(a) + 1 \in 1..Len(a \o b) /\ b[1] = group
      BY <2>4, <2>5, <2>8
    <3> QED BY <2>5, <2>7, <3>1
  <2>12. (Len(a) = 0 <=> own = None) /\ (Len(b) = 0 <=> group = None)
    BY <2>4
  <2> QED BY <2>8, <2>9, <2>10, <2>11, <2>12
<1> HIDE DEF x, y
<1>4. \A l \in PricedLists : l \in Nat /\ l # None /\ prices[l].is_promotional \in BOOLEAN
  BY PricingAssumption DEF PricesTyped, P!List
<1>5. \A i \in DOMAIN c : \/ x = 1 /\ i = 1
                          \/ y = 1 /\ i = x + 1
                          \/ i - (x + y) \in 1..n /\ c[i] = d[i - (x + y)]
  <2> SUFFICES ASSUME NEW i \in DOMAIN c
               PROVE  \/ x = 1 /\ i = 1
                      \/ y = 1 /\ i = x + 1
                      \/ i - (x + y) \in 1..n /\ c[i] = d[i - (x + y)]
    OBVIOUS
  <2>1. i \in Int /\ n \in Int /\ 1 <= i /\ i <= x + y + n
    BY <1>1, <1>3
  <2>2. CASE i <= x + y
    BY <1>3, <2>1, <2>2
  <2>3. CASE i > x + y
    <3>1. i - (x + y) \in 1..n /\ x + y + (i - (x + y)) = i
      BY <1>3, <2>1, <2>3
    <3>2. c[x + y + (i - (x + y))] = d[i - (x + y)]
      BY <1>3, <3>1
    <3> QED BY <3>1, <3>2
  <2> QED BY <1>3, <2>1, <2>2, <2>3
<1>6. \A i \in DOMAIN c : i \in Nat /\ c[i] \in P!Reach
  <2> SUFFICES ASSUME NEW i \in DOMAIN c PROVE i \in Nat /\ c[i] \in P!Reach
    OBVIOUS
  <2>1. i \in Nat
    BY <1>1, <1>3
  <2>2. own # None => own \in P!Reach
    BY DEF PricesTyped, P!Reach
  <2>3. group # None => group \in P!Reach
    BY DEF PricesTyped, P!Reach
  <2>4. \A l \in Live : l \in P!Reach
    BY DEF P!Reach, Live
  <2>5. CASE x = 1 /\ i = 1
    BY <1>3, <2>1, <2>2, <2>5
  <2>6. CASE y = 1 /\ i = x + 1
    BY <1>3, <2>1, <2>3, <2>6
  <2>7. CASE i - (x + y) \in 1..n /\ c[i] = d[i - (x + y)]
    BY <1>1, <2>1, <2>4, <2>7
  <2> QED BY <1>5, <2>5, <2>6, <2>7
<1>7. P!Reach \subseteq PricedLists
  BY DEF P!Reach
<1>8. \A l, m \in PricedLists :
        P!Closer(l, m) <=> IF l = own THEN m # own
                           ELSE IF l = group THEN m \notin {own, group}
                           ELSE m \notin {own, group} /\ P!Fresher(l, m)
  BY <1>4 DEF P!Closer, P!Rank, P!Fresher
<1>9. \A l, m \in Live : P!Fresher(l, m) => ~P!Fresher(m, l)
  BY <1>4 DEF P!Fresher, Live
<1>10. \A l \in PricedLists : ~P!Fresher(l, l)
  BY <1>4 DEF P!Fresher
<1>11. ASSUME NEW l \in P!Reach, prices[l].status = "active"
       PROVE  \E i \in DOMAIN c : c[i] = l /\ \A k \in DOMAIN c : k < i => ~P!Closer(l, c[k])
  <2>0. l \in PricedLists /\ l # None /\ \A k \in DOMAIN c : c[k] \in PricedLists
    BY <1>4, <1>6, <1>7
  <2>1. CASE l = own
    <3>1. x = 1 /\ 1 \in DOMAIN c /\ c[1] = l /\ \A k \in DOMAIN c : ~(k < 1)
      BY <1>1, <1>3, <2>0, <2>1
    <3> QED BY <3>1
  <2>2. CASE l # own /\ l = group
    <3>1. y = 1 /\ x + 1 \in DOMAIN c /\ c[x + 1] = l
      BY <1>1, <1>3, <2>0, <2>2
    <3>2. \A k \in DOMAIN c : k < x + 1 => c[k] = own
      BY <1>1, <1>3
    <3> QED BY <1>8, <2>0, <2>2, <3>1, <3>2
  <2>3. CASE l \notin {own, group}
    <3>1. l \in Live
      BY <1>11, <2>0, <2>3 DEF P!Reach, Live
    <3>2. PICK i \in 1..n : d[i] = l
      BY <1>1, <3>1
    <3>3. x + y + i \in DOMAIN c /\ c[x + y + i] = l
      BY <1>1, <1>3, <3>2
    <3>4. ASSUME NEW k \in DOMAIN c, k < x + y + i PROVE ~P!Closer(l, c[k])
      <4>1. c[k] \in {own, group} \/ (k - (x + y) \in 1..n /\ c[k] = d[k - (x + y)] /\ k - (x + y) < i)
        <5>1. CASE x = 1 /\ k = 1
          BY <1>3, <5>1
        <5>2. CASE y = 1 /\ k = x + 1
          BY <1>3, <5>2
        <5>3. CASE k - (x + y) \in 1..n /\ c[k] = d[k - (x + y)]
          <6>1. k \in Int /\ x \in Int /\ y \in Int /\ i \in Int
            BY <1>1, <1>3, <3>4
          <6>2. k - (x + y) < i
            BY <3>4, <6>1
          <6> QED BY <5>3, <6>2
        <5> QED BY <1>5, <5>1, <5>2, <5>3
      <4>2. CASE c[k] \in {own, group}
        BY <1>8, <2>0, <2>3, <4>2
      <4>3. CASE k - (x + y) \in 1..n /\ c[k] = d[k - (x + y)] /\ k - (x + y) < i
        <5>1. P!Fresher(c[k], l) /\ c[k] \in Live
          BY <1>1, <3>2, <4>3
        <5>2. ~P!Fresher(l, c[k])
          BY <1>9, <3>1, <5>1
        <5> QED BY <1>8, <2>0, <2>3, <5>2
      <4> QED BY <4>1, <4>2, <4>3
    <3> QED BY <3>3, <3>4
  <2> QED BY <2>1, <2>2, <2>3
<1>12. \A l \in P!Reach : ~P!Closer(l, l)
  BY <1>7, <1>8, <1>10
<1> QED BY <1>6, <1>11, <1>12 DEF c

\* The answer of the search is the one the rule asks for.
LEMMA SearchFollowsRule == ASSUME PricesTyped PROVE P!ResolvesByTheRule
<1> SUFFICES ASSUME asked # None
             PROVE  LET answer == P!resolve(asked)
                        covering == { l \in P!Reach : P!Covers(l, asked) } IN
                    IF covering = {} THEN answer = [price |-> selling_price, source |-> None]
                    ELSE /\ answer.source \in covering
                         /\ \A l \in covering : ~P!Closer(l, answer.source)
                         /\ \E line \in P!Line(answer.source, asked) : answer.price = P!Priced(line)
  BY DEF P!ResolvesByTheRule
<1> DEFINE covering == { l \in P!Reach : P!Covers(l, asked) }
           c == P!candidates
           matching == { i \in DOMAIN c : P!list_matches(c[i], asked) /\ P!best_line(c[i], asked) # None }
           first == c[P!Min(matching)]
<1>1. P!resolve(asked) = IF matching = {} THEN [price |-> selling_price, source |-> None]
                         ELSE [price |-> P!best_line(first, asked), source |-> first]
  BY DEF P!resolve
<1>2. /\ \A i \in DOMAIN c : i \in Nat /\ c[i] \in P!Reach
      /\ \A l \in P!Reach : prices[l].status = "active" =>
            \E i \in DOMAIN c : c[i] = l /\ \A k \in DOMAIN c : k < i => ~P!Closer(l, c[k])
      /\ \A l \in P!Reach : ~P!Closer(l, l)
  BY ChainInOrder
<1>3. P!Reach \subseteq PricedLists
  BY DEF P!Reach
<1> HIDE DEF c
<1>4. \A i \in DOMAIN c : i \in matching <=> c[i] \in covering
  BY <1>2, <1>3, CoversIs
<1>5. \A l \in covering : l \in P!Reach /\ prices[l].status = "active"
  BY DEF P!Covers
<1>6. \A l \in covering : \E i \in matching : c[i] = l /\ \A k \in DOMAIN c : k < i => ~P!Closer(l, c[k])
  <2> HIDE DEF matching, covering
  <2> QED BY <1>2, <1>4, <1>5
<1>7. CASE covering = {}
  <2>1. matching = {}
    BY <1>4, <1>7
  <2> QED BY <1>1, <1>7, <2>1
<1>8. CASE covering # {}
  <2>1. matching # {} /\ matching \subseteq Nat /\ matching \subseteq DOMAIN c
    BY <1>2, <1>6, <1>8
  <2>2. PICK m \in matching : \A k \in matching : m <= k
    BY <2>1, LeastNumber
  <2>3. P!Min(matching) \in matching /\ \A k \in matching : P!Min(matching) <= k
    <3>1. P!Min(matching) = CHOOSE k \in matching : \A j \in matching : k <= j
      BY DEF P!Min
    <3> HIDE DEF matching
    <3> QED BY <2>2, <3>1
  <2>4. first \in covering
    BY <1>4, <2>1, <2>3
  <2>5. ASSUME NEW l \in covering PROVE ~P!Closer(l, first)
    <3>1. PICK i \in matching : c[i] = l /\ \A k \in DOMAIN c : k < i => ~P!Closer(l, c[k])
      BY <1>6, <2>5
    <3>2. P!Min(matching) \in Nat /\ i \in Nat /\ P!Min(matching) <= i
      BY <2>1, <2>3
    <3>3. CASE P!Min(matching) = i
      BY <1>2, <1>5, <3>1, <3>3
    <3>4. CASE P!Min(matching) < i
      BY <2>1, <2>3, <3>1, <3>4
    <3> QED BY <3>2, <3>3, <3>4
  <2>6. \E line \in P!Line(first, asked) : P!best_line(first, asked) = P!Priced(line)
    <3>1. first \in PricedLists /\ P!best_line(first, asked) # None
      BY <1>3, <1>5, <2>3, <2>4
    <3> HIDE DEF first
    <3> QED BY <3>1, CoversIs
  <2>7. matching # {}
    BY <2>1
  <2>8. P!resolve(asked) = [price |-> P!best_line(first, asked), source |-> first]
    BY <1>1, <2>7
  <2> DEFINE answer == P!resolve(asked)
  <2>9. answer.source = first /\ answer.price = P!best_line(first, asked)
    BY <2>8
  <2> HIDE DEF first, matching, covering, answer
  <2>10. /\ answer.source \in covering
         /\ \A l \in covering : ~P!Closer(l, answer.source)
         /\ \E line \in P!Line(answer.source, asked) : answer.price = P!Priced(line)
    BY <2>4, <2>5, <2>6, <2>9
  <2> QED BY <1>8, <2>10 DEF answer, covering
<1> HIDE DEF matching, covering
<1> QED BY <1>7, <1>8 DEF covering

PricesInv ==
    IF side = "resolution" THEN PricesTyped ELSE asked = None

----------------------------------------------------------------------------
(* What is promised.                                                        *)

\* However conversions, awards, cancellations, deletions and crashes interleave,
\* a claimed order exists and was drafted for what claims it, and the draft of a
\* request that lost the race is claimed or gone unless the process died.
THEOREM OrdersStayClaimed == MCSpec => []OrdersAreClaimed
<1>1. SourcingInv => S!TypeOK /\ ClaimsHold /\ DraftsAreClaimed
  BY DEF SourcingInv, ClaimsHold, DraftsAreClaimed, S!ClaimsHold, ClaimsExplained
<1>2. SourcingInv /\ CommitmentInv => OrdersAreClaimed
  BY <1>1 DEF OrdersAreClaimed, CommitmentInv
<1> QED BY <1>2, SourcingInvariant, CommitmentInvariant, PTL

\* An order confirmed without an override fits the limit its confirmation has
\* read at the moment it commits, whatever is delivered, cancelled, closed and
\* edited in between, unless what the customer is committed to grew.
THEOREM CreditIsHeld == MCSpec => CreditHeld
<1> DEFINE Fits == \A o \in Orders :
        /\ order[o].status = "draft" /\ order'[o].status = "confirmed"
        /\ confirming[o].limit # Unlimited /\ ~confirming[o].credit_override /\ ~grown
        => customer_exposure(o) + order_value(o) <= confirming[o].limit
<1>1. CommitmentInv /\ Kept => Fits
  BY DEF CommitmentInv, Kept, GrantedFits
<1>2. CommitmentInv /\ [MCNext]_<< side, vars, sourcing, resolution, lists >> => [Fits]_vars
  BY <1>1, CommitmentStep DEF MCNext
<1> QED BY <1>2, CommitmentInvariant, PTL DEF MCSpec, CreditHeld

\* A converted requisition and an awarded request keep their order and an offer
\* its amount and its one order, whatever the requests that race for them do.  A
\* price list, which no lock protects, keeps what it was activated and archived
\* with against every request but one that read it before and writes after.
THEOREM DecisionsAreFinal == MCSpec => DecisionsStand
<1> DEFINE Sticks == /\ \A r \in Requisitions : requisition[r].status = "converted" => requisition'[r] = requisition[r]
                     /\ \A q \in Rfqs : rfq[q].status = "awarded" => rfq'[q] = rfq[q]
           Stands == /\ \A q \in Quotations : quotation[q].status \notin {"none", "draft"} =>
                          /\ quotation'[q].status # "none" /\ quotation'[q].amount = quotation[q].amount
                          /\ quotation[q].converted_to # None => quotation'[q].converted_to = quotation[q].converted_to
                     /\ \A o \in Orders : order'[o].cut =>
                          LET q == order'[o].quotation IN
                          quotation'[q].converted_to = o /\ quotation'[q].amount = order'[o].amount
           AllRest == \A l \in Lists :
                        \/ /\ list[l].status = "active" =>
                                list'[l].status \in {"active", "archived"} /\ list'[l].scope = list[l].scope
                           /\ list[l].status = "archived" => list'[l] = list[l]
                        \/ L!WrittenOutdated(l)
<1>1. SourcingInv /\ [MCNext]_<< side, vars, sourcing, resolution, lists >> => [Sticks]_S!vars
  BY ClaimsStickStep DEF MCNext, sourcing, S!vars
<1>2. CommitmentInv' /\ Kept => Stands
  BY DEF CommitmentInv, CutAsOffered, Kept
<1>3. CommitmentInv /\ CommitmentInv' /\ [MCNext]_<< side, vars, sourcing, resolution, lists >> => [Stands]_vars
  BY <1>2, CommitmentStep DEF MCNext
<1>4. ListInv /\ [MCNext]_<< side, vars, sourcing, resolution, lists >> => [AllRest]_L!vars
  BY ListStep DEF MCNext, lists, L!vars, Rests
<1> QED BY <1>1, <1>3, <1>4, SourcingInvariant, CommitmentInvariant, ListInvariant, PTL
        DEF MCSpec, DecisionsStand, ClaimsStick, S!ClaimsStick, OffersStand, RetiredListsRest, L!RetiredListsRest

\* The answer to a query is the price of the closest list that covers it, and
\* names that list (PricingService::resolve).
THEOREM PricesFollowTheRule == MCSpec => []ResolvesByTheRule
<1>1. MCInit => PricesInv
  BY DEF MCInit, PricesInv, PricesTyped, P!Init
<1>2. PricesInv /\ [MCNext]_<< side, vars, sourcing, resolution, lists >> => PricesInv'
  <2> SUFFICES ASSUME PricesInv, [MCNext]_<< side, vars, sourcing, resolution, lists >> PROVE PricesInv'
    OBVIOUS
  <2>1. CASE UNCHANGED << side, resolution >>
    BY <2>1 DEF PricesInv, PricesTyped, resolution, P!List
  <2>2. CASE side = "resolution" /\ UNCHANGED side /\ P!Next
    BY <2>2 DEF P!Next, P!ask, PricesInv, PricesTyped, P!List
  <2> QED BY <2>1, <2>2 DEF MCNext, resolution
<1>3. PricesInv => ResolvesByTheRule
  <2>1. asked = None => ResolvesByTheRule
    BY DEF ResolvesByTheRule, P!ResolvesByTheRule
  <2>2. PricesTyped => ResolvesByTheRule
    BY SearchFollowsRule DEF ResolvesByTheRule
  <2> QED BY <2>1, <2>2 DEF PricesInv
<1> QED BY <1>1, <1>2, <1>3, PTL DEF MCSpec
=============================================================================
