--------------------------- MODULE PriceResolution ---------------------------
(***************************************************************************)
(* "What does this item cost this customer today, and why?"                *)
(* (crates/nebula-apps/src/scm/sales/pricing.rs, PricingService): the      *)
(* chain of price lists that answers a query for one item, checked against *)
(* the rule that the chain is meant to follow.                             *)
(***************************************************************************)
EXTENDS Integers, Sequences, FiniteSets, FiniteSetsExt

CONSTANTS
    Lists,          \* price lists, numbered in the order of their creation
    LineSets,       \* what a list may say about the item: sets of lines
    Queries,        \* [qty, uom, currency, date]
    Currency,       \* the currency of every list
    Window,         \* the dates every list covers
    Prices,         \* the default selling prices of the item
    None

VARIABLES
    list,           \* list[l]: a list that prices documents, or does not (yet, or any more)
    own,            \* the list of the customer
    group,          \* the list of the customer's group
    selling_price,  \* the default selling price of the item
    asked           \* the query the chain has answered last, or None

vars == << list, own, group, selling_price, asked >>

List == [status : {"draft", "active"}, scope : {"default", "group", "customer"},
         is_promotional : BOOLEAN, lines : LineSets]

Init ==
    /\ list \in [Lists -> List]
    /\ own \in Lists \cup {None}
    /\ group \in Lists \cup {None}
    /\ selling_price \in Prices \cup {None}
    /\ asked = None

----------------------------------------------------------------------------

list_matches(l, q) == list[l].status = "active" /\ q.currency = Currency /\ q.date \in Window

Eligible(l, q) == { line \in list[l].lines : line.uom \in {None, q.uom} /\ line.min_qty <= q.qty }

\* Highest break first; on the same break a line for the unit itself.
Better(a, b) == a.min_qty > b.min_qty \/ (a.min_qty = b.min_qty /\ a.uom # None /\ b.uom = None)

\* What a line comes to: its price, or a percentage off the default price.
Priced(line) ==
    CASE line.unit_price # None -> line.unit_price
      [] line.discount_pct # None /\ selling_price # None ->
           selling_price - (selling_price * line.discount_pct) \div 100
      [] OTHER -> None

Ranked(S, Before(_,_)) ==
    CHOOSE s \in [1..Cardinality(S) -> S] : \A i, j \in DOMAIN s : i < j => Before(s[i], s[j])

best_line(l, q) ==
    LET ranked == Ranked(Eligible(l, q), Better) IN
    IF Eligible(l, q) = {} THEN None ELSE Priced(ranked[1])

\* The active lists for everyone, promotional first, then newest.
Fresher(a, b) ==
    \/ list[a].is_promotional /\ ~list[b].is_promotional
    \/ list[a].is_promotional = list[b].is_promotional /\ a > b

defaults == Ranked({ l \in Lists : list[l].scope = "default" /\ list[l].status = "active" }, Fresher)

Pointer(p) == IF p = None THEN << >> ELSE << p >>

candidates == Pointer(own) \o Pointer(group) \o defaults

\* MUTANT of resolve: a list whose best line prices nothing ends the search.
resolve_FirstMatch(q) ==
    LET matching == { i \in DOMAIN candidates : list_matches(candidates[i], q) /\ Eligible(candidates[i], q) # {} }
        first == candidates[Min(matching)] IN
    IF matching = {} THEN [price |-> selling_price, source |-> None]
    ELSE [price |-> best_line(first, q), source |-> first]

\* The first candidate that prices the query; then, with None for its source, the
\* item itself.
resolve(q) ==
    LET matching == { i \in DOMAIN candidates : list_matches(candidates[i], q) /\ best_line(candidates[i], q) # None }
        first == candidates[Min(matching)] IN
    IF matching = {} THEN [price |-> selling_price, source |-> None]
    ELSE [price |-> best_line(first, q), source |-> first]

ask(q) == asked = None /\ asked' = q /\ UNCHANGED << list, own, group, selling_price >>

Next == \E q \in Queries : ask(q)

Spec == Init /\ [][Next]_vars

----------------------------------------------------------------------------
(* The rule.                                                               *)

\* A list covers a query when the line with the highest break the quantity
\* reaches - the one for the unit asked for, if there are two - has a price.
Line(l, q) == { line \in Eligible(l, q) : \A other \in Eligible(l, q) : ~Better(other, line) }
Covers(l, q) == list[l].status = "active" /\ q.currency = Currency /\ q.date \in Window
                /\ \E line \in Line(l, q) : Priced(line) # None

\* How close a list is to the customer: its own, its group's, a promotion for
\* everyone, the newest list for everyone.
Rank(l) ==
    CASE l = own -> << 3, 0, 0 >>
      [] l # own /\ l = group -> << 2, 0, 0 >>
      [] OTHER -> << 1, IF list[l].is_promotional THEN 1 ELSE 0, l >>
Closer(a, b) ==
    LET x == Rank(a)  y == Rank(b) IN
    x[1] > y[1] \/ (x[1] = y[1] /\ (x[2] > y[2] \/ (x[2] = y[2] /\ x[3] > y[3])))
Reach == { l \in Lists : l \in {own, group} \/ list[l].scope = "default" }

\* The answer to a query is the price of the closest list that covers it, and
\* names that list; a query no list covers gets the default price of the item.
\* No list further away, draft, archived, in another currency or out of its
\* window ever answers, and no list that prices nothing hides one that does.
ResolvesByTheRule == asked # None =>
    LET answer == resolve(asked)
        covering == { l \in Reach : Covers(l, asked) } IN
    IF covering = {} THEN answer = [price |-> selling_price, source |-> None]
    ELSE /\ answer.source \in covering
         /\ \A l \in covering : ~Closer(l, answer.source)
         /\ \E line \in Line(answer.source, asked) : answer.price = Priced(line)

=============================================================================
