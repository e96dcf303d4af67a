----------------------------- MODULE PriceLists ------------------------------
(***************************************************************************)
(* The life of price lists                                                 *)
(* (crates/nebula-apps/src/scm/sales/pricing.rs, Store) and of the         *)
(* customers and groups that point at them (sales/customer.rs).  No row is *)
(* locked: a request reads the list, checks it, and writes later, and      *)
(* whatever was committed meanwhile is lost or stands.                     *)
(*                                                                         *)
(* What the lines say, currencies and windows are PriceResolution's.       *)
(***************************************************************************)
EXTENDS FiniteSets

CONSTANTS
    Lists,
    LineSets,       \* the lines a list may have
    Partners,       \* customers and their groups
    Kind,           \* Kind[p]: "customer" or "group"
    Requests,       \* the requests being served
    None

VARIABLES
    list,       \* list[l]: its status, scope and lines
    pointer,    \* pointer[p]: the list a customer or a group points at
    request     \* request[c]: what a request has read

vars == << list, pointer, request >>

NoList == [status |-> "none", scope |-> "default", lines |-> {}]
Scopes == {"default", "group", "customer"}
\* Since it read its list another request has replaced the lines (crossed), or
\* moved the status (outdated).
Reading(op, l) == [op |-> op, list |-> l, crossed |-> FALSE, outdated |-> FALSE]
Idle == Reading("none", None)

Init ==
    /\ list = [l \in Lists |-> NoList]
    /\ pointer = [p \in Partners |-> None]
    /\ request = [c \in Requests |-> Idle]

----------------------------------------------------------------------------
(* A request reads its list and checks what it read ...                    *)

Reads(c, op, l, allowed) ==
    /\ request[c] = Idle
    /\ list[l].status \in allowed
    /\ request' = [request EXCEPT ![c] = Reading(op, l)]
    /\ UNCHANGED << list, pointer >>

update_begin(c, l) == Reads(c, IF list[l].status = "active" THEN "retitle" ELSE "update", l, {"draft", "active"})
activate_begin(c, l) == Reads(c, "activate", l, {"draft"})
archive_begin(c, l) == Reads(c, "archive", l, {"draft", "active"})

replace_begin(c, l) == Reads(c, "replace", l, {"draft", "active"})

\* A list that is not a draft is archived instead, which reads it again.
delete_begin(c, l) == Reads(c, "delete", l, {"draft"}) \/ Reads(c, "archive", l, {"active"})

(* ... and writes: a statement on a row that is gone changes nothing.      *)

Behind(c) == { d \in Requests \ {c} : request[d].list = request[c].list }

Writes(c, new) ==
    LET l == request[c].list IN
    /\ list' = IF list[l].status = "deleted" THEN list ELSE [list EXCEPT ![l] = new]
    /\ request' = [d \in Requests |->
         IF d = c THEN Idle
         ELSE [request[d] EXCEPT
                 !.crossed = @ \/ (d \in Behind(c) /\ request[c].op = "replace"),
                 !.outdated = @ \/ (d \in Behind(c) /\ list'[l].status # list[l].status)]]
    /\ UNCHANGED pointer

\* The scope and the currency of an active list are frozen.
update_finish(c, scope) ==
    LET l == request[c].list IN
    \/ request[c].op = "update" /\ Writes(c, [list[l] EXCEPT !.scope = scope])
    \/ request[c].op = "retitle" /\ Writes(c, list[l])

activate_finish(c) == request[c].op = "activate" /\ Writes(c, [list[request[c].list] EXCEPT !.status = "active"])
archive_finish(c) == request[c].op = "archive" /\ Writes(c, [list[request[c].list] EXCEPT !.status = "archived"])

\* The old lines are deleted and the new ones inserted in one transaction; it
\* does not see, and keeps, lines another one inserts while it waits for the old
\* ones, unless they break the unique index.
replace_finish(c, lines) ==
    LET l == request[c].list IN
    /\ request[c].op = "replace"
    /\ \/ Writes(c, [list[l] EXCEPT !.lines = lines])
       \/ request[c].crossed /\ Writes(c, [list[l] EXCEPT !.lines = IF @ \cap lines = {} THEN @ \cup lines ELSE @])

\* Nothing refers to the row by a foreign key.
delete_finish(c) == request[c].op = "delete" /\ Writes(c, [NoList EXCEPT !.status = "deleted"])

create(l) ==
    /\ list[l].status = "none"
    /\ \E scope \in Scopes : list' = [list EXCEPT ![l] = [NoList EXCEPT !.status = "draft", !.scope = scope]]
    /\ UNCHANGED << pointer, request >>

\* A list must be scoped for the customer or group that comes to point at it.
require_list(p, l) == list[l].status \notin {"none", "deleted"} /\ list[l].scope = Kind[p]

set_pointer(p, l) ==
    /\ l # None => require_list(p, l)
    /\ pointer' = [pointer EXCEPT ![p] = l]
    /\ UNCHANGED << list, request >>

Next ==
    \/ \E l \in Lists : create(l)
    \/ \E c \in Requests, l \in Lists :
         \/ update_begin(c, l) \/ activate_begin(c, l) \/ archive_begin(c, l)
         \/ replace_begin(c, l) \/ delete_begin(c, l)
    \/ \E c \in Requests :
         \/ \E scope \in Scopes : update_finish(c, scope)
         \/ \E lines \in LineSets : replace_finish(c, lines)
         \/ activate_finish(c) \/ archive_finish(c) \/ delete_finish(c)
    \/ \E p \in Partners : \E l \in Lists \cup {None} : set_pointer(p, l)

Spec == Init /\ [][Next]_vars

----------------------------------------------------------------------------

\* A request writes the list in this step, and read it in another status.
WrittenOutdated(l) == \E c \in Requests : request[c].list = l /\ request[c].outdated /\ request'[c] = Idle

\* What priced documents stays on record: an active list is never deleted and
\* keeps its scope, and an archived one never changes again, but by a request
\* that read the list before it was activated or archived and writes after.  No
\* row is locked, so such a request gets through; one that reads later does not.
RetiredListsRest == [][ \A l \in Lists :
    \/ /\ list[l].status = "active" => list'[l].status \in {"active", "archived"} /\ list'[l].scope = list[l].scope
       /\ list[l].status = "archived" => list'[l] = list[l]
    \/ WrittenOutdated(l) ]_vars

=============================================================================
