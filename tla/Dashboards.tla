------------------------------ MODULE Dashboards -------------------------------
(***************************************************************************)
(* The arrangement of a user's dashboard (crates/nebula/src/dashboard.rs,  *)
(* dashboard/web.rs): the saved layout outlives the widgets it places and  *)
(* the permissions it was saved under; a save and a look are several       *)
(* steps each.                                                             *)
(***************************************************************************)
EXTENDS Naturals, Sequences, FiniteSets

CONSTANTS
    Widgets,        \* the names of widgets
    Here,           \* the widgets of this dashboard
    Defaults,       \* its widgets with a default position, in that order
    Guarded,        \* the widgets that need the permission
    MaxWidgets,
    None

VARIABLES
    declared,   \* the widgets the modules of this release declare
    granted,    \* the user has the permission
    layout,     \* the row of dashboard_layouts
    request,    \* the request in hand
    view        \* what the last request answered

vars == << declared, granted, layout, request, view >>

Layouts == UNION { [1..n -> Widgets] : n \in 0..(MaxWidgets + 1) }
NoRequest == [step |-> "idle", widgets |-> << >>]

TypeOK ==
    /\ declared \subseteq Widgets
    /\ granted \in BOOLEAN
    /\ layout \in Layouts \cup {None}
    /\ request \in [step : {"idle", "save", "show"}, widgets : Layouts]
    /\ view \in [widgets : Layouts \cup {None}, hidden : SUBSET Widgets]

Shown(ws, hidden) == [widgets |-> ws, hidden |-> hidden]

Init ==
    /\ declared = Widgets /\ granted = TRUE
    /\ layout = None
    /\ request = NoRequest
    /\ view = Shown(None, {})

----------------------------------------------------------------------------

permitted(w) == w \in Guarded => granted

\* MUTANT of Placeable: a widget that is placed twice passes.
Placeable_Twice(ws) ==
    /\ Len(ws) <= MaxWidgets
    /\ \A i \in DOMAIN ws : ws[i] \in declared \cap Here

\* validate_layout.
Placeable(ws) ==
    /\ Len(ws) <= MaxWidgets
    /\ \A i \in DOMAIN ws : ws[i] \in declared \cap Here
    /\ \A i, j \in DOMAIN ws : i # j => ws[i] # ws[j]

\* The widgets of a layout that are in S, in its order.
Kept(ws, S) ==
    LET places == { i \in DOMAIN ws : ws[i] \in S }
        nth(k) == CHOOSE i \in places : Cardinality({ j \in places : j <= i }) = k
    IN  [k \in 1..Cardinality(places) |-> ws[nth(k)]]

default_layout ==
    LET ws == Kept(Defaults, declared) IN SubSeq(ws, 1, IF Len(ws) < MaxWidgets THEN Len(ws) ELSE MaxWidgets)

\* What this caller sees of a layout.
resolve(ws) == Kept(ws, { w \in declared \cap Here : permitted(w) })

put_begin(ws) ==
    /\ request = NoRequest
    /\ Placeable(ws) /\ \A i \in DOMAIN ws : permitted(ws[i])
    /\ request' = [step |-> "save", widgets |-> ws]
    /\ UNCHANGED << declared, granted, layout, view >>

save_layout ==
    /\ request.step = "save"
    /\ layout' = request.widgets
    /\ request' = [request EXCEPT !.step = "show"]
    /\ UNCHANGED << declared, granted, view >>

reset_layout ==
    /\ request = NoRequest
    /\ layout' = None
    /\ request' = [step |-> "show", widgets |-> default_layout]
    /\ UNCHANGED << declared, granted, view >>

get_dashboard ==
    /\ request = NoRequest
    /\ request' = [step |-> "show", widgets |-> IF layout # None THEN layout ELSE default_layout]
    /\ UNCHANGED << declared, granted, layout, view >>

answer ==
    /\ request.step = "show"
    /\ view' = Shown(resolve(request.widgets), { w \in Guarded : ~granted })
    /\ request' = NoRequest
    /\ UNCHANGED << declared, granted, layout >>

grant(g) ==
    /\ granted # g
    /\ granted' = g
    /\ UNCHANGED << declared, layout, request, view >>

\* A release adds and retires widgets; the layouts stay.
release(ws) ==
    /\ declared # ws
    /\ declared' = ws /\ request' = NoRequest
    /\ UNCHANGED << granted, layout, view >>

Next ==
    \/ \E ws \in Layouts : put_begin(ws)
    \/ save_layout \/ reset_layout \/ get_dashboard \/ answer
    \/ \E g \in BOOLEAN : grant(g)
    \/ \E ws \in { Widgets, Here } \cup { Widgets \ {w} : w \in Widgets } : release(ws)

Spec == Init /\ [][Next]_vars

----------------------------------------------------------------------------

\* Whatever was saved, retired, revoked and released in the meantime: a caller
\* is shown no widget twice, none of another dashboard, none that the caller was
\* not permitted when it was answered and no more than the canvas holds.
ShownIsSound ==
    view.widgets # None =>
      LET ws == view.widgets IN
      /\ Len(ws) <= MaxWidgets
      /\ \A i \in DOMAIN ws : ws[i] \in Here \ view.hidden
      /\ \A i, j \in DOMAIN ws : i # j => ws[i] # ws[j]

=============================================================================
