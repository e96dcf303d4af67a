----------------------------- MODULE ModuleOrder ------------------------------
(***************************************************************************)
(* The order in which the kernel configures the modules of an application  *)
(* (crates/nebula/src/module.rs, resolve): dependencies first, each module *)
(* once, a cycle refused.  The recursion of `visit` is a step per call,    *)
(* with its stack in `path`; at the bottom is the application, which       *)
(* depends on what it registers.                                           *)
(***************************************************************************)
EXTENDS Naturals, Sequences

CONSTANTS
    Modules,
    App,        \* the application
    Lists       \* the lists a module may name its dependencies in

VARIABLES
    depends_on, \* depends_on[m], in the order it names them
    boot,       \* what has become of the start
    path,       \* the calls of visit underway
    asked,      \* asked[m]: how many of its dependencies were visited for it
    ordered     \* the modules whose visit is over

vars == << depends_on, boot, path, asked, ordered >>

Nodes == Modules \cup {App}

TypeOK ==
    /\ depends_on \in [Nodes -> Seq(Modules)]
    /\ boot \in {"built", "resolving", "resolved", "cycle"}
    /\ path \in Seq(Nodes)
    /\ asked \in [Nodes -> Nat]
    /\ ordered \in Seq(Modules)

Init ==
    /\ depends_on \in [Nodes -> Lists]
    /\ boot = "built"
    /\ path = << >> /\ ordered = << >>
    /\ asked = [m \in Nodes |-> 0]

----------------------------------------------------------------------------

Top == path[Len(path)]

\* seen and path of the code hold names.
Seen(m) == \E i \in DOMAIN ordered : ordered[i] = m
Underway(m) == \E i \in DOMAIN path : path[i] = m

build ==
    /\ boot = "built"
    /\ boot' = "resolving"
    /\ path' = << App >>
    /\ UNCHANGED << depends_on, asked, ordered >>

\* The module on top has another dependency to visit.
Asks(m) ==
    /\ boot = "resolving"
    /\ asked[Top] < Len(depends_on[Top]) /\ m = depends_on[Top][asked[Top] + 1]

visit(m) ==
    /\ Asks(m) /\ ~Seen(m) /\ ~Underway(m)
    /\ path' = Append(path, m)
    /\ asked' = [asked EXCEPT ![Top] = @ + 1]
    /\ UNCHANGED << depends_on, boot, ordered >>

visited(m) ==
    /\ Asks(m) /\ Seen(m)
    /\ asked' = [asked EXCEPT ![Top] = @ + 1]
    /\ UNCHANGED << depends_on, boot, path, ordered >>

\* A module that depends on one underway is a cycle.
cycle(m) ==
    /\ Asks(m) /\ ~Seen(m) /\ Underway(m)
    /\ boot' = "cycle"
    /\ UNCHANGED << depends_on, path, asked, ordered >>

Exhausted == boot = "resolving" /\ asked[Top] = Len(depends_on[Top])

leave ==
    /\ Exhausted /\ Len(path) > 1
    /\ ordered' = Append(ordered, Top)
    /\ path' = SubSeq(path, 1, Len(path) - 1)
    /\ UNCHANGED << depends_on, boot, asked >>

resolve ==
    /\ Exhausted /\ Len(path) = 1
    /\ boot' = "resolved"
    /\ UNCHANGED << depends_on, path, asked, ordered >>

Next ==
    \/ build \/ leave \/ resolve
    \/ \E m \in Modules : visit(m) \/ visited(m) \/ cycle(m)

Spec == Init /\ [][Next]_vars

----------------------------------------------------------------------------

Dependencies(m) == { depends_on[m][i] : i \in DOMAIN depends_on[m] }

Closed(S) == \A m \in S : Dependencies(m) \subseteq S

\* d is among the dependencies of m and theirs.
Needs(m, d) == \A S \in SUBSET Modules : Dependencies(m) \subseteq S /\ Closed(S) => d \in S

Needed == { m \in Modules : Needs(App, m) }

\* Whatever the modules depend on and in whichever order they are registered:
\* the application boots exactly if nothing it needs depends on itself, and then
\* everything it needs is configured, once, after all it depends on.
DependenciesFirst ==
    /\ boot \in {"resolved", "cycle"} => (boot = "resolved" <=> \A m \in Needed : ~Needs(m, m))
    /\ boot = "resolved" =>
         /\ { ordered[i] : i \in DOMAIN ordered } = Needed
         /\ \A i, j \in DOMAIN ordered : ordered[j] \in Dependencies(ordered[i]) => j < i

=============================================================================
