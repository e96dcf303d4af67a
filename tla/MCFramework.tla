----------------------------- MODULE MCFramework ------------------------------
(***************************************************************************)
(* Small instances for TLC of the framework's own machinery: document      *)
(* numbers, report jobs, migrations, module order, dashboards; and of the  *)
(* reorder worker, which rests on it.  They share no state; a behaviour is *)
(* one of them, "side".                                                    *)
(***************************************************************************)
EXTENDS Numbering, LineSums, Sequences

CONSTANTS
    t1, t2, t3, inv, b1, b2, j1, j2, w1, w2, None,
    Jobs, Houses, MaxDeliveries, MaxLost,       \* of the report jobs
    Appliers, Servers, Server, Files, PoolSize, MaxFaults,  \* of the migrations
    Modules, App, Lists,                        \* of the start of a server
    Widgets, Here, Defaults, Guarded, MaxWidgets,           \* of the dashboards
    Orders, Runs, ReorderLevel, MaxLevel, MinOrderQty, OrderMultiple

MCTxns == {t1, t2, t3}
MCKeys == {inv}

Yearly  == [reset |-> "yearly", tokens |-> {"YYYY"}]
Monthly == [reset |-> "monthly", tokens |-> {"YYYY", "MM"}]
Never   == [reset |-> "never", tokens |-> {}]

MCDefault == [k \in MCKeys |-> Yearly]

\* A tenant that keeps the date parts of the template and the reset policy
\* together, as every declared series does.
CoherentOverrides == {Monthly, Never}

VARIABLES side,
    row, message, delivery, runs, files, house, expired, sweep, lost, loose, unrecorded,
    applied, schema, lock, task, faults,
    depends_on, boot, path, asked, ordered,
    declared, granted, layout, request, view,
    onHand, onOrder, order, run, overtaken

reporting == << row, message, delivery, runs, files, house, expired, sweep, lost, loose, unrecorded >>
migrating == << applied, schema, lock, task, faults >>
modules == << depends_on, boot, path, asked, ordered >>
dashboard == << declared, granted, layout, request, view >>
reordering == << onHand, onOrder, order, run, overtaken >>

R == INSTANCE ReportJobs WITH
       Formats <- Houses, MaxRuns <- MaxDeliveries, MaxFaults <- MaxLost,
       run <- delivery, faults <- lost

\* Two boots of one server and a job of another.
MCAppliers == {b1, b2, j1}
MCServer == [a \in MCAppliers |-> IF a = j1 THEN "worker" ELSE "web"]

G == INSTANCE Migrations

\* Every graph of three modules that name at most two each.
MCLists == { << >>, << 1 >>, << 2 >>, << 3 >>, << 1, 2 >>, << 1, 3 >>, << 2, 3 >> }

M == INSTANCE ModuleOrder

MCDefaults == << w1, w2 >>

D == INSTANCE Dashboards

O == INSTANCE Reorder

\* A model value is no document and no process, the migrations are numbered, a
\* widget has one default position, and what the policy orders fits the column.
ASSUME FrameworkAssumption ==
    /\ {MaxDeliveries, MaxLost, MaxFaults} \subseteq Nat
    /\ None \notin Appliers \cup R!Artifacts /\ IsFiniteSet(Appliers)
    /\ Server \in [Appliers -> Servers] /\ IsFiniteSet(Files) /\ Files = 1..Cardinality(Files)
    /\ App \notin Modules /\ Lists \subseteq Seq(Modules)
    /\ Here \cup Guarded \subseteq Widgets /\ MaxWidgets \in Nat /\ Defaults \in Seq(Widgets)
    /\ \A i, k \in DOMAIN Defaults : i # k => Defaults[i] # Defaults[k]
    /\ IsFiniteSet(Orders) /\ {ReorderLevel, MaxLevel, MinOrderQty} \subseteq Nat
    /\ OrderMultiple \in Nat \ {0}
    /\ \A p \in 0..ReorderLevel : O!order_qty(p) <= MaxQty

Sides == {"numbering", "reports", "migrations", "modules", "dashboards", "reorder"}

MCInit ==
    /\ side \in Sides
    /\ Init /\ R!Init /\ G!Init /\ D!Init /\ O!Init
    /\ IF side = "modules" THEN M!Init
       ELSE depends_on = << >> /\ boot = "none" /\ path = << >> /\ asked = << >> /\ ordered = << >>

MCNext ==
    /\ UNCHANGED side
    /\ \/ side = "numbering" /\ Next /\ UNCHANGED << reporting, migrating, modules, dashboard, reordering >>
       \/ side = "reports" /\ R!Next /\ UNCHANGED << vars, migrating, modules, dashboard, reordering >>
       \/ side = "migrations" /\ G!Next /\ UNCHANGED << vars, reporting, modules, dashboard, reordering >>
       \/ side = "modules" /\ M!Next /\ UNCHANGED << vars, reporting, migrating, dashboard, reordering >>
       \/ side = "dashboards" /\ D!Next /\ UNCHANGED << vars, reporting, migrating, modules, reordering >>
       \/ side = "reorder" /\ O!Next /\ UNCHANGED << vars, reporting, migrating, modules, dashboard >>

\* Each side under its own fairness.
MCFairness ==
    /\ \A t \in Txns :
         /\ WF_vars(side = "numbering" /\ Allocate(t))
         /\ WF_vars(side = "numbering" /\ (Commit(t) \/ (txn[t].st = "holding" /\ Rollback(t))))
    /\ \A j \in Jobs : WF_reporting(side = "reports" /\ R!Worker(j))
    /\ \A a \in Appliers :
         /\ WF_migrating(side = "migrations" /\ G!Step(a))
         /\ SF_migrating(side = "migrations" /\ G!take_lock(a))
    /\ \A w \in Runs :
         /\ WF_reordering(side = "reorder" /\ O!run_finish(w))
         /\ SF_reordering(side = "reorder" /\ O!run_begin(w))

MCSpec ==
    /\ MCInit /\ [][MCNext]_<< side, vars, reporting, migrating, modules, dashboard, reordering >>
    /\ MCFairness

\* A completed job has its artifact and an artifact its job, but for the
\* interruptions ArtifactsTie of ReportJobs names.
ArtifactsTie == R!TypeOK /\ R!ArtifactsTie

EachMigrationOnce == G!EachMigrationOnce
DependenciesFirst == side = "modules" => M!DependenciesFirst

\* What a dashboard shows exists, is permitted and is shown once (ShownIsSound of
\* Dashboards).
ShownIsSound == D!TypeOK /\ D!ShownIsSound

\* A server starts its modules after those they depend on, over every graph of
\* dependencies, and no migration is applied twice, whoever starts together or
\* dies half way.
BootIsSound == G!TypeOK /\ EachMigrationOnce /\ DependenciesFirst

\* One shortage is drafted once, by runs no approval overtakes
\* (OneShortageOneDraft of Reorder).
OneShortageOneDraft == O!TypeOK /\ O!OneShortageOneDraft

Post == << t1, t2, t3 >>
Job == << j1, j2 >>
Applier == << b1, b2, j1 >>

\* What is owed to somebody, by side, and that it was done.
Owed(i) ==
    \/ Waits(Post[i])
    \/ i \in DOMAIN Job /\ R!Queued(Job[i])
    \/ G!Applies(Applier[i])
    \/ side = "reorder" /\ O!Short

Done(i) ==
    CASE side = "numbering" -> ~Waits(Post[i])
      [] side = "reports" -> i \in DOMAIN Job => R!Settled(Job[i])
      [] side = "migrations" -> G!Ended(Applier[i])
      [] OTHER -> ~O!Short

\* Nobody waits for ever: a post that reached the counter row gets its number or
\* fails, a report job on the queue is settled, a server that applies migrations
\* ends, a shortage is covered (WaitersServed, JobsSettle, AppliesEnd and
\* ShortageCovered of the four).
WorkEnds == \A i \in 1..3 : Owed(i) ~> Done(i)
=============================================================================
