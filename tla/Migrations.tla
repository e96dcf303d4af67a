------------------------------ MODULE Migrations ------------------------------
(***************************************************************************)
(* Bringing a database up to date (crates/nebula/src/kernel.rs,            *)
(* sql_migrations.rs, jobs/mod.rs).  Servers that boot and migration jobs  *)
(* apply the same files; each takes an advisory lock on one connection of  *)
(* its server's pool and does the work on others of the same pool.         *)
(***************************************************************************)
EXTENDS Naturals, Sequences, FiniteSets

CONSTANTS
    Appliers,       \* boots and migration jobs
    Servers,
    Server,         \* Server[a]: whose pool it uses
    Files,          \* the migrations, 1..n in the order of their names
    PoolSize,
    None,
    MaxFaults       \* bound: files that fail, servers that die

VARIABLES
    applied,    \* nebula_sql_migrations, in the order of the commits
    schema,     \* schema[f]: how often the statements of a file took effect
    lock,       \* who holds the advisory lock
    task,       \* task[a]: where it is and the names it has read
    faults

vars == << applied, schema, lock, task, faults >>

Idle == [step |-> "idle", seen |-> {}]

TypeOK ==
    /\ applied \in Seq(Files)
    /\ schema \in [Files -> Nat]
    /\ lock \in Appliers \cup {None}
    /\ task \in [Appliers -> [step : {"idle", "pin", "wait", "locked", "read", "done", "failed", "starved"}, seen : SUBSET Files]]
    /\ faults \in 0..MaxFaults

Init ==
    /\ applied = << >>
    /\ schema = [f \in Files |-> 0]
    /\ lock = None
    /\ task = [a \in Appliers |-> Idle]
    /\ faults = 0

names == { applied[i] : i \in DOMAIN applied }

\* Who holds a connection of the pool between two steps.
Pinned(s) == { a \in Appliers : Server[a] = s /\ task[a].step \in {"wait", "locked", "read"} }

\* A query needs a connection of its own.
Free(s) == Cardinality(Pinned(s)) < PoolSize

Goes(a, step) == task' = [task EXCEPT ![a].step = step]

----------------------------------------------------------------------------

apply(a) ==
    /\ task[a] = Idle
    /\ Goes(a, "pin")
    /\ UNCHANGED << applied, schema, lock, faults >>

acquire(a) ==
    /\ task[a].step = "pin" /\ Free(Server[a])
    /\ Goes(a, "wait")
    /\ UNCHANGED << applied, schema, lock, faults >>

\* pg_advisory_lock.
Available == lock = None

take_lock(a) ==
    /\ task[a].step = "wait" /\ Available
    /\ lock' = a
    /\ Goes(a, "locked")
    /\ UNCHANGED << applied, schema, faults >>

Unlocked(a) == IF lock = a THEN None ELSE lock

\* The names of what is applied are read once.
applied_names(a) ==
    /\ task[a].step = "locked" /\ Free(Server[a])
    /\ task' = [task EXCEPT ![a] = [step |-> "read", seen |-> names]]
    /\ UNCHANGED << applied, schema, lock, faults >>

Pending(a) == Files \ task[a].seen

Next_file(a) == CHOOSE f \in Pending(a) : \A g \in Pending(a) : f <= g

\* MUTANT of apply_file: the statements commit before the name is recorded.
apply_file_Halves(a) ==
    /\ task[a].step = "read" /\ Pending(a) # {} /\ Free(Server[a])
    /\ LET f == Next_file(a) IN
         /\ schema' = [schema EXCEPT ![f] = @ + 1]
         /\ \/ applied' = Append(applied, f) /\ task' = [task EXCEPT ![a].seen = @ \cup {f}] /\ UNCHANGED << lock, faults >>
            \/ /\ faults < MaxFaults /\ faults' = faults + 1
               /\ Goes(a, "failed") /\ lock' = Unlocked(a) /\ UNCHANGED applied

\* One file, its statements and its name in one transaction; a file that fails,
\* or that somebody else has applied, ends the run.
apply_file(a) ==
    /\ task[a].step = "read" /\ Pending(a) # {} /\ Free(Server[a])
    /\ LET f == Next_file(a) IN
         \/ /\ f \notin names
            /\ applied' = Append(applied, f) /\ schema' = [schema EXCEPT ![f] = @ + 1]
            /\ task' = [task EXCEPT ![a].seen = @ \cup {f}] /\ UNCHANGED << lock, faults >>
         \/ /\ IF f \in names THEN UNCHANGED faults ELSE faults < MaxFaults /\ faults' = faults + 1
            /\ Goes(a, "failed") /\ lock' = Unlocked(a) /\ UNCHANGED << applied, schema >>

unlock(a) ==
    /\ task[a].step = "read" /\ Pending(a) = {}
    /\ Goes(a, "done") /\ lock' = Unlocked(a)
    /\ UNCHANGED << applied, schema, faults >>

\* No connection of the pool comes free in time.
acquire_timeout(a) ==
    /\ task[a].step \in {"pin", "locked", "read"} /\ ~Free(Server[a])
    /\ task[a].step = "read" => Pending(a) # {}
    /\ Goes(a, "starved") /\ lock' = Unlocked(a)
    /\ UNCHANGED << applied, schema, faults >>

\* A server dies; the database ends its sessions.
crash(s) ==
    /\ faults < MaxFaults /\ faults' = faults + 1
    /\ task' = [a \in Appliers |-> IF Server[a] = s THEN Idle ELSE task[a]]
    /\ lock' = IF lock # None /\ Server[lock] = s THEN None ELSE lock
    /\ UNCHANGED << applied, schema >>

----------------------------------------------------------------------------

Step(a) ==
    \/ acquire(a) \/ take_lock(a) \/ applied_names(a) \/ apply_file(a) \/ unlock(a) \/ acquire_timeout(a)

Next ==
    \/ \E a \in Appliers : apply(a) \/ Step(a)
    \/ \E s \in Servers : crash(s)

\* A process goes on with what it began, and the lock is granted in turn.
Fairness == \A a \in Appliers : WF_vars(Step(a)) /\ SF_vars(take_lock(a))

Spec == Init /\ [][Next]_vars /\ Fairness

----------------------------------------------------------------------------

\* However many servers boot and jobs run at once, die or fail half way, each
\* migration takes effect once, in the order of the names, and exactly if it is
\* recorded; and nobody fails over what another has applied - an apply ends in
\* an error only after a fault, or for want of a connection.
EachMigrationOnce ==
    /\ \A i \in DOMAIN applied : applied[i] = i
    /\ \A f \in Files : schema[f] = IF f \in names THEN 1 ELSE 0
    /\ Cardinality({ a \in Appliers : task[a].step = "failed" }) <= faults

Applies(a) == task[a].step = "pin"
Ended(a) == task[a].step \in {"idle", "done", "failed", "starved"}

\* Whoever applies ends: with the database up to date, with an error, or starved
\* of the connection that the others waiting for the lock keep pinned.
AppliesEnd == \A a \in Appliers : Applies(a) ~> Ended(a)

=============================================================================
