----------------------------- MODULE Numbering -----------------------------
(***************************************************************************)
(* Document number series (crates/nebula/src/numbering.rs).                *)
(*                                                                         *)
(* A document is numbered inside the database transaction that persists    *)
(* it.  `next` resolves the format in force (the module's declaration, or  *)
(* the tenant's override), reads the clock, and only then upserts the      *)
(* counter row of (series, period); the upsert waits while another open    *)
(* transaction holds that row and keeps it locked until commit or          *)
(* rollback.  The clock and the override may therefore move on between     *)
(* the two steps.                                                          *)
(*                                                                         *)
(* A template is abstracted to the date tokens it contains.  Its literal   *)
(* text and zero padding are left out: date tokens have a fixed width and  *)
(* literals separate the fields, so two rendered numbers of one series are *)
(* equal exactly when the rendered fields are.  Each request of Txns runs  *)
(* one transaction, once.                                                  *)
(***************************************************************************)
EXTENDS Integers

CONSTANTS
    Txns,           \* the posting transactions that ask for a number
    Keys,           \* the declared series keys
    Default,        \* Default[k]: the format the module declares for series k
    Overrides,      \* the formats a tenant may set in place of a default
    MaxYear,        \* bound on the clock: it runs through years 1..MaxYear
    MonthsPerYear,
    NoOverride      \* the absence of a row in document_series

Resets == {"never", "yearly", "monthly"}
DateTokens == {"YYYY", "MM"}
Formats == [reset : Resets, tokens : SUBSET DateTokens]

ASSUME NumberingAssumption ==
    /\ Default \in [Keys -> Formats]
    /\ Overrides \subseteq Formats
    /\ NoOverride \notin Formats
    /\ MaxYear \in Nat \ {0}
    /\ MonthsPerYear \in Nat \ {0}

Moments == [year : 1..MaxYear, month : 1..MonthsPerYear]

\* The counter key of the current period; 0 marks a part the key leaves out.
Periods == Resets \X (0..MaxYear) \X (0..MonthsPerYear)

period_key(reset, now) ==
    << reset,
       IF reset \in {"yearly", "monthly"} THEN now.year ELSE 0,
       IF reset = "monthly" THEN now.month ELSE 0 >>

\* The fields a formatted number shows; 0 marks a token it does not have.
Numbers == Keys \X (0..MaxYear) \X (0..MonthsPerYear) \X Nat

render(k, tokens, seq, now) ==
    << k,
       IF "YYYY" \in tokens THEN now.year ELSE 0,
       IF "MM" \in tokens THEN now.month ELSE 0,
       seq >>

VARIABLES
    clock,      \* the shared clock
    override,   \* override[k]: the tenant's document_series row
    counter,    \* counter[<< k, p >>]: the committed counter row, 0 when missing
    txn,        \* txn[t]: the state of one posting transaction
    docs        \* the committed documents

vars == << clock, override, counter, txn, docs >>

Waiting == [st : {"waiting"}, key : Keys, format : Formats, now : Moments]
Holding == [st : {"holding"}, key : Keys, period : Periods, seq : Nat, number : Numbers]
Idle    == [st : {"new", "committed", "aborted"}]

Documents == [key : Keys, period : Periods, seq : Nat, number : Numbers]

TypeOK ==
    /\ clock \in Moments
    /\ override \in [Keys -> Overrides \cup {NoOverride}]
    /\ counter \in [Keys \X Periods -> Nat]
    /\ txn \in [Txns -> Idle \cup Waiting \cup Holding]
    /\ docs \subseteq Documents

Init ==
    /\ clock = [year |-> 1, month |-> 1]
    /\ override = [k \in Keys |-> NoOverride]
    /\ counter = [r \in Keys \X Periods |-> 0]
    /\ txn = [t \in Txns |-> [st |-> "new"]]
    /\ docs = {}

\* The declared default, with the tenant's override layered on top.
resolve(k) == IF override[k] = NoOverride THEN Default[k] ELSE override[k]

\* Some open transaction has upserted counter row r and not ended yet.
RowLocked(r) ==
    \E t \in Txns :
        /\ txn[t].st = "holding"
        /\ << txn[t].key, txn[t].period >> = r

----------------------------------------------------------------------------

\* `next`, up to the point where it reaches the counter row.
Resolve(t, k) ==
    /\ txn[t].st = "new"
    /\ txn' = [txn EXCEPT ![t] =
                 [st |-> "waiting", key |-> k, format |-> resolve(k), now |-> clock]]
    /\ UNCHANGED << clock, override, counter, docs >>

\* MUTANT of Allocate: the upsert runs on a connection of its own, outside
\* the transaction that writes the document.
Allocate_OwnConnection(t) ==
    /\ txn[t].st = "waiting"
    /\ LET k == txn[t].key
           f == txn[t].format
           p == period_key(f.reset, txn[t].now)
           seq == counter[<< k, p >>] + 1
       IN  /\ counter' = [counter EXCEPT ![<< k, p >>] = seq]
           /\ txn' = [txn EXCEPT ![t] =
                        [st |-> "holding", key |-> k, period |-> p, seq |-> seq,
                         number |-> render(k, f.tokens, seq, txn[t].now)]]
    /\ UNCHANGED << clock, override, docs >>

\* The upsert of the counter row: it locks the row, and the increment stays
\* private to the transaction.
Allocate(t) ==
    /\ txn[t].st = "waiting"
    /\ LET k == txn[t].key
           f == txn[t].format
           p == period_key(f.reset, txn[t].now)
           seq == counter[<< k, p >>] + 1
       IN  /\ ~RowLocked(<< k, p >>)
           /\ txn' = [txn EXCEPT ![t] =
                        [st |-> "holding", key |-> k, period |-> p, seq |-> seq,
                         number |-> render(k, f.tokens, seq, txn[t].now)]]
    /\ UNCHANGED << clock, override, counter, docs >>

\* A committed document already carries the number t is about to write: the
\* unique index on the number column rejects the insert.
Duplicate(t) == \E d \in docs : d.number = txn[t].number

\* The document is inserted and the transaction commits; the counter row
\* becomes visible together with the document.
Commit(t) ==
    /\ txn[t].st = "holding"
    /\ ~Duplicate(t)
    /\ counter' = [counter EXCEPT ![<< txn[t].key, txn[t].period >>] = txn[t].seq]
    /\ docs' = docs \cup {[key |-> txn[t].key, period |-> txn[t].period,
                           seq |-> txn[t].seq, number |-> txn[t].number]}
    /\ txn' = [txn EXCEPT ![t] = [st |-> "committed"]]
    /\ UNCHANGED << clock, override >>

\* A validation error, a rejected insert or a crash: the counter keeps its
\* committed value.
Rollback(t) ==
    /\ txn[t].st \in {"waiting", "holding"}
    /\ txn' = [txn EXCEPT ![t] = [st |-> "aborted"]]
    /\ UNCHANGED << clock, override, counter, docs >>

set_override(k, f) ==
    /\ override' = [override EXCEPT ![k] = f]
    /\ UNCHANGED << clock, counter, txn, docs >>

clear_override(k) ==
    /\ override[k] # NoOverride
    /\ override' = [override EXCEPT ![k] = NoOverride]
    /\ UNCHANGED << clock, counter, txn, docs >>

\* The calendar moves to the next month.
Tick ==
    /\ \/ /\ clock.month < MonthsPerYear
          /\ clock' = [clock EXCEPT !.month = @ + 1]
       \/ /\ clock.month = MonthsPerYear
          /\ clock.year < MaxYear
          /\ clock' = [year |-> clock.year + 1, month |-> 1]
    /\ UNCHANGED << override, counter, txn, docs >>

Step(t) ==
    \/ \E k \in Keys : Resolve(t, k)
    \/ Allocate(t)
    \/ Commit(t)
    \/ Rollback(t)

Next ==
    \/ \E t \in Txns : Step(t)
    \/ \E k \in Keys : clear_override(k) \/ \E f \in Overrides : set_override(k, f)
    \/ Tick

Spec == Init /\ [][Next]_vars

\* Postgres grants a row lock to its waiters in turn, and a transaction that
\* has its number ends (it commits, fails, or its connection is dropped).
Fairness ==
    \A t \in Txns :
        /\ WF_vars(Allocate(t))
        /\ WF_vars(Commit(t) \/ (txn[t].st = "holding" /\ Rollback(t)))

FairSpec == Spec /\ Fairness

----------------------------------------------------------------------------

\* Gap-free: the committed documents of a series and period carry exactly the
\* sequence numbers 1..counter, so neither a rollback nor a crash nor two
\* concurrent posts burns or repeats one ("a document that never commits never
\* burns a number").
GapFree ==
    \A k \in Keys, p \in Periods :
        { d.seq : d \in { e \in docs : e.key = k /\ e.period = p } }
            = 1..counter[<< k, p >>]

\* The number a transaction holds is new: no committed document shows it, so
\* the unique index never rejects a post.  "numbers are handed out in order
\* and never duplicated".
NeverDuplicated == \A t \in Txns : txn[t].st = "holding" => ~Duplicate(t)

Waits(t) == txn[t].st = "waiting"

\* A post that reached the counter row gets its number or fails; it does not
\* wait for ever behind the others.
WaitersServed == \A t \in Txns : Waits(t) ~> ~Waits(t)

\* The sequence of each series and period only ever moves to its next number,
\* at the commit of the document that carries it.
Gapless == INSTANCE GaplessSeries WITH Series <- Keys \X Periods, last <- counter
IssuesInOrder == Gapless!Spec

\* A format is coherent when it shows exactly the date parts its counter
\* restarts on; every series the modules declare is.
Coherent(f) ==
    f.tokens = CASE f.reset = "never" -> {}
                 [] f.reset = "yearly" -> {"YYYY"}
                 [] f.reset = "monthly" -> {"YYYY", "MM"}

AllCoherent ==
    /\ \A k \in Keys : Coherent(Default[k])
    /\ \A f \in Overrides : Coherent(f)

=============================================================================
