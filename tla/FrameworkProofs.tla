--------------------------- MODULE FrameworkProofs ---------------------------
(***************************************************************************)
(* Proofs about the framework: document numbers, for every set of          *)
(* transactions and series and every length of the calendar; migrations,   *)
(* for every set of servers and files; the order of the modules, for every *)
(* graph of dependencies; report jobs, the reorder worker and the          *)
(* arrangement of dashboards.                                              *)
(***************************************************************************)
EXTENDS MCFramework, StockProofs

----------------------------------------------------------------------------
(* Document numbers.                                                        *)

LEMMA PeriodKeyType ==
    ASSUME NEW reset \in Resets, NEW now \in Moments
    PROVE  period_key(reset, now) \in Periods
<1>1. now.year \in 0..MaxYear /\ now.month \in 0..MonthsPerYear
  BY NumberingAssumption DEF NumberingAssumption, Moments
<1>2. 0 \in 0..MaxYear /\ 0 \in 0..MonthsPerYear
  BY NumberingAssumption DEF NumberingAssumption
<1> QED BY <1>1, <1>2 DEF period_key, Periods

LEMMA RenderType ==
    ASSUME NEW k \in Keys, NEW tokens, NEW seq \in Nat, NEW now \in Moments
    PROVE  render(k, tokens, seq, now) \in Numbers
<1>1. now.year \in 0..MaxYear /\ now.month \in 0..MonthsPerYear
  BY NumberingAssumption DEF NumberingAssumption, Moments
<1>2. 0 \in 0..MaxYear /\ 0 \in 0..MonthsPerYear
  BY NumberingAssumption DEF NumberingAssumption
<1> QED BY <1>1, <1>2 DEF render, Numbers

LEMMA ResolveType ==
    ASSUME TypeOK, NEW k \in Keys
    PROVE  resolve(k) \in Formats
BY NumberingAssumption DEF resolve, NumberingAssumption, TypeOK

\* What a holding or waiting transaction record looks like.
LEMMA TxnShape ==
    ASSUME TypeOK, NEW t \in Txns
    PROVE  /\ txn[t].st = "waiting" => txn[t] \in Waiting
           /\ txn[t].st = "holding" => txn[t] \in Holding
BY DEF TypeOK, Idle, Waiting, Holding

\* Type correctness: every variable stays in its set whatever the order of
\* requests, overrides and clock ticks.
THEOREM TypeCorrect == Spec => []TypeOK
<1>1. Init => TypeOK
  BY NumberingAssumption DEF NumberingAssumption, Init, TypeOK, Moments, Idle
<1>2. TypeOK /\ [Next]_vars => TypeOK'
  <2> SUFFICES ASSUME TypeOK, [Next]_vars PROVE TypeOK'
    OBVIOUS
  <2>1. ASSUME NEW t \in Txns, NEW k \in Keys, Resolve(t, k) PROVE TypeOK'
    <3>1. resolve(k) \in Formats
      BY ResolveType
    <3>2. [st |-> "waiting", key |-> k, format |-> resolve(k), now |-> clock] \in Waiting
      BY <3>1 DEF Waiting, TypeOK
    <3> QED BY <2>1, <3>2 DEF Resolve, TypeOK
  <2>2. ASSUME NEW t \in Txns, Allocate(t) PROVE TypeOK'
    <3> DEFINE k == txn[t].key
               f == txn[t].format
               p == period_key(f.reset, txn[t].now)
               seq == counter[<< k, p >>] + 1
               held == [st |-> "holding", key |-> k, period |-> p, seq |-> seq,
                        number |-> render(k, f.tokens, seq, txn[t].now)]
    <3>1. txn[t] \in Waiting
      BY <2>2, TxnShape DEF Allocate
    <3>2. k \in Keys /\ f \in Formats /\ txn[t].now \in Moments
      BY <3>1 DEF Waiting
    <3>3. p \in Periods
      BY <3>2, PeriodKeyType DEF Formats
    <3>4. seq \in Nat
      BY <3>2, <3>3 DEF TypeOK
    <3>5. held.number \in Numbers
      BY <3>2, <3>4, RenderType
    <3>6. held \in Holding
      BY <3>2, <3>3, <3>4, <3>5 DEF Holding
    <3>7. txn' = [txn EXCEPT ![t] = held] /\ UNCHANGED << clock, override, counter, docs >>
      BY <2>2 DEF Allocate
    <3> QED BY <3>6, <3>7 DEF TypeOK
  <2>3. ASSUME NEW t \in Txns, Commit(t) PROVE TypeOK'
    <3>1. txn[t] \in Holding
      BY <2>3, TxnShape DEF Commit
    <3>2. counter' \in [Keys \X Periods -> Nat]
      BY <2>3, <3>1 DEF Commit, TypeOK, Holding
    <3>3. docs' \subseteq Documents
      BY <2>3, <3>1 DEF Commit, TypeOK, Holding, Documents
    <3>4. txn' \in [Txns -> Idle \cup Waiting \cup Holding]
      BY <2>3 DEF Commit, TypeOK, Idle
    <3> QED BY <2>3, <3>2, <3>3, <3>4 DEF Commit, TypeOK
  <2>4. ASSUME NEW t \in Txns, Rollback(t) PROVE TypeOK'
    BY <2>4 DEF Rollback, TypeOK, Idle
  <2>5. ASSUME NEW k \in Keys, clear_override(k) PROVE TypeOK'
    BY <2>5 DEF clear_override, TypeOK
  <2>6. ASSUME NEW k \in Keys, NEW f \in Overrides, set_override(k, f) PROVE TypeOK'
    BY <2>6 DEF set_override, TypeOK
  <2>7. CASE Tick
    BY <2>7, NumberingAssumption DEF NumberingAssumption, Tick, TypeOK, Moments
  <2>8. CASE UNCHANGED vars
    BY <2>8 DEF vars, TypeOK
  <2> QED BY <2>1, <2>2, <2>3, <2>4, <2>5, <2>6, <2>7, <2>8 DEF Next, Step
<1> QED BY <1>1, <1>2, PTL DEF Spec

----------------------------------------------------------------------------

\* The counter row has at most one holder, and the holder's number is the one
\* after the committed counter: nobody else can have moved it meanwhile.
HeldIsNext ==
    \A t \in Txns : txn[t].st = "holding" =>
        /\ txn[t].seq = counter[<< txn[t].key, txn[t].period >>] + 1
        /\ \A u \in Txns :
              txn[u].st = "holding" /\ txn[u].key = txn[t].key
                 /\ txn[u].period = txn[t].period => u = t

GapInv == HeldIsNext /\ GapFree

LEMMA HeldIsNextStep ==
    ASSUME TypeOK, TypeOK', HeldIsNext, [Next]_vars
    PROVE  HeldIsNext'
<1>1. ASSUME NEW t \in Txns, NEW k \in Keys, Resolve(t, k) PROVE HeldIsNext'
  BY <1>1 DEF Resolve, HeldIsNext, TypeOK
<1>2. ASSUME NEW t \in Txns, Allocate(t) PROVE HeldIsNext'
  <2> DEFINE k == txn[t].key
             p == period_key(txn[t].format.reset, txn[t].now)
  <2>1. /\ txn'[t].st = "holding" /\ txn'[t].key = k /\ txn'[t].period = p
        /\ txn'[t].seq = counter[<< k, p >>] + 1
        /\ \A u \in Txns \ {t} : txn'[u] = txn[u]
        /\ counter' = counter
    BY <1>2 DEF Allocate, TypeOK
  <2>2. \A u \in Txns : ~(txn[u].st = "holding" /\ txn[u].key = k /\ txn[u].period = p)
    BY <1>2 DEF Allocate, RowLocked
  <2> QED BY <2>1, <2>2 DEF HeldIsNext
<1>3. ASSUME NEW t \in Txns, Commit(t) PROVE HeldIsNext'
  <2>1. /\ txn'[t].st = "committed"
        /\ \A u \in Txns \ {t} : txn'[u] = txn[u]
    BY <1>3 DEF Commit, TypeOK
  <2>2. ASSUME NEW u \in Txns \ {t}, txn[u].st = "holding"
        PROVE  counter'[<< txn[u].key, txn[u].period >>] = counter[<< txn[u].key, txn[u].period >>]
    <3>1. txn[t] \in Holding /\ txn[u] \in Holding
      BY <1>3, <2>2, TxnShape DEF Commit
    <3>2. << txn[u].key, txn[u].period >> # << txn[t].key, txn[t].period >>
      BY <1>3, <2>2 DEF Commit, HeldIsNext
    <3> QED BY <1>3, <3>1, <3>2 DEF Commit, TypeOK, Holding
  <2> QED BY <2>1, <2>2 DEF HeldIsNext
<1>4. ASSUME NEW t \in Txns, Rollback(t) PROVE HeldIsNext'
  BY <1>4 DEF Rollback, HeldIsNext, TypeOK
<1>5. ASSUME NEW k \in Keys, clear_override(k) PROVE HeldIsNext'
  BY <1>5 DEF clear_override, HeldIsNext
<1>6. ASSUME NEW k \in Keys, NEW f \in Overrides, set_override(k, f) PROVE HeldIsNext'
  BY <1>6 DEF set_override, HeldIsNext
<1>7. CASE Tick
  BY <1>7 DEF Tick, HeldIsNext
<1>8. CASE UNCHANGED vars
  BY <1>8 DEF vars, HeldIsNext
<1> QED BY <1>1, <1>2, <1>3, <1>4, <1>5, <1>6, <1>7, <1>8 DEF Next, Step

\* Every step but a commit leaves the counters and the documents alone.
LEMMA OnlyCommitWrites ==
    ASSUME [Next]_vars
    PROVE  (\E t \in Txns : Commit(t)) \/ UNCHANGED << counter, docs >>
BY DEF Next, Step, Resolve, Allocate, Rollback, set_override, clear_override, Tick, vars

LEMMA GapFreeStep ==
    ASSUME TypeOK, TypeOK', HeldIsNext, GapFree, [Next]_vars
    PROVE  GapFree'
<1>1. ASSUME NEW t \in Txns, Commit(t) PROVE GapFree'
  <2>1. txn[t] \in Holding
    BY <1>1, TxnShape DEF Commit
  <2> DEFINE new == [key |-> txn[t].key, period |-> txn[t].period,
                     seq |-> txn[t].seq, number |-> txn[t].number]
  <2>2. docs' = docs \cup {new}
    BY <1>1 DEF Commit
  <2>3. txn[t].seq = counter[<< txn[t].key, txn[t].period >>] + 1
    BY <1>1 DEF Commit, HeldIsNext
  <2> SUFFICES ASSUME NEW k \in Keys, NEW p \in Periods
               PROVE  { d.seq : d \in { e \in docs' : e.key = k /\ e.period = p } }
                        = 1..counter'[<< k, p >>]
    BY DEF GapFree
  <2>4. { d.seq : d \in { e \in docs : e.key = k /\ e.period = p } } = 1..counter[<< k, p >>]
    BY DEF GapFree
  <2>5. counter[<< k, p >>] \in Nat
    BY DEF TypeOK
  <2>6. CASE k = txn[t].key /\ p = txn[t].period
    <3>1. counter'[<< k, p >>] = counter[<< k, p >>] + 1
      BY <1>1, <2>1, <2>3, <2>6 DEF Commit, TypeOK, Holding
    <3>2. { d.seq : d \in { e \in docs' : e.key = k /\ e.period = p } }
            = { d.seq : d \in { e \in docs : e.key = k /\ e.period = p } } \cup {new.seq}
      BY <2>2, <2>6
    <3>3. new.seq = counter[<< k, p >>] + 1
      BY <2>3, <2>6
    <3>4. (1..counter[<< k, p >>]) \cup {counter[<< k, p >>] + 1} = 1..(counter[<< k, p >>] + 1)
      BY <2>5
    <3> QED BY <2>4, <3>1, <3>2, <3>3, <3>4
  <2>7. CASE ~(k = txn[t].key /\ p = txn[t].period)
    <3>1. counter'[<< k, p >>] = counter[<< k, p >>]
      BY <1>1, <2>1, <2>7 DEF Commit, TypeOK, Holding
    <3>2. { e \in docs' : e.key = k /\ e.period = p } = { e \in docs : e.key = k /\ e.period = p }
      BY <2>2, <2>7
    <3> QED BY <2>4, <3>1, <3>2
  <2> QED BY <2>6, <2>7
<1>2. CASE UNCHANGED << counter, docs >>
  BY <1>2 DEF GapFree
<1> QED BY <1>1, <1>2, OnlyCommitWrites

LEMMA GapInvariant == Spec => [](TypeOK /\ GapInv)
<1>1. Init => GapInv
  <2> SUFFICES ASSUME Init PROVE GapInv
    OBVIOUS
  <2>1. HeldIsNext
    BY DEF Init, HeldIsNext
  <2>2. GapFree
    BY DEF Init, GapFree
  <2> QED BY <2>1, <2>2 DEF GapInv
<1>2. TypeOK /\ TypeOK' /\ GapInv /\ [Next]_vars => GapInv'
  BY HeldIsNextStep, GapFreeStep DEF GapInv
<1> QED BY <1>1, <1>2, TypeCorrect, PTL DEF Spec

\* The committed documents of every series and period carry exactly the
\* numbers 1..counter, whatever commits, rolls back or crashes in between.
THEOREM NumbersAreGapFree == Spec => []GapFree
BY GapInvariant, PTL DEF GapInv

\* Numbering implements the abstract gapless sequence: a counter moves to its
\* next value at a commit and at no other step.
THEOREM ImplementsGapless == Spec => IssuesInOrder
<1>1. Init => Gapless!Init
  BY DEF Init, Gapless!Init
<1>2. TypeOK /\ GapInv /\ [Next]_vars => [Gapless!Next]_counter
  <2> SUFFICES ASSUME TypeOK, GapInv, [Next]_vars PROVE [Gapless!Next]_counter
    OBVIOUS
  <2>1. ASSUME NEW t \in Txns, Commit(t) PROVE Gapless!Next
    <3>1. txn[t] \in Holding
      BY <2>1, TxnShape DEF Commit
    <3> DEFINE r == << txn[t].key, txn[t].period >>
    <3>2. r \in Keys \X Periods /\ txn[t].seq = counter[r] + 1
      BY <2>1, <3>1 DEF Commit, GapInv, HeldIsNext, Holding
    <3>3. Gapless!Issue(r)
      BY <2>1, <3>2 DEF Commit, Gapless!Issue
    <3> QED BY <3>2, <3>3 DEF Gapless!Next
  <2> QED BY <2>1, OnlyCommitWrites
<1> QED BY <1>1, <1>2, GapInvariant, PTL DEF Spec, IssuesInOrder, Gapless!Spec

----------------------------------------------------------------------------

\* With coherent formats a number is its period and sequence written out, and
\* a zero date part tells which reset policy the period belongs to.
Shown(k, p, seq) == << k, p[2], p[3], seq >>

WellFormed(p) ==
    /\ p[1] = "never" => p[2] = 0 /\ p[3] = 0
    /\ p[1] = "yearly" => p[2] # 0 /\ p[3] = 0
    /\ p[1] = "monthly" => p[3] # 0

NumbersShown ==
    /\ \A k \in Keys : override[k] # NoOverride => Coherent(override[k])
    /\ \A t \in Txns :
        /\ txn[t].st = "waiting" => Coherent(txn[t].format)
        /\ txn[t].st = "holding" =>
              /\ txn[t].number = Shown(txn[t].key, txn[t].period, txn[t].seq)
              /\ WellFormed(txn[t].period)
    /\ \A d \in docs :
        /\ d.number = Shown(d.key, d.period, d.seq)
        /\ WellFormed(d.period)

\* A coherent format renders exactly the period key and the sequence number.
LEMMA CoherentShown ==
    ASSUME NEW f \in Formats, Coherent(f), NEW now \in Moments, NEW k, NEW seq
    PROVE  /\ render(k, f.tokens, seq, now) = Shown(k, period_key(f.reset, now), seq)
           /\ WellFormed(period_key(f.reset, now))
<1>1. now.year # 0 /\ now.month # 0
  BY NumberingAssumption DEF NumberingAssumption, Moments
<1>2. CASE f.reset = "never"
  <2>1. f.tokens = {}
    BY <1>2 DEF Coherent
  <2> QED BY <1>2, <2>1 DEF render, Shown, period_key, WellFormed
<1>3. CASE f.reset = "yearly"
  <2>1. f.tokens = {"YYYY"}
    BY <1>3 DEF Coherent
  <2> QED BY <1>1, <1>3, <2>1 DEF render, Shown, period_key, WellFormed
<1>4. CASE f.reset = "monthly"
  <2>1. f.tokens = {"YYYY", "MM"}
    BY <1>4 DEF Coherent
  <2> QED BY <1>1, <1>4, <2>1 DEF render, Shown, period_key, WellFormed
<1> QED BY <1>2, <1>3, <1>4 DEF Formats, Resets

\* What a number shows identifies the series, the period and the sequence.
LEMMA ShownInjective ==
    ASSUME NEW k, NEW l, NEW p \in Periods, NEW q \in Periods, NEW m, NEW n,
           WellFormed(p), WellFormed(q), Shown(k, p, m) = Shown(l, q, n)
    PROVE  k = l /\ p = q /\ m = n
<1>1. k = l /\ p[2] = q[2] /\ p[3] = q[3] /\ m = n
  BY DEF Shown
<1>2. p[1] \in Resets /\ q[1] \in Resets
  BY DEF Periods
<1>3. p[1] = q[1]
  BY <1>1, <1>2 DEF WellFormed, Resets
<1>4. p = << p[1], p[2], p[3] >> /\ q = << q[1], q[2], q[3] >>
  BY DEF Periods
<1> QED BY <1>1, <1>3, <1>4

LEMMA NumbersShownStep ==
    ASSUME AllCoherent, TypeOK, NumbersShown, [Next]_vars
    PROVE  NumbersShown'
<1>1. ASSUME NEW t \in Txns, NEW k \in Keys, Resolve(t, k) PROVE NumbersShown'
  <2>1. Coherent(resolve(k))
    BY DEF AllCoherent, NumbersShown, resolve
  <2>2. /\ txn'[t].st = "waiting" /\ txn'[t].format = resolve(k)
        /\ \A u \in Txns \ {t} : txn'[u] = txn[u]
        /\ UNCHANGED << override, docs >>
    BY <1>1 DEF Resolve, TypeOK
  <2> QED BY <2>1, <2>2 DEF NumbersShown
<1>2. ASSUME NEW t \in Txns, Allocate(t) PROVE NumbersShown'
  <2> DEFINE k == txn[t].key
             f == txn[t].format
             p == period_key(f.reset, txn[t].now)
             seq == counter[<< k, p >>] + 1
  <2>1. f \in Formats /\ txn[t].now \in Moments /\ Coherent(f)
    BY <1>2, TxnShape DEF Allocate, Waiting, NumbersShown
  <2>2. render(k, f.tokens, seq, txn[t].now) = Shown(k, p, seq) /\ WellFormed(p)
    BY <2>1, CoherentShown
  <2> HIDE DEF k, f, p, seq
  <2>3. /\ txn'[t].st = "holding"
        /\ txn'[t].number = Shown(txn'[t].key, txn'[t].period, txn'[t].seq)
        /\ WellFormed(txn'[t].period)
    BY <1>2, <2>2 DEF Allocate, TypeOK, k, f, p, seq
  <2>4. \A u \in Txns \ {t} : txn'[u] = txn[u]
    BY <1>2 DEF Allocate, TypeOK
  <2>5. UNCHANGED << override, docs >>
    BY <1>2 DEF Allocate
  <2> QED BY <2>3, <2>4, <2>5 DEF NumbersShown
<1>3. ASSUME NEW t \in Txns, Commit(t) PROVE NumbersShown'
  <2>1. /\ txn'[t].st = "committed"
        /\ \A u \in Txns \ {t} : txn'[u] = txn[u]
        /\ UNCHANGED override
    BY <1>3 DEF Commit, TypeOK
  <2>2. \A d \in docs' : d.number = Shown(d.key, d.period, d.seq) /\ WellFormed(d.period)
    BY <1>3 DEF Commit, NumbersShown
  <2> QED BY <2>1, <2>2 DEF NumbersShown
<1>4. ASSUME NEW t \in Txns, Rollback(t) PROVE NumbersShown'
  BY <1>4 DEF Rollback, NumbersShown, TypeOK
<1>5. ASSUME NEW k \in Keys, clear_override(k) PROVE NumbersShown'
  BY <1>5 DEF clear_override, NumbersShown, TypeOK
<1>6. ASSUME NEW k \in Keys, NEW f \in Overrides, set_override(k, f) PROVE NumbersShown'
  BY <1>6 DEF set_override, NumbersShown, TypeOK, AllCoherent
<1>7. CASE Tick
  BY <1>7 DEF Tick, NumbersShown
<1>8. CASE UNCHANGED vars
  BY <1>8 DEF vars, NumbersShown
<1> QED BY <1>1, <1>2, <1>3, <1>4, <1>5, <1>6, <1>7, <1>8 DEF Next, Step

\* A committed document that shows the number of a holder would carry the
\* holder's sequence number, which is one past every committed one.
LEMMA FreshNumber ==
    ASSUME TypeOK, GapInv, NumbersShown
    PROVE  NeverDuplicated
<1> SUFFICES ASSUME NEW t \in Txns, txn[t].st = "holding", NEW d \in docs,
                    d.number = txn[t].number
             PROVE  FALSE
  BY DEF NeverDuplicated, Duplicate
<1>1. txn[t] \in Holding /\ d \in Documents
  BY TxnShape DEF TypeOK
<1>2. txn[t].period \in Periods /\ d.period \in Periods
  BY <1>1 DEF Holding, Documents
<1>3. Shown(d.key, d.period, d.seq) = Shown(txn[t].key, txn[t].period, txn[t].seq)
  BY DEF NumbersShown
<1>4. WellFormed(d.period) /\ WellFormed(txn[t].period)
  BY DEF NumbersShown
<1>5. d.key = txn[t].key /\ d.period = txn[t].period /\ d.seq = txn[t].seq
  BY <1>2, <1>3, <1>4, ShownInjective
<1> DEFINE last == counter[<< txn[t].key, txn[t].period >>]
<1>6. d.seq \in 1..last
  <2>1. d.key \in Keys /\ d.period \in Periods
    BY <1>1 DEF Documents
  <2>2. d.seq \in { e.seq : e \in { x \in docs : x.key = d.key /\ x.period = d.period } }
    OBVIOUS
  <2> QED BY <1>5, <2>1, <2>2 DEF GapFree, GapInv
<1>7. txn[t].seq = last + 1 /\ last \in Nat
  BY <1>1 DEF GapInv, HeldIsNext, Holding, TypeOK
<1> QED BY <1>5, <1>6, <1>7

\* When every format shows the date parts its counter restarts on, the number
\* a transaction holds was never given to a committed document, so the unique
\* index never rejects a post, whatever overrides are set and cleared.
THEOREM NumbersNeverDuplicated == AllCoherent => (Spec => []NeverDuplicated)
<1> SUFFICES ASSUME AllCoherent PROVE Spec => []NeverDuplicated
  OBVIOUS
<1>1. Init => NumbersShown
  BY DEF Init, NumbersShown
<1>2. TypeOK /\ NumbersShown /\ [Next]_vars => NumbersShown'
  BY NumbersShownStep
<1>3. TypeOK /\ GapInv /\ NumbersShown => NeverDuplicated
  BY FreshNumber
<1> QED BY <1>1, <1>2, <1>3, GapInvariant, PTL DEF Spec

----------------------------------------------------------------------------
(* The order of the modules.  The stack of visit is a chain of modules each  *)
(* of which needs the next; what a module has asked for is ordered, or is    *)
(* next on the stack; and what is ordered has its dependencies before it.    *)

\* The stack starts at the application and holds each module once, none of
\* them ordered yet.
StackSound ==
    /\ boot = "built" => path = << >>
    /\ boot # "built" => Len(path) > 0 /\ path[1] = App
    /\ \A i \in DOMAIN path : i > 1 => path[i] \in Modules
    /\ \A i, j \in DOMAIN path : path[i] = path[j] => i = j
    /\ \A i \in DOMAIN path : ~M!Seen(path[i])

OrderedOnce == \A i, j \in DOMAIN ordered : ordered[i] = ordered[j] => i = j

\* What was visited for a module is ordered, or is what follows it on the stack.
AskedFor == \A m \in M!Nodes : \A k \in 1..asked[m] :
    /\ k \in DOMAIN depends_on[m]
    /\ \/ M!Seen(depends_on[m][k])
       \/ \E i \in DOMAIN path : i + 1 \in DOMAIN path /\ path[i] = m /\ path[i + 1] = depends_on[m][k]

DependenciesBefore == \A i \in DOMAIN ordered : \A k \in DOMAIN depends_on[ordered[i]] :
    \E j \in DOMAIN ordered : j < i /\ ordered[j] = depends_on[ordered[i]][k]

\* Who is further up was asked for by those below, and so was what is ordered.
ChainNeeds ==
    /\ \A i, j \in DOMAIN path : i < j => M!Needs(path[i], path[j])
    /\ \A i \in DOMAIN ordered : M!Needs(App, ordered[i])

Verdict ==
    /\ boot = "cycle" => \E m \in Modules : M!Needs(App, m) /\ M!Needs(m, m)
    /\ boot = "resolved" => Len(path) = 1 /\ asked[App] = Len(depends_on[App])

OrderInv ==
    M!TypeOK /\ StackSound /\ OrderedOnce /\ AskedFor /\ DependenciesBefore /\ ChainNeeds /\ Verdict

\* A dependency is needed, and who needs a module needs its dependencies.
LEMMA NeedsDependency ==
    ASSUME M!TypeOK, NEW m \in M!Nodes, NEW k \in DOMAIN depends_on[m]
    PROVE  /\ depends_on[m][k] \in Modules
           /\ M!Needs(m, depends_on[m][k])
           /\ \A l \in M!Nodes : m \in Modules /\ M!Needs(l, m) => M!Needs(l, depends_on[m][k])
<1>1. depends_on[m] \in Seq(Modules)
  BY DEF M!TypeOK
<1>2. depends_on[m][k] \in Modules
  BY <1>1
<1>3. depends_on[m][k] \in M!Dependencies(m)
  BY DEF M!Dependencies
<1>4. M!Needs(m, depends_on[m][k])
  BY <1>3 DEF M!Needs
<1>5. ASSUME NEW l \in M!Nodes, m \in Modules, M!Needs(l, m) PROVE M!Needs(l, depends_on[m][k])
  BY <1>3, <1>5 DEF M!Needs, M!Closed
<1> QED BY <1>2, <1>4, <1>5

LEMMA OrderInit == M!Init => OrderInv
<1> SUFFICES ASSUME M!Init PROVE OrderInv
  OBVIOUS
<1>1. M!TypeOK
  <2>1. << >> \in Seq(M!Nodes) /\ << >> \in Seq(Modules)
    OBVIOUS
  <2>2. depends_on \in [M!Nodes -> Seq(Modules)]
    BY FrameworkAssumption DEF M!Init
  <2> QED BY <2>1, <2>2 DEF M!Init, M!TypeOK
<1>2. path = << >> /\ ordered = << >> /\ boot = "built" /\ \A m \in M!Nodes : asked[m] = 0
  BY DEF M!Init
<1>3. DOMAIN path = {} /\ DOMAIN ordered = {}
  BY <1>2
<1>4. StackSound /\ OrderedOnce /\ DependenciesBefore /\ ChainNeeds /\ Verdict
  BY <1>2, <1>3 DEF StackSound, OrderedOnce, DependenciesBefore, ChainNeeds, Verdict
<1>5. AskedFor
  BY <1>2 DEF AskedFor
<1> QED BY <1>1, <1>4, <1>5 DEF OrderInv

\* What is on top of the stack, and what it asks for.
LEMMA TopShape ==
    ASSUME OrderInv, boot = "resolving"
    PROVE  /\ Len(path) \in Nat \ {0} /\ Len(path) \in DOMAIN path /\ M!Top \in M!Nodes
           /\ asked[M!Top] \in Nat /\ asked[M!Top] <= Len(depends_on[M!Top])
           /\ depends_on[M!Top] \in Seq(Modules)
           /\ \A k \in 1..asked[M!Top] : M!Seen(depends_on[M!Top][k])
<1> USE DEF OrderInv
<1>1. Len(path) \in Nat \ {0} /\ path \in Seq(M!Nodes)
  BY DEF StackSound, M!TypeOK
<1>2. Len(path) \in DOMAIN path /\ M!Top \in M!Nodes
  BY <1>1 DEF M!Top
<1>3. asked[M!Top] \in Nat /\ depends_on[M!Top] \in Seq(Modules)
  BY <1>2 DEF M!TypeOK
<1>4. \A k \in 1..asked[M!Top] : k \in DOMAIN depends_on[M!Top]
  BY <1>2 DEF AskedFor
<1>5. asked[M!Top] <= Len(depends_on[M!Top])
  BY <1>3, <1>4
<1>6. ASSUME NEW k \in 1..asked[M!Top] PROVE M!Seen(depends_on[M!Top][k])
  <2>1. ASSUME NEW i \in DOMAIN path, i + 1 \in DOMAIN path, path[i] = M!Top PROVE FALSE
    <3>1. i = Len(path)
      BY <1>2, <2>1 DEF StackSound, M!Top
    <3> QED BY <1>1, <2>1, <3>1
  <2> QED BY <1>2, <2>1 DEF AskedFor
<1> QED BY <1>1, <1>2, <1>3, <1>5, <1>6

\* What the top asks for.
LEMMA AskedModule ==
    ASSUME OrderInv, NEW m \in Modules, M!Asks(m)
    PROVE  /\ asked[M!Top] + 1 \in DOMAIN depends_on[M!Top]
           /\ depends_on[M!Top][asked[M!Top] + 1] = m
           /\ M!Needs(M!Top, m)
           /\ \A i \in DOMAIN path : M!Needs(path[i], m)
<1>1. boot = "resolving" /\ asked[M!Top] < Len(depends_on[M!Top]) /\ m = depends_on[M!Top][asked[M!Top] + 1]
  BY DEF M!Asks
<1>2. asked[M!Top] + 1 \in DOMAIN depends_on[M!Top] /\ M!Top \in M!Nodes /\ Len(path) \in Nat \ {0}
  BY <1>1, TopShape
<1>3. M!Needs(M!Top, m) /\ \A l \in M!Nodes : M!Top \in Modules /\ M!Needs(l, M!Top) => M!Needs(l, m)
  BY <1>1, <1>2, NeedsDependency DEF OrderInv
<1>4. ASSUME NEW i \in DOMAIN path PROVE M!Needs(path[i], m)
  <2>1. path \in Seq(M!Nodes) /\ i \in 1..Len(path) /\ path[i] \in M!Nodes
    BY DEF OrderInv, M!TypeOK
  <2>2. CASE i = Len(path)
    BY <1>3, <2>2 DEF M!Top
  <2>3. CASE i # Len(path)
    <3>1. i < Len(path) /\ Len(path) \in DOMAIN path /\ Len(path) > 1
      BY <1>2, <2>1, <2>3
    <3>2. M!Needs(path[i], M!Top) /\ M!Top \in Modules
      BY <3>1 DEF OrderInv, ChainNeeds, StackSound, M!Top
    <3> QED BY <1>3, <2>1, <3>2
  <2> QED BY <2>2, <2>3
<1> QED BY <1>1, <1>2, <1>3, <1>4

\* The call of visit on a module that is not ordered and not underway.
LEMMA VisitKeeps ==
    ASSUME OrderInv, NEW m \in Modules, M!visit(m)
    PROVE  OrderInv'
<1> DEFINE n == Len(path)
<1>1. M!Asks(m) /\ ~M!Seen(m) /\ ~M!Underway(m) /\ boot = "resolving"
  BY DEF M!visit, M!Asks
<1>2. /\ n \in Nat \ {0} /\ n \in DOMAIN path /\ M!Top \in M!Nodes /\ M!Top = path[n]
      /\ asked[M!Top] \in Nat /\ path \in Seq(M!Nodes)
      /\ \A k \in 1..asked[M!Top] : M!Seen(depends_on[M!Top][k])
  BY <1>1, TopShape DEF M!Top, OrderInv, M!TypeOK
<1>3. /\ path' = Append(path, m) /\ UNCHANGED << depends_on, boot, ordered >>
      /\ asked' = [asked EXCEPT ![M!Top] = @ + 1]
  BY DEF M!visit
<1>4. /\ path' \in Seq(M!Nodes) /\ DOMAIN path' = 1..(n + 1) /\ DOMAIN path = 1..n /\ Len(path') = n + 1
      /\ path'[n + 1] = m /\ \A i \in 1..n : path'[i] = path[i]
  BY <1>2, <1>3 DEF M!Nodes
<1> HIDE DEF n
<1>5. M!TypeOK'
  BY <1>2, <1>3, <1>4 DEF OrderInv, M!TypeOK
<1>7. \A i \in 1..n : path[i] # m
  BY <1>1, <1>4 DEF M!Underway
<1>8. StackSound'
  <2>1. boot' # "built" /\ Len(path') > 0 /\ path'[1] = App
    BY <1>1, <1>2, <1>3, <1>4 DEF OrderInv, StackSound
  <2>2. \A i \in 1..(n + 1) : i > 1 => path'[i] \in Modules
    BY <1>2, <1>4 DEF OrderInv, StackSound
  <2>3. \A i, j \in 1..(n + 1) : path'[i] = path'[j] => i = j
    BY <1>2, <1>4, <1>7 DEF OrderInv, StackSound
  <2>4. \A i \in 1..(n + 1), j \in DOMAIN ordered : ordered[j] # path'[i]
    BY <1>1, <1>2, <1>4 DEF OrderInv, StackSound, M!Seen
  <2> QED BY <1>3, <1>4, <2>1, <2>2, <2>3, <2>4 DEF StackSound, M!Seen
<1>9. AskedFor'
  <2> SUFFICES ASSUME NEW x \in M!Nodes, NEW k \in 1..asked'[x]
               PROVE  /\ k \in DOMAIN depends_on[x]
                      /\ \/ M!Seen(depends_on[x][k])
                         \/ \E i \in DOMAIN path' : /\ i + 1 \in DOMAIN path' /\ path'[i] = x
                                                    /\ path'[i + 1] = depends_on[x][k]
    BY <1>3 DEF AskedFor, M!Nodes, M!Seen
  <2>1. asked[x] \in Nat /\ asked'[x] = IF x = M!Top THEN asked[x] + 1 ELSE asked[x]
    BY <1>2, <1>3 DEF OrderInv, M!TypeOK
  <2>2. CASE k \in 1..asked[x]
    BY <1>2, <1>4, <2>2 DEF OrderInv, AskedFor
  <2>3. CASE k \notin 1..asked[x]
    <3>1. x = M!Top /\ k = asked[M!Top] + 1
      BY <2>1, <2>3
    <3>2. k \in DOMAIN depends_on[x] /\ depends_on[x][k] = m
      BY <1>1, <3>1, AskedModule
    <3>3. n \in DOMAIN path' /\ n + 1 \in DOMAIN path' /\ path'[n] = x /\ path'[n + 1] = m
      BY <1>2, <1>4, <3>1
    <3> QED BY <3>2, <3>3
  <2> QED BY <2>2, <2>3
<1>10. ChainNeeds'
  <2>1. \A x, y : M!Needs(x, y)' <=> M!Needs(x, y)
    BY <1>3 DEF M!Needs, M!Closed, M!Dependencies
  <2>2. \A i \in 1..n : M!Needs(path[i], m)
    BY <1>1, <1>4, AskedModule
  <2>3. ASSUME NEW i \in 1..(n + 1), NEW j \in 1..(n + 1), i < j PROVE M!Needs(path'[i], path'[j])
    <3>1. i \in 1..n /\ path'[i] = path[i] /\ (j \in 1..n \/ j = n + 1)
      BY <1>2, <1>4, <2>3
    <3>2. CASE j \in 1..n
      <4>1. path'[j] = path[j] /\ M!Needs(path[i], path[j])
        BY <1>4, <2>3, <3>1, <3>2 DEF OrderInv, ChainNeeds
      <4> QED BY <3>1, <4>1
    <3>3. CASE j = n + 1
      BY <1>4, <2>2, <3>1, <3>3
    <3> QED BY <3>1, <3>2, <3>3
  <2> QED BY <1>3, <1>4, <2>1, <2>3 DEF OrderInv, ChainNeeds
<1>11. OrderedOnce' /\ DependenciesBefore' /\ Verdict'
  BY <1>1, <1>3 DEF OrderInv, OrderedOnce, DependenciesBefore, Verdict
<1> QED BY <1>5, <1>8, <1>9, <1>10, <1>11 DEF OrderInv

\* The call of visit on a module that is ordered already.
LEMMA VisitedKeeps ==
    ASSUME OrderInv, NEW m \in Modules, M!visited(m)
    PROVE  OrderInv'
<1>1. M!Asks(m) /\ M!Seen(m) /\ boot = "resolving"
  BY DEF M!visited, M!Asks
<1>2. M!Top \in M!Nodes /\ asked[M!Top] \in Nat
  BY <1>1, TopShape
<1>3. UNCHANGED << depends_on, boot, path, ordered >> /\ asked' = [asked EXCEPT ![M!Top] = @ + 1]
  BY DEF M!visited
<1>4. M!TypeOK'
  BY <1>2, <1>3 DEF OrderInv, M!TypeOK
<1>5. AskedFor'
  <2> SUFFICES ASSUME NEW x \in M!Nodes, NEW k \in 1..asked'[x]
               PROVE  /\ k \in DOMAIN depends_on[x]
                      /\ \/ M!Seen(depends_on[x][k])
                         \/ \E i \in DOMAIN path : /\ i + 1 \in DOMAIN path /\ path[i] = x
                                                   /\ path[i + 1] = depends_on[x][k]
    BY <1>3 DEF AskedFor, M!Nodes, M!Seen
  <2>1. asked[x] \in Nat /\ asked'[x] = IF x = M!Top THEN asked[x] + 1 ELSE asked[x]
    BY <1>2, <1>3 DEF OrderInv, M!TypeOK
  <2>2. CASE k \in 1..asked[x]
    BY <2>2 DEF OrderInv, AskedFor
  <2>3. CASE k \notin 1..asked[x]
    <3>1. x = M!Top /\ k = asked[M!Top] + 1
      BY <2>1, <2>3
    <3> QED BY <1>1, <3>1, AskedModule
  <2> QED BY <2>2, <2>3
<1>6. StackSound' /\ OrderedOnce' /\ DependenciesBefore' /\ ChainNeeds' /\ Verdict'
  BY <1>1, <1>3 DEF OrderInv, StackSound, OrderedOnce, DependenciesBefore, ChainNeeds, Verdict,
                    M!Seen, M!Needs, M!Closed, M!Dependencies
<1> QED BY <1>4, <1>5, <1>6 DEF OrderInv

\* Nothing but the verdict is about what becomes of the start.
LEMMA StackRests ==
    ASSUME OrderInv, UNCHANGED << depends_on, path, asked, ordered >>, Verdict',
           boot' \in {"built", "resolving", "resolved", "cycle"}, boot' = "built" <=> boot = "built"
    PROVE  OrderInv'
<1>1. M!TypeOK' /\ StackSound'
  BY DEF OrderInv, M!TypeOK, StackSound, M!Seen
<1>2. OrderedOnce' /\ AskedFor' /\ DependenciesBefore'
  BY DEF OrderInv, OrderedOnce, AskedFor, DependenciesBefore, M!Seen
<1>4. ChainNeeds'
  BY DEF OrderInv, ChainNeeds, M!Needs, M!Closed, M!Dependencies
<1> QED BY <1>1, <1>2, <1>4 DEF OrderInv

\* A module that asks for one underway is needed by the application and by itself.
LEMMA CycleKeeps ==
    ASSUME OrderInv, NEW m \in Modules, M!cycle(m)
    PROVE  OrderInv'
<1>1. M!Asks(m) /\ M!Underway(m) /\ boot = "resolving" /\ boot' = "cycle"
  BY DEF M!cycle, M!Asks
<1>2. UNCHANGED << depends_on, path, asked, ordered >>
  BY DEF M!cycle
<1>3. M!Needs(App, m) /\ M!Needs(m, m)
  <2>1. PICK i \in DOMAIN path : path[i] = m
    BY <1>1 DEF M!Underway
  <2>2. 1 \in DOMAIN path /\ path[1] = App
    BY <1>1 DEF OrderInv, StackSound, M!TypeOK
  <2> QED BY <1>1, <2>1, <2>2, AskedModule
<1>4. Verdict'
  <2>1. M!Needs(App, m)' /\ M!Needs(m, m)'
    BY <1>2, <1>3 DEF M!Needs, M!Closed, M!Dependencies
  <2> QED BY <1>1, <2>1 DEF Verdict
<1> QED BY <1>1, <1>2, <1>4, StackRests

\* The end of a visit.
LEMMA LeaveKeeps == ASSUME OrderInv, M!leave PROVE OrderInv'
<1> DEFINE n == Len(path)
           top == path[n]
           o == Len(ordered)
<1>1. boot = "resolving" /\ asked[top] = Len(depends_on[top]) /\ n > 1
  BY DEF M!leave, M!Exhausted, M!Top
<1>2. /\ n \in Nat \ {0} /\ n \in DOMAIN path /\ M!Top = top /\ top \in M!Nodes
      /\ depends_on[top] \in Seq(Modules)
      /\ \A k \in 1..asked[top] : M!Seen(depends_on[top][k])
      /\ path \in Seq(M!Nodes) /\ ordered \in Seq(Modules) /\ o \in Nat
  BY <1>1, TopShape DEF M!Top, OrderInv, M!TypeOK
<1>3. /\ ordered' = Append(ordered, top) /\ path' = SubSeq(path, 1, n - 1)
      /\ UNCHANGED << depends_on, boot, asked >>
  BY DEF M!leave, M!Top
<1>4. /\ top \in Modules /\ ~M!Seen(top) /\ path[1] = App
      /\ \A i, j \in DOMAIN path : path[i] = path[j] => i = j
  BY <1>1, <1>2 DEF OrderInv, StackSound
<1>5. /\ path' \in Seq(M!Nodes) /\ DOMAIN path' = 1..(n - 1) /\ DOMAIN path = 1..n /\ Len(path') = n - 1
      /\ \A i \in 1..(n - 1) : path'[i] = path[i]
  BY <1>1, <1>2, <1>3
<1>6. /\ ordered' \in Seq(Modules) /\ DOMAIN ordered' = 1..(o + 1) /\ DOMAIN ordered = 1..o
      /\ ordered'[o + 1] = top /\ \A i \in 1..o : ordered'[i] = ordered[i]
  BY <1>2, <1>3, <1>4
<1> HIDE DEF n, top, o
<1>7. M!TypeOK'
  BY <1>3, <1>5, <1>6 DEF OrderInv, M!TypeOK
<1>9. StackSound'
  <2>1. path'[1] = App /\ Len(path') > 0 /\ boot' # "built"
    BY <1>1, <1>2, <1>3, <1>4, <1>5
  <2>2. ASSUME NEW i \in 1..(n - 1) PROVE path[i] # top /\ \A j \in 1..o : ordered[j] # path[i]
    <3>1. i \in DOMAIN path /\ i # n
      BY <1>2, <1>5
    <3>2. path[i] # top
      BY <1>2, <1>4, <3>1 DEF top
    <3>3. \A j \in 1..o : ordered[j] # path[i]
      BY <1>6, <3>1 DEF OrderInv, StackSound, M!Seen
    <3> QED BY <3>2, <3>3
  <2>3. ASSUME NEW i \in 1..(n - 1), NEW j \in 1..(o + 1) PROVE ordered'[j] # path'[i]
    <3>1. j \in 1..o \/ j = o + 1
      BY <1>2
    <3> QED BY <1>5, <1>6, <2>2, <3>1
  <2>4. ASSUME NEW i \in 1..(n - 1), i > 1 PROVE path'[i] \in Modules
    <3>1. i \in DOMAIN path /\ path'[i] = path[i]
      BY <1>1, <1>2, <1>5
    <3> QED BY <2>4, <3>1 DEF OrderInv, StackSound
  <2>5. ASSUME NEW i \in 1..(n - 1), NEW j \in 1..(n - 1), path'[i] = path'[j] PROVE i = j
    <3>1. i \in DOMAIN path /\ j \in DOMAIN path
      BY <1>1, <1>2, <1>5
    <3> QED BY <1>4, <1>5, <2>5, <3>1
  <2>6. \A i \in DOMAIN path' : ~(\E j \in DOMAIN ordered' : ordered'[j] = path'[i])
    BY <1>5, <1>6, <2>3
  <2>7. \A i \in DOMAIN path' : i > 1 => path'[i] \in Modules
    BY <1>5, <2>4
  <2>8. \A i, j \in DOMAIN path' : path'[i] = path'[j] => i = j
    BY <1>5, <2>5
  <2> QED BY <2>1, <2>6, <2>7, <2>8, Zenon DEF StackSound, M!Seen
<1>10. OrderedOnce'
  BY <1>2, <1>4, <1>6 DEF OrderInv, OrderedOnce, M!Seen
<1>11. AskedFor'
  <2> SUFFICES ASSUME NEW x \in M!Nodes, NEW k \in 1..asked[x]
               PROVE  /\ k \in DOMAIN depends_on[x]
                      /\ \/ \E j \in DOMAIN ordered' : ordered'[j] = depends_on[x][k]
                         \/ \E i \in DOMAIN path' : /\ i + 1 \in DOMAIN path' /\ path'[i] = x
                                                    /\ path'[i + 1] = depends_on[x][k]
    BY <1>3, ZenonT(60) DEF AskedFor, M!Nodes, M!Seen
  <2>1. k \in DOMAIN depends_on[x]
    BY DEF OrderInv, AskedFor
  <2>2. CASE M!Seen(depends_on[x][k])
    BY <1>2, <1>6, <2>1, <2>2 DEF M!Seen
  <2>3. ASSUME NEW i \in DOMAIN path, i + 1 \in DOMAIN path, path[i] = x, path[i + 1] = depends_on[x][k]
        PROVE  \/ \E j \in DOMAIN ordered' : ordered'[j] = depends_on[x][k]
               \/ \E l \in DOMAIN path' : l + 1 \in DOMAIN path' /\ path'[l] = x /\ path'[l + 1] = depends_on[x][k]
    <3>1. CASE i + 1 = n
      BY <1>2, <1>6, <2>3, <3>1 DEF top
    <3>2. CASE i + 1 # n
      <4>1. i \in 1..(n - 1) /\ i + 1 \in 1..(n - 1)
        BY <1>2, <1>5, <2>3, <3>2
      <4> QED BY <1>5, <2>3, <4>1
    <3> QED BY <3>1, <3>2
  <2> QED BY <2>1, <2>2, <2>3 DEF OrderInv, AskedFor
<1>12. DependenciesBefore'
  <2> SUFFICES ASSUME NEW i \in DOMAIN ordered', NEW k \in DOMAIN depends_on[ordered'[i]]
               PROVE  \E j \in DOMAIN ordered' : j < i /\ ordered'[j] = depends_on[ordered'[i]][k]
    BY <1>3, Zenon DEF DependenciesBefore
  <2>1. CASE i \in 1..o
    <3>1. ordered'[i] = ordered[i]
      BY <1>6, <2>1
    <3>2. PICK j \in 1..o : j < i /\ ordered[j] = depends_on[ordered[i]][k]
      BY <1>6, <2>1, <3>1 DEF OrderInv, DependenciesBefore
    <3> QED BY <1>2, <1>6, <3>1, <3>2
  <2>2. CASE i = o + 1
    <3>1. ordered'[i] = top /\ k \in 1..asked[top]
      BY <1>1, <1>2, <1>6, <2>2
    <3>2. PICK j \in 1..o : ordered[j] = depends_on[top][k]
      BY <1>2, <1>6, <3>1 DEF M!Seen
    <3> QED BY <1>2, <1>6, <2>2, <3>1, <3>2
  <2> QED BY <1>2, <1>6, <2>1, <2>2
<1>13. ChainNeeds'
  <2>1. \A x, y : M!Needs(x, y)' <=> M!Needs(x, y)
    BY <1>3 DEF M!Needs, M!Closed, M!Dependencies
  <2>2. M!Needs(App, top)
    BY <1>1, <1>2, <1>4, <1>5 DEF OrderInv, ChainNeeds, top
  <2>3. \A i \in 1..(o + 1) : M!Needs(App, ordered'[i])
    BY <1>2, <1>6, <2>2 DEF OrderInv, ChainNeeds
  <2>4. ASSUME NEW i \in 1..(n - 1), NEW j \in 1..(n - 1), i < j PROVE M!Needs(path'[i], path'[j])
    <3>1. i \in DOMAIN path /\ j \in DOMAIN path /\ path'[i] = path[i] /\ path'[j] = path[j]
      BY <1>2, <1>5
    <3>2. M!Needs(path[i], path[j])
      BY <2>4, <3>1 DEF OrderInv, ChainNeeds
    <3> QED BY <3>1, <3>2
  <2> QED BY <1>5, <1>6, <2>1, <2>3, <2>4 DEF ChainNeeds
<1>14. Verdict'
  BY <1>1, <1>3 DEF Verdict
<1> QED BY <1>7, <1>9, <1>10, <1>11, <1>12, <1>13, <1>14 DEF OrderInv

\* The start and the end of it all.
LEMMA BuildKeeps == ASSUME OrderInv, M!build \/ M!resolve PROVE OrderInv'
<1>1. CASE M!build
  <2>1. boot = "built" /\ boot' = "resolving" /\ path' = << App >> /\ UNCHANGED << depends_on, asked, ordered >>
    BY <1>1 DEF M!build
  <2>2. path' \in Seq(M!Nodes) /\ DOMAIN path' = {1} /\ Len(path') = 1 /\ path'[1] = App /\ DOMAIN path = {}
    BY <2>1 DEF M!Nodes, OrderInv, StackSound
  <2>3. M!TypeOK'
    BY <2>1, <2>2 DEF OrderInv, M!TypeOK
  <2>4. StackSound'
    <3>1. ~M!Seen(App)'
      BY <2>1, FrameworkAssumption DEF OrderInv, M!TypeOK, M!Seen
    <3> QED BY <2>1, <2>2, <3>1 DEF StackSound
  <2>5. OrderedOnce' /\ DependenciesBefore' /\ Verdict'
    BY <2>1 DEF OrderInv, OrderedOnce, DependenciesBefore, Verdict
  <2>6. AskedFor'
    BY <2>1, <2>2 DEF OrderInv, AskedFor, M!Seen, M!Nodes
  <2>7. ChainNeeds'
    BY <2>1, <2>2 DEF OrderInv, ChainNeeds, M!Needs, M!Closed, M!Dependencies
  <2> QED BY <2>3, <2>4, <2>5, <2>6, <2>7 DEF OrderInv
<1>2. CASE M!resolve
  <2>1. /\ boot = "resolving" /\ Len(path) = 1 /\ asked[M!Top] = Len(depends_on[M!Top])
        /\ boot' = "resolved" /\ UNCHANGED << depends_on, path, asked, ordered >>
    BY <1>2 DEF M!resolve, M!Exhausted
  <2>2. M!Top = App
    BY <2>1 DEF M!Top, OrderInv, StackSound
  <2>3. Verdict'
    BY <2>1, <2>2 DEF Verdict
  <2> QED BY <2>1, <2>3, StackRests
<1> QED BY <1>1, <1>2

LEMMA OrderStep == OrderInv /\ [M!Next]_modules => OrderInv'
<1>1. ASSUME OrderInv, UNCHANGED modules PROVE OrderInv'
  <2>1. UNCHANGED << depends_on, path, asked, ordered, boot >>
    BY <1>1 DEF modules
  <2>2. \A x, y : M!Needs(x, y)' <=> M!Needs(x, y)
    BY <2>1 DEF M!Needs, M!Closed, M!Dependencies
  <2>4. Verdict'
    BY <1>1, <2>1, <2>2 DEF OrderInv, Verdict
  <2>3. boot' \in {"built", "resolving", "resolved", "cycle"} /\ (boot' = "built" <=> boot = "built")
    BY <1>1, <2>1 DEF OrderInv, M!TypeOK
  <2> QED BY <1>1, <2>1, <2>3, <2>4, StackRests
<1> QED BY <1>1, VisitKeeps, VisitedKeeps, CycleKeeps, LeaveKeeps, BuildKeeps DEF M!Next

\* When all that was registered is ordered, what is ordered is what is needed,
\* and nothing of it needs itself.
LEMMA OrderIsRight == OrderInv => M!DependenciesFirst
<1> SUFFICES ASSUME OrderInv PROVE M!DependenciesFirst
  OBVIOUS
<1> USE DEF OrderInv
<1> DEFINE Reach == { ordered[i] : i \in DOMAIN ordered }
<1>1. ordered \in Seq(Modules) /\ Reach \in SUBSET Modules
  BY DEF M!TypeOK
<1>2. ASSUME NEW i \in DOMAIN ordered, NEW j \in DOMAIN ordered, ordered[j] \in M!Dependencies(ordered[i])
      PROVE  j < i
  <2>1. PICK k \in DOMAIN depends_on[ordered[i]] : depends_on[ordered[i]][k] = ordered[j]
    BY <1>2 DEF M!Dependencies
  <2>2. PICK l \in DOMAIN ordered : l < i /\ ordered[l] = ordered[j]
    BY <2>1 DEF DependenciesBefore
  <2> QED BY <2>2 DEF OrderedOnce
<1>3. ASSUME boot = "resolved" PROVE Reach = M!Needed
  <2>1. M!Dependencies(App) \subseteq Reach
    <3>1. 1 \in DOMAIN path /\ path[1] = App /\ DOMAIN path = {1}
      BY <1>3 DEF StackSound, Verdict, M!TypeOK
    <3>2. App \in M!Nodes /\ depends_on[App] \in Seq(Modules) /\ asked[App] = Len(depends_on[App])
      BY <1>3 DEF M!Nodes, M!TypeOK, Verdict
    <3>3. ASSUME NEW k \in DOMAIN depends_on[App] PROVE depends_on[App][k] \in Reach
      <4>1. k \in 1..asked[App]
        BY <3>2
      <4>2. M!Seen(depends_on[App][k])
        BY <3>1, <3>2, <4>1 DEF AskedFor
      <4> QED BY <4>2 DEF M!Seen
    <3> QED BY <3>3 DEF M!Dependencies
  <2>2. M!Closed(Reach)
    BY DEF M!Closed, M!Dependencies, DependenciesBefore
  <2>3. M!Needed \subseteq Reach
    BY <1>1, <2>1, <2>2 DEF M!Needed, M!Needs
  <2>4. Reach \subseteq M!Needed
    BY <1>1 DEF ChainNeeds, M!Needed
  <2> QED BY <2>3, <2>4
<1>4. ASSUME boot = "resolved", NEW m \in M!Needed PROVE ~M!Needs(m, m)
  <2>1. PICK i \in DOMAIN ordered : ordered[i] = m
    BY <1>3, <1>4
  <2> DEFINE S == { ordered[j] : j \in { l \in DOMAIN ordered : l < i } }
  <2>2. S \in SUBSET Modules
    BY <1>1
  <2>3. ASSUME NEW l \in DOMAIN ordered, l <= i PROVE M!Dependencies(ordered[l]) \subseteq S
    <3>1. ASSUME NEW k \in DOMAIN depends_on[ordered[l]] PROVE depends_on[ordered[l]][k] \in S
      <4>1. PICK j \in DOMAIN ordered : j < l /\ ordered[j] = depends_on[ordered[l]][k]
        BY DEF DependenciesBefore
      <4>2. j < i
        BY <1>1, <2>3, <4>1
      <4> QED BY <4>1, <4>2
    <3> QED BY <3>1 DEF M!Dependencies
  <2>4. M!Dependencies(m) \subseteq S
    BY <1>1, <2>1, <2>3
  <2>5. M!Closed(S)
    BY <1>1, <2>3 DEF M!Closed
  <2>6. m \notin S
    BY <1>1, <2>1 DEF OrderedOnce
  <2> QED BY <2>2, <2>4, <2>5, <2>6 DEF M!Needs
<1>5. boot = "cycle" => \E m \in M!Needed : M!Needs(m, m)
  BY DEF Verdict, M!Needed
<1>6. boot \in {"resolved", "cycle"} => (boot = "resolved" <=> \A m \in M!Needed : ~M!Needs(m, m))
  BY <1>4, <1>5
<1>7. boot = "resolved" => Reach = M!Needed
  BY <1>3
<1> QED BY <1>2, <1>6, <1>7 DEF M!DependenciesFirst

----------------------------------------------------------------------------
(* Migrations.  Whoever reads what is applied and applies files holds the   *)
(* lock, alone, so that what it has read stays what is applied.             *)

Steps == {"idle", "pin", "wait", "locked", "read", "done", "failed", "starved"}

FailedTasks == { a \in Appliers : task[a].step = "failed" }

HolderWorks == \A a \in Appliers : task[a].step \in {"locked", "read"} <=> lock = a

ReadsStay == \A a \in Appliers : task[a].step = "read" => task[a].seen = G!names

MigrationInv == G!TypeOK /\ G!EachMigrationOnce /\ HolderWorks /\ ReadsStay

\* The migrations that are applied are the first ones.
LEMMA AppliedNames ==
    ASSUME G!TypeOK, \A i \in DOMAIN applied : applied[i] = i
    PROVE  G!names = 1..Len(applied) /\ Len(applied) \in Nat /\ G!names \subseteq Files
<1>1. applied \in Seq(Files) /\ DOMAIN applied = 1..Len(applied) /\ Len(applied) \in Nat
  BY DEF G!TypeOK
<1> QED BY <1>1 DEF G!names

\* The file that a task goes on with is the first that is not applied.
LEMMA NextFile ==
    ASSUME MigrationInv, NEW a \in Appliers, task[a].step = "read", G!Pending(a) # {}
    PROVE  /\ G!Next_file(a) = Len(applied) + 1 /\ G!Next_file(a) \in Files
           /\ G!Next_file(a) \notin G!names
<1>1. /\ task[a].seen = 1..Len(applied) /\ Len(applied) \in Nat /\ G!names = 1..Len(applied)
      /\ 1..Len(applied) \subseteq Files
  BY AppliedNames DEF MigrationInv, ReadsStay, G!EachMigrationOnce
<1> DEFINE n == Cardinality(Files)
           next == Len(applied) + 1
<1>2. n \in Nat /\ Files = 1..n
  BY FrameworkAssumption, FS_CardinalityType
<1> HIDE DEF n
<1>3. G!Pending(a) = { f \in 1..n : f > Len(applied) }
  BY <1>1, <1>2 DEF G!Pending
<1>4. next \in G!Pending(a) /\ \A g \in G!Pending(a) : next <= g
  BY <1>1, <1>2, <1>3
<1>5. G!Next_file(a) \in G!Pending(a) /\ \A g \in G!Pending(a) : G!Next_file(a) <= g
  BY <1>4 DEF G!Next_file
<1>6. G!Next_file(a) = next
  BY <1>1, <1>2, <1>3, <1>4, <1>5
<1> QED BY <1>1, <1>2, <1>3, <1>4, <1>6

\* A step of one task that is not failing leaves no more of them failed.
LEMMA FailedCount ==
    ASSUME G!TypeOK, Cardinality(FailedTasks) <= faults,
           FailedTasks' \subseteq FailedTasks, faults' >= faults, faults' \in Nat
    PROVE  Cardinality(FailedTasks') <= faults'
<1>1. IsFiniteSet(FailedTasks)
  BY FrameworkAssumption, FS_Subset DEF FailedTasks
<1>2. IsFiniteSet(FailedTasks') /\ Cardinality(FailedTasks') <= Cardinality(FailedTasks)
  BY <1>1, FS_Subset
<1>3. Cardinality(FailedTasks) \in Nat /\ Cardinality(FailedTasks') \in Nat /\ faults \in Nat
  BY <1>1, <1>2, FS_CardinalityType, FrameworkAssumption DEF G!TypeOK
<1> QED BY <1>2, <1>3

LEMMA CardinalityView == \A S : G!Cardinality(S) = Cardinality(S)
  BY Zenon DEF G!Cardinality, Cardinality
LEMMA MigrationInit == G!Init => MigrationInv
<1> SUFFICES ASSUME G!Init PROVE MigrationInv
  OBVIOUS
<1>1. /\ applied = << >> /\ lock = None /\ faults = 0 /\ \A f \in Files : schema[f] = 0
      /\ \A a \in Appliers : task[a].step = "idle" /\ a # None
  BY FrameworkAssumption DEF G!Init, G!Idle
<1>2. G!TypeOK
  <2>1. << >> \in Seq(Files) /\ 0 \in 0..MaxFaults
    BY FrameworkAssumption
  <2> QED BY <2>1 DEF G!Init, G!TypeOK, G!Idle
<1>3. G!names = {}
  BY <1>1 DEF G!names
<1>4. FailedTasks = {}
  BY <1>1 DEF FailedTasks
<1>5. Cardinality(FailedTasks) <= faults
  BY <1>1, <1>4, FS_EmptySet
<1>6. G!EachMigrationOnce
  BY <1>1, <1>3, <1>5, CardinalityView DEF G!EachMigrationOnce, FailedTasks
<1> QED BY <1>1, <1>2, <1>6 DEF MigrationInv, HolderWorks, ReadsStay

\* What the invariant says, with the sets of the library.
LEMMA MigrationParts ==
    ASSUME MigrationInv
    PROVE  /\ task \in [Appliers -> [step : Steps, seen : SUBSET Files]]
           /\ Cardinality(FailedTasks) <= faults /\ faults \in 0..MaxFaults /\ MaxFaults \in Nat
           /\ lock \in Appliers \cup {None} /\ None \notin Appliers
  BY FrameworkAssumption, CardinalityView DEF MigrationInv, G!TypeOK, G!EachMigrationOnce, FailedTasks, Steps

\* A task that goes from one step to another, without touching what is applied.
LEMMA TaskMoves ==
    ASSUME MigrationInv, NEW a \in Appliers, NEW new \in [step : Steps, seen : SUBSET Files],
           task' = [task EXCEPT ![a] = new], UNCHANGED << applied, schema, faults >>,
           new.step # "failed",
           new.step \in {"locked", "read"} => lock' = a /\ (lock = None \/ lock = a),
           new.step \notin {"locked", "read"} => lock' = G!Unlocked(a),
           new.step = "read" => new.seen = G!names
    PROVE  MigrationInv'
<1>1. /\ task \in [Appliers -> [step : Steps, seen : SUBSET Files]] /\ None \notin Appliers
      /\ Cardinality(FailedTasks) <= faults /\ faults \in 0..MaxFaults /\ MaxFaults \in Nat
      /\ lock \in Appliers \cup {None}
  BY MigrationParts
<1>2. task'[a] = new /\ \A b \in Appliers : b # a => task'[b] = task[b]
  BY <1>1
<1>3. lock' \in Appliers \cup {None}
  BY <1>1 DEF G!Unlocked
<1>4. G!TypeOK'
  BY <1>1, <1>3 DEF MigrationInv, G!TypeOK, Steps
<1>5. FailedTasks' \subseteq FailedTasks
  BY <1>2 DEF FailedTasks
<1>6. Cardinality(FailedTasks') <= faults'
  BY <1>1, <1>5, FailedCount DEF MigrationInv
<1>7. G!names' = G!names
  BY DEF G!names
<1>8. G!EachMigrationOnce'
  BY <1>6, <1>7, CardinalityView DEF MigrationInv, G!EachMigrationOnce, FailedTasks
<1>9. HolderWorks'
  BY <1>1, <1>2 DEF MigrationInv, HolderWorks, G!Unlocked
<1>10. ReadsStay'
  BY <1>2, <1>7 DEF MigrationInv, ReadsStay
<1> QED BY <1>4, <1>8, <1>9, <1>10 DEF MigrationInv

\* The steps of a task but those that apply a file.
LEMMA WaitingKeeps ==
    ASSUME MigrationInv, NEW a \in Appliers,
           \/ G!apply(a) \/ G!acquire(a) \/ G!take_lock(a) \/ G!applied_names(a)
           \/ G!unlock(a) \/ G!acquire_timeout(a)
    PROVE  MigrationInv'
<1>1. task[a] \in [step : Steps, seen : SUBSET Files] /\ lock \in Appliers \cup {None} /\ None \notin Appliers
  BY MigrationParts
<1>2. \A step \in Steps : [task[a] EXCEPT !.step = step] \in [step : Steps, seen : SUBSET Files]
  BY <1>1
<1>3. lock = a <=> task[a].step \in {"locked", "read"}
  BY DEF MigrationInv, HolderWorks
<1>4. ASSUME NEW step \in Steps, G!Goes(a, step) PROVE task' = [task EXCEPT ![a] = [task[a] EXCEPT !.step = step]]
  BY <1>4, MigrationParts DEF G!Goes
<1>5. CASE G!apply(a)
  <2>1. G!Goes(a, "pin") /\ task[a].step = "idle" /\ UNCHANGED << applied, schema, lock, faults >>
    BY <1>5 DEF G!apply, G!Idle
  <2> QED BY <1>1, <1>2, <1>3, <1>4, <2>1, TaskMoves DEF Steps, G!Unlocked
<1>6. CASE G!acquire(a)
  <2>1. G!Goes(a, "wait") /\ task[a].step = "pin" /\ UNCHANGED << applied, schema, lock, faults >>
    BY <1>6 DEF G!acquire
  <2> QED BY <1>1, <1>2, <1>3, <1>4, <2>1, TaskMoves DEF Steps, G!Unlocked
<1>7. CASE G!take_lock(a)
  <2>1. G!Goes(a, "locked") /\ lock = None /\ lock' = a /\ UNCHANGED << applied, schema, faults >>
    BY <1>7 DEF G!take_lock, G!Available
  <2> QED BY <1>1, <1>2, <1>4, <2>1, TaskMoves DEF Steps
<1>8. CASE G!applied_names(a)
  <2>1. /\ task[a].step = "locked" /\ UNCHANGED << applied, schema, lock, faults >>
        /\ task' = [task EXCEPT ![a] = [step |-> "read", seen |-> G!names]]
    BY <1>8 DEF G!applied_names
  <2>2. G!names \subseteq Files
    BY AppliedNames DEF MigrationInv, G!EachMigrationOnce
  <2> DEFINE new == [step |-> "read", seen |-> G!names]
  <2>3. new \in [step : Steps, seen : SUBSET Files] /\ new.step = "read" /\ new.seen = G!names
    BY <2>2 DEF Steps
  <2>4. task' = [task EXCEPT ![a] = new] /\ lock' = a /\ lock = a
    BY <1>3, <2>1
  <2> HIDE DEF new
  <2> QED BY <2>1, <2>3, <2>4, TaskMoves
<1>9. CASE G!unlock(a)
  <2>1. G!Goes(a, "done") /\ lock' = G!Unlocked(a) /\ UNCHANGED << applied, schema, faults >>
    BY <1>9 DEF G!unlock
  <2> QED BY <1>1, <1>2, <1>4, <2>1, TaskMoves DEF Steps
<1>10. CASE G!acquire_timeout(a)
  <2>1. G!Goes(a, "starved") /\ lock' = G!Unlocked(a) /\ UNCHANGED << applied, schema, faults >>
    BY <1>10 DEF G!acquire_timeout
  <2> QED BY <1>1, <1>2, <1>4, <2>1, TaskMoves DEF Steps
<1> QED BY <1>5, <1>6, <1>7, <1>8, <1>9, <1>10

\* The first file that is not applied takes effect, or fails after a fault.
LEMMA FileKeeps ==
    ASSUME MigrationInv, NEW a \in Appliers, G!apply_file(a)
    PROVE  MigrationInv'
<1> DEFINE f == G!Next_file(a)
           n == Len(applied)
<1>1. /\ task \in [Appliers -> [step : Steps, seen : SUBSET Files]] /\ None \notin Appliers
      /\ Cardinality(FailedTasks) <= faults /\ faults \in 0..MaxFaults /\ MaxFaults \in Nat
      /\ lock \in Appliers \cup {None}
  BY MigrationParts
<1>2. task[a].step = "read" /\ f = n + 1 /\ f \in Files /\ f \notin G!names
  BY NextFile DEF G!apply_file
<1>3. lock = a /\ task[a].seen = G!names /\ \A b \in Appliers : b # a => task[b].step \notin {"locked", "read"}
  BY <1>1, <1>2 DEF MigrationInv, HolderWorks, ReadsStay
<1>4. applied \in Seq(Files) /\ n \in Nat /\ G!names = 1..n /\ schema \in [Files -> Nat]
  BY AppliedNames DEF MigrationInv, G!TypeOK, G!EachMigrationOnce
<1>5. CASE /\ applied' = Append(applied, f) /\ schema' = [schema EXCEPT ![f] = @ + 1]
           /\ task' = [task EXCEPT ![a].seen = @ \cup {f}] /\ UNCHANGED << lock, faults >>
  <2>1. /\ applied' \in Seq(Files) /\ DOMAIN applied' = 1..(n + 1) /\ applied'[n + 1] = f
        /\ \A i \in 1..n : applied'[i] = applied[i]
    BY <1>2, <1>4, <1>5
  <2>2. /\ task'[a].step = "read" /\ task'[a].seen = G!names \cup {f}
        /\ \A b \in Appliers : b # a => task'[b] = task[b]
        /\ task' \in [Appliers -> [step : Steps, seen : SUBSET Files]]
    BY <1>1, <1>2, <1>3, <1>5
  <2>3. ASSUME NEW i \in 1..(n + 1) PROVE applied'[i] = i
    <3>1. CASE i = n + 1
      BY <1>2, <2>1, <3>1
    <3>2. CASE i \in 1..n
      <4>1. i \in DOMAIN applied
        BY <1>4, <3>2
      <4>2. applied[i] = i
        BY <4>1 DEF MigrationInv, G!EachMigrationOnce
      <4> QED BY <2>1, <3>2, <4>2
    <3> QED BY <1>4, <3>1, <3>2
  <2>4. G!names' = 1..(n + 1)
    BY <2>1, <2>3 DEF G!names
  <2>5. G!TypeOK'
    BY <1>1, <1>4, <1>5, <2>1, <2>2 DEF MigrationInv, G!TypeOK, Steps
  <2>6. FailedTasks' = FailedTasks
    BY <1>2, <2>2 DEF FailedTasks
  <2>7. \A g \in Files : schema'[g] = IF g \in G!names' THEN 1 ELSE 0
    <3>1. schema'[f] = 1 /\ \A g \in Files : g # f => schema'[g] = schema[g]
      BY <1>2, <1>4, <1>5 DEF MigrationInv, G!EachMigrationOnce
    <3>2. \A g \in Files : g # f => (g \in G!names' <=> g \in G!names)
      BY <1>2, <1>4, <2>4
    <3>3. f \in G!names'
      BY <1>2, <1>4, <2>4
    <3> QED BY <3>1, <3>2, <3>3 DEF MigrationInv, G!EachMigrationOnce
  <2>8. G!EachMigrationOnce'
    <3>1. Cardinality(FailedTasks') <= faults'
      BY <1>1, <1>5, <2>6
    <3>2. G!Cardinality({ b \in Appliers : task'[b].step = "failed" }) <= faults'
      BY <3>1, CardinalityView DEF FailedTasks
    <3> QED BY <2>1, <2>3, <2>7, <3>2 DEF G!EachMigrationOnce
  <2>9. HolderWorks'
    BY <1>1, <1>2, <1>3, <1>5, <2>2 DEF MigrationInv, HolderWorks
  <2>10. ReadsStay'
    <3>1. G!names \cup {f} = G!names'
      BY <1>2, <1>4, <2>4
    <3>2. \A b \in Appliers : task'[b].step = "read" => b = a
      BY <1>3, <2>2
    <3> QED BY <2>2, <3>1, <3>2 DEF ReadsStay
  <2> QED BY <2>5, <2>8, <2>9, <2>10 DEF MigrationInv
<1>6. CASE /\ faults < MaxFaults /\ faults' = faults + 1 /\ lock' = None
           /\ G!Goes(a, "failed") /\ UNCHANGED << applied, schema >>
  <2>1. /\ task'[a].step = "failed" /\ \A b \in Appliers : b # a => task'[b] = task[b]
        /\ task' \in [Appliers -> [step : Steps, seen : SUBSET Files]]
    BY <1>1, <1>6 DEF G!Goes, Steps
  <2>2. G!TypeOK'
    BY <1>1, <1>6, <2>1 DEF MigrationInv, G!TypeOK, Steps
  <2>3. FailedTasks' = FailedTasks \cup {a} /\ IsFiniteSet(FailedTasks)
    <3>1. FailedTasks' = FailedTasks \cup {a}
      BY <2>1 DEF FailedTasks
    <3>2. FailedTasks \subseteq Appliers
      BY DEF FailedTasks
    <3> QED BY <3>1, <3>2, FrameworkAssumption, FS_Subset
  <2>4. Cardinality(FailedTasks') <= Cardinality(FailedTasks) + 1 /\ Cardinality(FailedTasks) \in Nat
    <3>1. Cardinality(FailedTasks) \in Nat
      BY <2>3, FS_CardinalityType
    <3>2. CASE a \in FailedTasks
      <4>1. FailedTasks' = FailedTasks
        BY <2>3, <3>2
      <4>2. Cardinality(FailedTasks') = Cardinality(FailedTasks)
        BY <4>1, Zenon
      <4> QED BY <3>1, <4>2
    <3>3. CASE a \notin FailedTasks
      <4>1. Cardinality(FailedTasks \cup {a}) = Cardinality(FailedTasks) + 1
        BY <2>3, <3>3, FS_AddElement
      <4>2. Cardinality(FailedTasks') = Cardinality(FailedTasks \cup {a})
        BY <2>3, Zenon
      <4> QED BY <3>1, <4>1, <4>2
    <3> QED BY <3>2, <3>3
  <2>5. Cardinality(FailedTasks') \in Nat
    BY <2>3, FS_AddElement, FS_CardinalityType
  <2>6. Cardinality(FailedTasks') <= faults'
    BY <1>1, <1>6, <2>4, <2>5
  <2>7. G!Cardinality({ b \in Appliers : task'[b].step = "failed" }) <= faults'
    BY <2>6, CardinalityView DEF FailedTasks
  <2>8. G!EachMigrationOnce'
    BY <1>6, <2>7 DEF MigrationInv, G!EachMigrationOnce, G!names
  <2>9. HolderWorks' /\ ReadsStay'
    BY <1>1, <1>3, <1>6, <2>1 DEF HolderWorks, ReadsStay
  <2> QED BY <2>2, <2>8, <2>9 DEF MigrationInv
<1> QED BY <1>2, <1>3, <1>5, <1>6 DEF G!apply_file, G!Unlocked

LEMMA ServerDies ==
    ASSUME MigrationInv, NEW s \in Servers, G!crash(s)
    PROVE  MigrationInv'
<1>1. /\ task \in [Appliers -> [step : Steps, seen : SUBSET Files]] /\ None \notin Appliers
      /\ Cardinality(FailedTasks) <= faults /\ faults \in 0..MaxFaults /\ MaxFaults \in Nat
      /\ lock \in Appliers \cup {None}
  BY MigrationParts
<1>2. /\ faults < MaxFaults /\ faults' = faults + 1 /\ UNCHANGED << applied, schema >>
      /\ task' = [a \in Appliers |-> IF Server[a] = s THEN G!Idle ELSE task[a]]
      /\ lock' = IF lock # None /\ Server[lock] = s THEN None ELSE lock
  BY DEF G!crash
<1>3. G!TypeOK'
  BY <1>1, <1>2 DEF MigrationInv, G!TypeOK, G!Idle, Steps
<1>4. FailedTasks' \subseteq FailedTasks
  BY <1>2 DEF FailedTasks, G!Idle
<1>5. Cardinality(FailedTasks') <= faults'
  BY <1>1, <1>2, <1>4, FailedCount DEF MigrationInv
<1>6. G!Cardinality({ b \in Appliers : task'[b].step = "failed" }) <= faults'
  BY <1>5, CardinalityView DEF FailedTasks
<1>7. G!EachMigrationOnce'
  BY <1>2, <1>6 DEF MigrationInv, G!EachMigrationOnce, G!names
<1>8. HolderWorks' /\ ReadsStay'
  BY <1>1, <1>2 DEF MigrationInv, HolderWorks, ReadsStay, G!Idle, G!names
<1> QED BY <1>3, <1>7, <1>8 DEF MigrationInv

LEMMA MigrationStep == MigrationInv /\ [G!Next]_migrating => MigrationInv'
<1>1. ASSUME MigrationInv, UNCHANGED migrating PROVE MigrationInv'
  <2>1. UNCHANGED << applied, schema, lock, task, faults >>
    BY <1>1 DEF migrating
  <2>2. G!TypeOK' /\ HolderWorks' /\ ReadsStay'
    BY <1>1, <2>1 DEF MigrationInv, G!TypeOK, HolderWorks, ReadsStay, G!names
  <2>3. G!EachMigrationOnce'
    BY <1>1, <2>1 DEF MigrationInv, G!EachMigrationOnce, G!names
  <2> QED BY <2>2, <2>3 DEF MigrationInv
<1> QED BY <1>1, WaitingKeeps, FileKeeps, ServerDies DEF G!Next, G!Step

----------------------------------------------------------------------------
(* The reorder worker.  A run that no approval overtakes knows of all that  *)
(* approved orders bring, so that what it drafts on top stays under the     *)
(* ceiling.                                                                 *)

OrderRecord == [status : {"none", "draft", "submitted", "approved"}, qty : Qtys]

\* The quantity on the orders of a book that are in one of the statuses.
OrderedIn(book, statuses) ==
    Sum([o \in Orders |-> book[o].qty], { o \in Orders : book[o].status \in statuses })

\* The same without the order o.
Others(book, statuses, o) ==
    Sum([x \in Orders |-> book[x].qty], { x \in Orders \ {o} : book[x].status \in statuses })

RunsSeeOrders == \A w \in Runs : run[w] # O!NoRun => onOrder <= run[w].position

ReorderInv ==
    /\ O!TypeOK
    /\ onOrder = OrderedIn(order, {"approved"})
    /\ ~overtaken => RunsSeeOrders /\ O!OneShortageOneDraft

\* An order that is written counts with its quantity where its status counts.
LEMMA OneOrder ==
    ASSUME NEW book \in [Orders -> OrderRecord], NEW o \in Orders, NEW statuses
    PROVE  /\ Others(book, statuses, o) \in Nat
           /\ OrderedIn(book, statuses)
                = Others(book, statuses, o) + (IF book[o].status \in statuses THEN book[o].qty ELSE 0)
<1> DEFINE S == { x \in Orders \ {o} : book[x].status \in statuses }
           Counted == { x \in Orders : book[x].status \in statuses }
           qty == [x \in Orders |-> book[x].qty]
<1>1. IsFiniteSet(S) /\ o \notin S
  <2>1. S \subseteq Orders
    OBVIOUS
  <2> QED BY <2>1, FrameworkAssumption, FS_Subset
<1>2. Sum(qty, S) \in Nat
  BY <1>1, SumType
<1>3. qty[o] = book[o].qty /\ qty[o] \in Qtys
  BY DEF OrderRecord
<1>4. OrderedIn(book, statuses) = Sum(qty, Counted) /\ Others(book, statuses, o) = Sum(qty, S)
  BY DEF OrderedIn, Others
<1>5. CASE book[o].status \in statuses
  <2>1. Counted = S \cup {o}
    BY <1>5
  <2> HIDE DEF S, Counted, qty
  <2>2. Sum(qty, S \cup {o}) = Sum(qty, S) + qty[o]
    BY <1>1, <1>3, SumInsert
  <2>3. Sum(qty, Counted) = Sum(qty, S \cup {o})
    BY <2>1
  <2> QED BY <1>2, <1>3, <1>4, <1>5, <2>2, <2>3
<1>6. CASE book[o].status \notin statuses
  <2>1. Counted = S
    BY <1>6
  <2> HIDE DEF S, Counted, qty
  <2>2. Sum(qty, Counted) = Sum(qty, S)
    BY <2>1
  <2> QED BY <1>2, <1>4, <1>6, <2>2
<1> QED BY <1>2, <1>4, <1>5, <1>6

\* The others stay as they are.
LEMMA OthersSame ==
    ASSUME NEW o \in Orders, NEW statuses, NEW book \in [Orders -> OrderRecord],
           NEW next \in [Orders -> OrderRecord], \A x \in Orders \ {o} : next[x] = book[x]
    PROVE  Others(next, statuses, o) = Others(book, statuses, o)
<1> DEFINE S == { x \in Orders \ {o} : book[x].status \in statuses }
           f == [x \in Orders |-> book[x].qty]
           g == [x \in Orders |-> next[x].qty]
<1>1. { x \in Orders \ {o} : next[x].status \in statuses } = S
  OBVIOUS
<1>2. \A x \in S : f[x] = g[x]
  OBVIOUS
<1>3. Others(next, statuses, o) = Sum(g, S) /\ Others(book, statuses, o) = Sum(f, S)
  BY <1>1 DEF Others
<1> HIDE DEF S, f, g
<1> QED BY <1>2, <1>3, SumSame

\* The sums of the worker are those over the orders of its statuses.
LEMMA ReorderTerms ==
    /\ O!drafted = OrderedIn(order, {"draft", "submitted"})
    /\ O!drafted' = OrderedIn(order', {"draft", "submitted"})
    /\ O!Qtys = Qtys
<1>1. \A f, S : O!Units(f, S) = Units(f, S)
  BY DEF O!Units, Units
<1>2. \A f, S : O!Cardinality(Units(f, S)) = Cardinality(Units(f, S))
  BY Zenon DEF O!Cardinality, Cardinality
<1>3. O!drafted = Sum(O!qty, O!Pipeline)
  BY <1>1, <1>2 DEF O!Sum, Sum, O!drafted
<1>4. O!Qtys = Qtys
  BY DEF O!Qtys, Qtys
<1>5. Sum(O!qty, O!Pipeline) = OrderedIn(order, {"draft", "submitted"})
  BY DEF OrderedIn, O!qty, O!Pipeline
<1>6. O!drafted' = Sum(O!qty', O!Pipeline')
  BY <1>1, <1>2 DEF O!Sum, Sum, O!drafted
<1>7. Sum(O!qty', O!Pipeline') = OrderedIn(order', {"draft", "submitted"})
  BY DEF OrderedIn, O!qty, O!Pipeline
<1> QED BY <1>3, <1>4, <1>5, <1>6, <1>7

\* What the policy orders at a position is a quantity.
LEMMA PolicyQuantity ==
    ASSUME NEW p \in Nat, p <= ReorderLevel
    PROVE  O!order_qty(p) \in Nat /\ O!order_qty(p) \in Qtys /\ p + O!order_qty(p) \in O!Ceiling
<1>1. /\ {ReorderLevel, MaxLevel, MinOrderQty} \subseteq Nat /\ OrderMultiple \in Nat \ {0}
      /\ p \in 0..ReorderLevel /\ O!order_qty(p) <= MaxQty
  BY FrameworkAssumption
<1> DEFINE q == O!Raised(MaxLevel - p)
           d == (q + OrderMultiple - 1) \div OrderMultiple
<1>2. q \in Nat
  BY <1>1 DEF O!Raised
<1> HIDE DEF q
<1>3. d \in Nat
  BY <1>1, <1>2
<1> HIDE DEF d
<1>4. d * OrderMultiple \in Nat
  BY <1>1, <1>3
<1>5. O!order_qty(p) = d * OrderMultiple
  BY DEF O!order_qty, O!Rounded, q, d
<1> QED BY <1>1, <1>4, <1>5, MaxQtyAssumption DEF Qtys, O!Ceiling

LEMMA ReorderInit == O!Init => ReorderInv
<1> SUFFICES ASSUME O!Init PROVE ReorderInv
  OBVIOUS
<1>1. /\ onHand = 0 /\ onOrder = 0 /\ overtaken = FALSE
      /\ order = [o \in Orders |-> O!NoOrder] /\ run = [w \in Runs |-> O!NoRun]
  BY DEF O!Init
<1>2. O!TypeOK
  <2>1. 0 \in O!Qtys
    BY ReorderTerms, MaxQtyAssumption DEF Qtys
  <2> QED BY <1>1, <2>1 DEF O!TypeOK, O!NoOrder, O!NoRun
<1>3. \A statuses : OrderedIn(order, statuses) = 0
  BY <1>1, SumZero DEF OrderedIn, O!NoOrder
<1>4. O!OneShortageOneDraft
  <2>1. ReorderLevel \in Nat
    BY FrameworkAssumption
  <2>2. O!order_qty(0) \in Nat /\ 0 + O!order_qty(0) \in O!Ceiling
    BY <2>1, PolicyQuantity
  <2>3. O!drafted = 0
    BY <1>3, ReorderTerms
  <2> QED BY <1>1, <2>2, <2>3 DEF O!OneShortageOneDraft
<1> QED BY <1>1, <1>2, <1>3, <1>4 DEF ReorderInv, RunsSeeOrders

\* What the orders sum to, and what one of them holds.
LEMMA BookTyped ==
    ASSUME ReorderInv
    PROVE  /\ order \in [Orders -> OrderRecord] /\ onHand \in Qtys /\ onOrder \in Nat
           /\ run \in [Runs -> [status : {"idle", "level"}, position : Nat]]
           /\ O!drafted \in Nat /\ O!NoOrder \in OrderRecord /\ Qtys \subseteq Nat
<1>1. \A o \in Orders : order[o] \in OrderRecord
  BY ReorderTerms DEF ReorderInv, O!TypeOK, OrderRecord
<1>2. OrderedIn(order, {"draft", "submitted"}) \in Nat
  <2>1. { o \in Orders : order[o].status \in {"draft", "submitted"} } \subseteq Orders
    OBVIOUS
  <2> QED BY <2>1, FrameworkAssumption, FS_Subset, SumType DEF OrderedIn
<1>3. O!NoOrder \in OrderRecord /\ Qtys \subseteq Nat
  BY MaxQtyAssumption DEF OrderRecord, Qtys, O!NoOrder
<1> QED BY <1>2, <1>3, ReorderTerms DEF ReorderInv, O!TypeOK, OrderRecord

\* An order that is written for what is short keeps the level under the ceiling,
\* one that only goes on or goes away brings it no higher.
LEMMA OrderWritten ==
    ASSUME ReorderInv, NEW o \in Orders, NEW new \in OrderRecord,
           order' = [order EXCEPT ![o] = new]
    PROVE  \E a \in Nat, d \in Nat :
             /\ OrderedIn(order, {"approved"}) = a + (IF order[o].status = "approved" THEN order[o].qty ELSE 0)
             /\ OrderedIn(order', {"approved"}) = a + (IF new.status = "approved" THEN new.qty ELSE 0)
             /\ O!drafted = d + (IF order[o].status \in {"draft", "submitted"} THEN order[o].qty ELSE 0)
             /\ O!drafted' = d + (IF new.status \in {"draft", "submitted"} THEN new.qty ELSE 0)
<1>1. /\ order \in [Orders -> OrderRecord] /\ order' \in [Orders -> OrderRecord]
      /\ order'[o] = new /\ \A x \in Orders \ {o} : order'[x] = order[x]
  BY BookTyped
<1>2. /\ O!drafted = OrderedIn(order, {"draft", "submitted"})
      /\ O!drafted' = OrderedIn(order', {"draft", "submitted"})
  BY ReorderTerms
<1>3. ASSUME NEW statuses
      PROVE  /\ Others(order, statuses, o) \in Nat
             /\ OrderedIn(order, statuses)
                  = Others(order, statuses, o) + (IF order[o].status \in statuses THEN order[o].qty ELSE 0)
             /\ OrderedIn(order', statuses)
                  = Others(order, statuses, o) + (IF new.status \in statuses THEN new.qty ELSE 0)
  <2>1. Others(order', statuses, o) = Others(order, statuses, o)
    BY <1>1, OthersSame
  <2>2. OrderedIn(order', statuses)
          = Others(order', statuses, o) + (IF order'[o].status \in statuses THEN order'[o].qty ELSE 0)
    BY <1>1, OneOrder
  <2>3. /\ Others(order, statuses, o) \in Nat
        /\ OrderedIn(order, statuses)
             = Others(order, statuses, o) + (IF order[o].status \in statuses THEN order[o].qty ELSE 0)
    BY <1>1, OneOrder
  <2> QED BY <1>1, <2>1, <2>2, <2>3
<1> DEFINE a == Others(order, {"approved"}, o)
           d == Others(order, {"draft", "submitted"}, o)
<1>4. /\ order[o].status \in {"approved"} <=> order[o].status = "approved"
      /\ new.status \in {"approved"} <=> new.status = "approved"
  OBVIOUS
<1>5. /\ a \in Nat
      /\ OrderedIn(order, {"approved"}) = a + (IF order[o].status = "approved" THEN order[o].qty ELSE 0)
      /\ OrderedIn(order', {"approved"}) = a + (IF new.status = "approved" THEN new.qty ELSE 0)
  BY <1>3, <1>4
<1>6. /\ d \in Nat
      /\ O!drafted = d + (IF order[o].status \in {"draft", "submitted"} THEN order[o].qty ELSE 0)
      /\ O!drafted' = d + (IF new.status \in {"draft", "submitted"} THEN new.qty ELSE 0)
  BY <1>2, <1>3
<1> HIDE DEF a, d
<1> QED BY <1>5, <1>6

\* A run drafts what is short of what it has seen.
LEMMA DraftKeeps ==
    ASSUME ReorderInv, NEW w \in Runs, O!run_finish(w)
    PROVE  ReorderInv'
<1> DEFINE p == O!position(w)
<1>1. /\ order \in [Orders -> OrderRecord] /\ run \in [Runs -> [status : {"idle", "level"}, position : Nat]]
      /\ onOrder \in Nat /\ O!drafted \in Nat
  BY BookTyped
<1>2. /\ run[w] # O!NoRun /\ run' = [run EXCEPT ![w] = O!NoRun]
      /\ UNCHANGED << onHand, onOrder, overtaken >>
  BY DEF O!run_finish
<1>3. O!NoRun \in [status : {"idle", "level"}, position : Nat]
  BY DEF O!NoRun
<1>4. run' \in [Runs -> [status : {"idle", "level"}, position : Nat]]
      /\ \A v \in Runs : run'[v] # O!NoRun => run[v] # O!NoRun /\ run'[v] = run[v]
  BY <1>1, <1>2, <1>3
<1>5. p \in Nat /\ p = run[w].position + O!drafted
  BY <1>1 DEF O!position
<1>6. RunsSeeOrders => RunsSeeOrders'
  BY <1>2, <1>4 DEF RunsSeeOrders
<1>7. CASE UNCHANGED order
  <2>1. O!drafted' = O!drafted /\ OrderedIn(order', {"approved"}) = OrderedIn(order, {"approved"})
    BY <1>7, ReorderTerms
  <2>2. O!TypeOK'
    BY <1>2, <1>4, <1>7 DEF ReorderInv, O!TypeOK
  <2>3. O!OneShortageOneDraft => O!OneShortageOneDraft'
    BY <1>2, <2>1 DEF O!OneShortageOneDraft, O!Ceiling, O!order_qty, O!Rounded, O!Raised
  <2> QED BY <1>2, <1>6, <2>1, <2>2, <2>3 DEF ReorderInv
<1>8. CASE p <= ReorderLevel /\ \E o \in Orders : /\ order[o] = O!NoOrder
                                                  /\ order' = [order EXCEPT ![o] = [status |-> "draft", qty |-> O!order_qty(p)]]
  <2>1. O!order_qty(p) \in Nat /\ O!order_qty(p) \in Qtys /\ p + O!order_qty(p) \in O!Ceiling
    BY <1>5, <1>8, PolicyQuantity
  <2> DEFINE new == [status |-> "draft", qty |-> O!order_qty(p)]
  <2>2. PICK o \in Orders : order[o] = O!NoOrder /\ order' = [order EXCEPT ![o] = new]
    BY <1>8
  <2>3. new \in OrderRecord /\ new.status = "draft" /\ new.qty = O!order_qty(p)
    BY <2>1 DEF OrderRecord
  <2>4. order[o].status = "none"
    BY <2>2 DEF O!NoOrder
  <2> HIDE DEF new
  <2>5. /\ OrderedIn(order', {"approved"}) = OrderedIn(order, {"approved"})
        /\ O!drafted' = O!drafted + new.qty
    <3>1. PICK a \in Nat, d \in Nat :
             /\ OrderedIn(order, {"approved"}) = a + (IF order[o].status = "approved" THEN order[o].qty ELSE 0)
             /\ OrderedIn(order', {"approved"}) = a + (IF new.status = "approved" THEN new.qty ELSE 0)
             /\ O!drafted = d + (IF order[o].status \in {"draft", "submitted"} THEN order[o].qty ELSE 0)
             /\ O!drafted' = d + (IF new.status \in {"draft", "submitted"} THEN new.qty ELSE 0)
      BY <2>2, <2>3, OrderWritten
    <3> QED BY <2>1, <2>3, <2>4, <3>1
  <2>6. order' \in [Orders -> OrderRecord]
    BY <1>1, <2>2, <2>3
  <2>7. O!TypeOK'
    BY <1>2, <1>4, <2>6, ReorderTerms DEF ReorderInv, O!TypeOK, OrderRecord
  <2>8. RunsSeeOrders => O!OneShortageOneDraft'
    <3>1. SUFFICES ASSUME RunsSeeOrders PROVE O!drafted' + onOrder' <= p + O!order_qty(p)
      BY <2>1 DEF O!OneShortageOneDraft, O!Ceiling, O!order_qty, O!Rounded, O!Raised
    <3>2. onOrder <= run[w].position /\ run[w].position \in Nat
      BY <1>1, <1>2, <3>1 DEF RunsSeeOrders
    <3> QED BY <1>1, <1>2, <1>5, <2>1, <2>3, <2>5, <3>2
  <2>9. onOrder' = OrderedIn(order', {"approved"})
    BY <1>2, <2>5 DEF ReorderInv
  <2> QED BY <1>2, <1>6, <2>7, <2>8, <2>9 DEF ReorderInv
<1>9. p \in Nat /\ ReorderLevel \in Nat
  BY <1>5, FrameworkAssumption
<1> QED BY <1>7, <1>8, <1>9 DEF O!run_finish

\* An order that goes on, is dropped or is received brings no more than before.
LEMMA BuyerKeeps ==
    ASSUME ReorderInv, NEW o \in Orders,
           O!submit(o) \/ O!approve(o) \/ O!drop(o) \/ O!receive(o)
    PROVE  ReorderInv'
<1>1. /\ order \in [Orders -> OrderRecord] /\ onHand \in Qtys /\ onOrder \in Nat
      /\ run \in [Runs -> [status : {"idle", "level"}, position : Nat]]
      /\ O!drafted \in Nat /\ O!NoOrder \in OrderRecord /\ Qtys \subseteq Nat
  BY BookTyped
<1>2. order[o] \in OrderRecord /\ order[o].qty \in Nat
  BY <1>1 DEF OrderRecord
<1>3. onOrder = OrderedIn(order, {"approved"})
  BY DEF ReorderInv
<1>4. ASSUME O!TypeOK', onOrder' = OrderedIn(order', {"approved"}), UNCHANGED run,
             overtaken' \/ onOrder' <= onOrder,
             onOrder' + O!drafted' <= onOrder + O!drafted, overtaken => overtaken',
             O!drafted' \in Nat
      PROVE  ReorderInv'
  <2>1. ASSUME ~overtaken' PROVE RunsSeeOrders'
    <3>1. SUFFICES ASSUME NEW w \in Runs, run[w] # O!NoRun PROVE onOrder' <= run[w].position
      BY <1>4 DEF RunsSeeOrders
    <3>2. onOrder <= run[w].position /\ run[w].position \in Nat
      BY <1>1, <1>4, <2>1, <3>1 DEF ReorderInv, RunsSeeOrders
    <3>3. onOrder' \in Nat
      BY <1>4 DEF O!TypeOK
    <3> QED BY <1>1, <1>4, <2>1, <3>2, <3>3
  <2>2. ASSUME ~overtaken' PROVE O!OneShortageOneDraft'
    <3>1. PICK p \in 0..ReorderLevel : O!drafted + onOrder <= p + O!order_qty(p)
      BY <1>4, <2>2 DEF ReorderInv, O!OneShortageOneDraft, O!Ceiling
    <3>2. p \in Nat /\ p <= ReorderLevel
      BY FrameworkAssumption
    <3>3. O!order_qty(p) \in Nat /\ p + O!order_qty(p) \in O!Ceiling
      BY <3>2, PolicyQuantity
    <3>4. onOrder' \in Nat
      BY <1>4 DEF O!TypeOK
    <3>5. O!drafted' + onOrder' <= p + O!order_qty(p)
      BY <1>1, <1>4, <3>1, <3>2, <3>3, <3>4
    <3> QED BY <3>3, <3>5 DEF O!OneShortageOneDraft, O!Ceiling, O!order_qty, O!Rounded, O!Raised
  <2> QED BY <1>4, <2>1, <2>2 DEF ReorderInv
<1>5. ASSUME NEW status \in {"submitted", "approved"}, order' = [order EXCEPT ![o].status = status]
      PROVE  /\ order' = [order EXCEPT ![o] = [status |-> status, qty |-> order[o].qty]]
             /\ [status |-> status, qty |-> order[o].qty] \in OrderRecord
             /\ order' \in [Orders -> OrderRecord]
  <2>1. [order[o] EXCEPT !.status = status] = [status |-> status, qty |-> order[o].qty]
    BY <1>2 DEF OrderRecord
  <2>2. order' = [order EXCEPT ![o] = [order[o] EXCEPT !.status = status]]
    BY <1>1, <1>5
  <2>3. [status |-> status, qty |-> order[o].qty] \in OrderRecord
    BY <1>2 DEF OrderRecord
  <2> QED BY <1>1, <2>1, <2>2, <2>3
<1>6. ASSUME O!submit(o) PROVE ReorderInv'
  <2> DEFINE new == [status |-> "submitted", qty |-> order[o].qty]
  <2>1. /\ order' = [order EXCEPT ![o] = new] /\ new \in OrderRecord /\ order' \in [Orders -> OrderRecord]
        /\ new.status = "submitted" /\ new.qty = order[o].qty /\ order[o].status = "draft"
        /\ UNCHANGED << onHand, onOrder, run, overtaken >>
    BY <1>5, <1>6 DEF O!submit
  <2> HIDE DEF new
  <2>2. /\ OrderedIn(order', {"approved"}) = OrderedIn(order, {"approved"})
        /\ O!drafted' = O!drafted
    <3>1. PICK a \in Nat, d \in Nat :
             /\ OrderedIn(order, {"approved"}) = a + (IF order[o].status = "approved" THEN order[o].qty ELSE 0)
             /\ OrderedIn(order', {"approved"}) = a + (IF new.status = "approved" THEN new.qty ELSE 0)
             /\ O!drafted = d + (IF order[o].status \in {"draft", "submitted"} THEN order[o].qty ELSE 0)
             /\ O!drafted' = d + (IF new.status \in {"draft", "submitted"} THEN new.qty ELSE 0)
      BY <2>1, OrderWritten
    <3> QED BY <1>2, <2>1, <3>1
  <2>3. O!TypeOK'
    BY <2>1, ReorderTerms DEF ReorderInv, O!TypeOK, OrderRecord
  <2> QED BY <1>1, <1>3, <1>4, <2>1, <2>2, <2>3
<1>7. ASSUME O!approve(o) PROVE ReorderInv'
  <2> DEFINE new == [status |-> "approved", qty |-> order[o].qty]
  <2>1. /\ order' = [order EXCEPT ![o] = new] /\ new \in OrderRecord /\ order' \in [Orders -> OrderRecord]
        /\ new.status = "approved" /\ new.qty = order[o].qty /\ order[o].status = "submitted"
        /\ UNCHANGED << onHand, run >> /\ onOrder' = onOrder + order[o].qty
        /\ overtaken' = (overtaken \/ \E w \in Runs : run[w] # O!NoRun)
    BY <1>5, <1>7 DEF O!approve
  <2> HIDE DEF new
  <2>2. PICK a \in Nat, d \in Nat :
          /\ OrderedIn(order, {"approved"}) = a /\ OrderedIn(order', {"approved"}) = a + order[o].qty
          /\ O!drafted = d + order[o].qty /\ O!drafted' = d
    <3>1. PICK a \in Nat, d \in Nat :
             /\ OrderedIn(order, {"approved"}) = a + (IF order[o].status = "approved" THEN order[o].qty ELSE 0)
             /\ OrderedIn(order', {"approved"}) = a + (IF new.status = "approved" THEN new.qty ELSE 0)
             /\ O!drafted = d + (IF order[o].status \in {"draft", "submitted"} THEN order[o].qty ELSE 0)
             /\ O!drafted' = d + (IF new.status \in {"draft", "submitted"} THEN new.qty ELSE 0)
      BY <2>1, OrderWritten
    <3> QED BY <1>2, <2>1, <3>1
  <2>3. /\ onOrder' = OrderedIn(order', {"approved"}) /\ onOrder' \in Nat
        /\ onOrder' + O!drafted' = onOrder + O!drafted
    BY <1>2, <1>3, <2>1, <2>2
  <2>4. O!TypeOK'
    BY <2>1, <2>3, ReorderTerms DEF ReorderInv, O!TypeOK, OrderRecord
  <2>5. CASE overtaken'
    BY <2>4, <2>3, <2>5 DEF ReorderInv
  <2>6. CASE ~overtaken'
    <3>1. RunsSeeOrders'
      BY <2>1, <2>6 DEF RunsSeeOrders
    <3>2. O!OneShortageOneDraft'
      <4>1. PICK p \in 0..ReorderLevel : O!drafted + onOrder <= p + O!order_qty(p)
        BY <2>1, <2>6 DEF ReorderInv, O!OneShortageOneDraft, O!Ceiling
      <4>2. O!drafted' + onOrder' <= p + O!order_qty(p)
        BY <1>1, <2>2, <2>3, <4>1
      <4> QED BY <4>2 DEF O!OneShortageOneDraft, O!Ceiling, O!order_qty, O!Rounded, O!Raised
    <3> QED BY <2>3, <2>4, <3>1, <3>2 DEF ReorderInv
  <2> QED BY <2>5, <2>6
<1>8. ASSUME order' = [order EXCEPT ![o] = O!NoOrder], UNCHANGED << run, overtaken >>, onHand' \in Qtys,
             onOrder' = IF order[o].status = "approved" THEN onOrder - order[o].qty ELSE onOrder
      PROVE  ReorderInv'
  <2>1. O!NoOrder.status = "none" /\ O!NoOrder.qty = 0
    BY DEF O!NoOrder
  <2>2. PICK a \in Nat, d \in Nat :
           /\ OrderedIn(order, {"approved"}) = a + (IF order[o].status = "approved" THEN order[o].qty ELSE 0)
           /\ OrderedIn(order', {"approved"}) = a
           /\ O!drafted = d + (IF order[o].status \in {"draft", "submitted"} THEN order[o].qty ELSE 0)
           /\ O!drafted' = d
    <3>1. PICK a \in Nat, d \in Nat :
             /\ OrderedIn(order, {"approved"}) = a + (IF order[o].status = "approved" THEN order[o].qty ELSE 0)
             /\ OrderedIn(order', {"approved"}) = a + (IF O!NoOrder.status = "approved" THEN O!NoOrder.qty ELSE 0)
             /\ O!drafted = d + (IF order[o].status \in {"draft", "submitted"} THEN order[o].qty ELSE 0)
             /\ O!drafted' = d + (IF O!NoOrder.status \in {"draft", "submitted"} THEN O!NoOrder.qty ELSE 0)
      BY <1>1, <1>8, OrderWritten
    <3> QED BY <2>1, <3>1
  <2>3. onOrder' = a /\ onOrder' <= onOrder /\ O!drafted' <= O!drafted
    BY <1>2, <1>3, <1>8, <2>2
  <2>4. order' \in [Orders -> OrderRecord]
    BY <1>1, <1>8
  <2>5. O!TypeOK'
    BY <1>8, <2>2, <2>3, <2>4, ReorderTerms DEF ReorderInv, O!TypeOK, OrderRecord
  <2> QED BY <1>1, <1>4, <1>8, <2>2, <2>3, <2>5
<1>9. ASSUME O!drop(o) PROVE ReorderInv'
  BY <1>1, <1>8, <1>9 DEF O!drop
<1>10. ASSUME O!receive(o) PROVE ReorderInv'
  <2>1. onHand + order[o].qty \in Qtys
    BY <1>1, <1>2, <1>10, MaxQtyAssumption DEF O!receive, Qtys
  <2> QED BY <1>8, <1>10, <2>1 DEF O!receive
<1> QED BY <1>6, <1>7, <1>9, <1>10

LEMMA ReorderStep == ReorderInv /\ [O!Next]_reordering => ReorderInv'
<1> SUFFICES ASSUME ReorderInv, [O!Next]_reordering PROVE ReorderInv'
  OBVIOUS
<1>1. /\ order \in [Orders -> OrderRecord] /\ onHand \in Qtys /\ onOrder \in Nat
      /\ run \in [Runs -> [status : {"idle", "level"}, position : Nat]] /\ Qtys \subseteq Nat
  BY BookTyped
<1>2. ASSUME UNCHANGED << order, onOrder, overtaken >>, O!TypeOK', RunsSeeOrders => RunsSeeOrders'
      PROVE  ReorderInv'
  <2>1. O!drafted' = O!drafted /\ OrderedIn(order', {"approved"}) = OrderedIn(order, {"approved"})
    BY <1>2, ReorderTerms
  <2> QED BY <1>2, <2>1
      DEF ReorderInv, O!OneShortageOneDraft, O!Ceiling, O!order_qty, O!Rounded, O!Raised
<1>3. ASSUME NEW w \in Runs, O!run_begin(w) PROVE ReorderInv'
  <2> DEFINE new == [status |-> "level", position |-> onHand + onOrder]
  <2>1. /\ run' = [run EXCEPT ![w] = new] /\ UNCHANGED << onHand, onOrder, order, overtaken >>
        /\ new \in [status : {"idle", "level"}, position : Nat] /\ onOrder <= new.position
    BY <1>1, <1>3 DEF O!run_begin
  <2> HIDE DEF new
  <2>2. run' \in [Runs -> [status : {"idle", "level"}, position : Nat]]
        /\ run'[w] = new /\ \A v \in Runs : v # w => run'[v] = run[v]
    BY <1>1, <2>1
  <2>3. O!TypeOK'
    BY <2>1, <2>2 DEF ReorderInv, O!TypeOK
  <2>4. RunsSeeOrders => RunsSeeOrders'
    BY <2>1, <2>2 DEF RunsSeeOrders
  <2> QED BY <1>2, <2>1, <2>3, <2>4
<1>4. ASSUME NEW q \in O!Qtys \ {0}, O!issue(q) PROVE ReorderInv'
  <2>1. onHand' \in Qtys
    BY <1>1, <1>4, ReorderTerms, MaxQtyAssumption DEF O!issue, Qtys
  <2>2. O!TypeOK' /\ (RunsSeeOrders => RunsSeeOrders')
    BY <1>4, <2>1, ReorderTerms DEF O!issue, ReorderInv, O!TypeOK, RunsSeeOrders
  <2> QED BY <1>2, <1>4, <2>2 DEF O!issue
<1>5. ASSUME UNCHANGED reordering PROVE ReorderInv'
  BY <1>2, <1>5 DEF reordering, ReorderInv, O!TypeOK, RunsSeeOrders
<1> QED BY <1>3, <1>4, <1>5, DraftKeeps, BuyerKeeps DEF O!Next

----------------------------------------------------------------------------
(* Report jobs.  A job that no fault cut loose has at most one artifact:    *)
(* that of the run in hand until the row is completed, that of the row      *)
(* afterwards, and none once the pruner has removed it.                     *)

\* A run is in hand while its message is taken, and stores before it settles.
RunInHand(j) ==
    /\ message[j] = "taken" <=> delivery[j].step # "idle"
    /\ delivery[j].step # "idle" => runs[j] > 0
    /\ delivery[j].step \in {"idle", "render"} => delivery[j].stored = None
    /\ delivery[j].step = "stored" => delivery[j].stored # None

\* What a job leads to is its own.
OwnFiles(j) ==
    /\ delivery[j].stored # None => delivery[j].stored.job = j
    /\ row[j].file_path # None => row[j].file_path.job = j
    /\ sweep[j][2] # None => sweep[j][2].job = j

\* What a job that is not expired leads to is there.
FilesThere(j) ==
    j \notin expired =>
      /\ sweep[j][1] = "no"
      /\ delivery[j].stored # None => delivery[j].stored \in files
      /\ row[j].status = "completed" => row[j].file_path \in files

Over(j) == message[j] \in {"done", "dead"}

\* A job that nothing cut loose: it is pruned only when it is over, its row names
\* the artifact from the moment the run settles, and no other artifact exists.
Traced(j) ==
    j \notin loose =>
      /\ ~Over(j) => sweep[j][1] = "no"
      /\ message[j] \in {"queued", "taken"} => row[j].status # "none"
      /\ message[j] \in {"none", "queued"} => row[j].file_path = None
      /\ delivery[j].step \in {"render", "stored"} => row[j].file_path = None
      /\ delivery[j].step = "settled" => row[j].file_path = delivery[j].stored
      /\ sweep[j][1] # "no" => row[j].file_path = sweep[j][2]
      /\ sweep[j][1] = "removed" => sweep[j][2] \notin files
      /\ \A f \in files : f.job = j => row[j].file_path = f \/ delivery[j].stored = f

JobSound(j) == RunInHand(j) /\ OwnFiles(j) /\ FilesThere(j) /\ Traced(j)

ReportInv == R!TypeOK /\ \A j \in Jobs : JobSound(j)

\* The invariant says what the run checks.
LEMMA ReportsTie == ReportInv => R!ArtifactsTie
<1> SUFFICES ASSUME ReportInv PROVE R!ArtifactsTie
  OBVIOUS
<1>1. \A j \in Jobs : FilesThere(j) /\ Traced(j)
  BY DEF ReportInv, JobSound
<1>2. \A f \in files : f.job \in Jobs
  BY DEF ReportInv, R!TypeOK, R!Artifacts
<1> QED BY <1>1, <1>2 DEF R!ArtifactsTie, FilesThere, Traced

LEMMA ReportInit == R!Init => ReportInv
<1> SUFFICES ASSUME R!Init PROVE ReportInv
  OBVIOUS
<1>1. R!TypeOK
  <2>1. 0 \in 0..MaxLost /\ 0 \in 0..MaxDeliveries
    BY FrameworkAssumption
  <2> QED BY <2>1 DEF R!Init, R!TypeOK, R!NoRow, R!NoRun
<1>2. ASSUME NEW j \in Jobs PROVE JobSound(j)
  BY DEF R!Init, R!NoRow, R!NoRun, JobSound, RunInHand, OwnFiles, FilesThere, Traced, Over
<1> QED BY <1>1, <1>2 DEF ReportInv

\* A job whose own state and artifacts stay as they are stays sound.
LEMMA OtherJobs ==
    ASSUME NEW j \in Jobs, JobSound(j),
           row'[j] = row[j], message'[j] = message[j], delivery'[j] = delivery[j],
           runs'[j] = runs[j], sweep'[j] = sweep[j],
           j \in expired <=> j \in expired', j \in loose <=> j \in loose',
           \A f \in files : f.job = j => f \in files',
           \A f \in files' : f.job = j => f \in files,
           files \subseteq R!Artifacts, files' \subseteq R!Artifacts
    PROVE  JobSound(j)'
<1>1. RunInHand(j)' /\ OwnFiles(j)'
  BY DEF JobSound, RunInHand, OwnFiles
<1>2. FilesThere(j)'
  <2>1. None \notin R!Artifacts
    BY FrameworkAssumption
  <2> QED BY <2>1 DEF JobSound, FilesThere, OwnFiles
<1>3. Traced(j)'
  <2>1. None \notin R!Artifacts
    BY FrameworkAssumption
  <2> QED BY <2>1 DEF JobSound, Traced, OwnFiles, Over
<1> QED BY <1>1, <1>2, <1>3 DEF JobSound

\* What the invariant says of the types.
LEMMA ReportTyped ==
    ASSUME ReportInv
    PROVE  /\ row \in [Jobs -> [status : {"none", "queued", "running", "completed", "failed"},
                                file_path : R!Artifacts \cup {None}]]
           /\ message \in [Jobs -> {"none", "queued", "taken", "done", "dead"}]
           /\ delivery \in [Jobs -> [step : {"idle", "render", "stored", "settled"},
                                     stored : R!Artifacts \cup {None}]]
           /\ runs \in [Jobs -> 0..MaxDeliveries] /\ files \subseteq R!Artifacts
           /\ sweep \in [Jobs -> {"no", "read", "removed"} \X (R!Artifacts \cup {None})]
           /\ None \notin R!Artifacts /\ MaxDeliveries \in Nat /\ MaxLost \in Nat
  BY FrameworkAssumption DEF ReportInv, R!TypeOK

\* A step of one job leaves the others alone.
LEMMA OneJob ==
    ASSUME ReportInv, NEW j \in Jobs, R!TypeOK', JobSound(j)',
           \A i \in Jobs : i # j =>
             /\ row'[i] = row[i] /\ message'[i] = message[i] /\ delivery'[i] = delivery[i]
             /\ runs'[i] = runs[i] /\ sweep'[i] = sweep[i]
             /\ i \in expired <=> i \in expired'
             /\ i \in loose <=> i \in loose',
           \A f \in files : f \in files' \/ f.job = j,
           \A f \in files' : f \in files \/ f.job = j
    PROVE  ReportInv'
<1>1. ASSUME NEW i \in Jobs, i # j PROVE JobSound(i)'
  <2>1. JobSound(i) /\ files \subseteq R!Artifacts /\ files' \subseteq R!Artifacts
    BY DEF ReportInv, R!TypeOK
  <2>2. /\ row'[i] = row[i] /\ message'[i] = message[i] /\ delivery'[i] = delivery[i]
        /\ runs'[i] = runs[i] /\ sweep'[i] = sweep[i]
        /\ i \in expired <=> i \in expired'
        /\ i \in loose <=> i \in loose'
    BY <1>1
  <2>3. /\ \A f \in files : f.job = i => f \in files'
        /\ \A f \in files' : f.job = i => f \in files
    BY <1>1
  <2> QED BY <2>1, <2>2, <2>3, OtherJobs
<1> QED BY <1>1 DEF ReportInv

\* The request and the ageing of a job.
LEMMA RequestKeeps ==
    ASSUME ReportInv, NEW j \in Jobs, R!enqueue_job(j) \/ R!push(j) \/ R!age(j)
    PROVE  ReportInv'
<1> USE ReportTyped
<1>1. JobSound(j)
  BY DEF ReportInv
<1>2. ASSUME R!enqueue_job(j) PROVE ReportInv'
  <2>1. /\ row[j].status = "none" /\ row[j].file_path = None /\ row' = [row EXCEPT ![j].status = "queued"]
        /\ message[j] = "none"
        /\ UNCHANGED << message, delivery, runs, files, house, expired, sweep, lost, loose, unrecorded >>
    BY <1>2 DEF R!enqueue_job, R!NoRow
  <2>2. row'[j].status = "queued" /\ row'[j].file_path = None /\ \A i \in Jobs : i # j => row'[i] = row[i]
    BY <2>1
  <2>3. R!TypeOK'
    BY <2>1 DEF ReportInv, R!TypeOK
  <2>4. JobSound(j)'
    BY <1>1, <2>1, <2>2 DEF JobSound, RunInHand, OwnFiles, FilesThere, Traced, Over
  <2> QED BY <2>1, <2>2, <2>3, <2>4, OneJob
<1>3. ASSUME R!push(j) PROVE ReportInv'
  <2>1. /\ row[j].status # "none" /\ message[j] = "none"
        /\ \/ message' = [message EXCEPT ![j] = "queued"] /\ UNCHANGED lost
           \/ message' = [message EXCEPT ![j] = "dead"] /\ lost < MaxLost /\ lost' = lost + 1
        /\ UNCHANGED << row, delivery, runs, files, house, expired, sweep, loose, unrecorded >>
    BY <1>3 DEF R!push, R!Fault
  <2>2. message'[j] \in {"queued", "dead"} /\ \A i \in Jobs : i # j => message'[i] = message[i]
    BY <2>1
  <2>3. R!TypeOK'
    BY <2>1 DEF ReportInv, R!TypeOK
  <2>4. JobSound(j)'
    BY <1>1, <2>1, <2>2 DEF JobSound, RunInHand, OwnFiles, FilesThere, Traced, Over
  <2> QED BY <2>1, <2>2, <2>3, <2>4, OneJob
<1>4. ASSUME R!age(j) PROVE ReportInv'
  <2>1. /\ expired' = expired \cup {j}
        /\ UNCHANGED << row, message, delivery, runs, files, house, sweep, lost, loose, unrecorded >>
    BY <1>4 DEF R!age
  <2>2. R!TypeOK'
    BY <2>1 DEF ReportInv, R!TypeOK
  <2>3. JobSound(j)'
    BY <1>1, <2>1 DEF JobSound, RunInHand, OwnFiles, FilesThere, Traced, Over
  <2> QED BY <2>1, <2>2, <2>3, OneJob
<1> QED BY <1>2, <1>3, <1>4

\* The file a run writes is one of its job.
LEMMA WrittenFile ==
    ASSUME ReportInv, NEW j \in Jobs, delivery[j].step # "idle",
           NEW given \in Houses \cup {None}, NEW own \in Houses
    PROVE  /\ R!File(j, runs[j], R!effective(given, own)) \in R!Artifacts
           /\ R!File(j, runs[j], R!effective(given, own)).job = j
<1>1. runs[j] \in 1..MaxDeliveries
  BY ReportTyped DEF ReportInv, JobSound, RunInHand
<1>2. R!effective(given, own) \in Houses
  BY DEF R!effective, ReportInv, R!TypeOK
<1> QED BY <1>1, <1>2 DEF R!File, R!Artifacts

\* The steps of a run.
LEMMA WorkerKeeps ==
    ASSUME ReportInv, NEW j \in Jobs, R!Worker(j)
    PROVE  ReportInv'
<1> USE ReportTyped
<1>1. JobSound(j)
  BY DEF ReportInv
<1>2. ASSUME R!mark_running(j) PROVE ReportInv'
  <2>1. /\ message[j] = "queued" /\ runs[j] < MaxDeliveries
        /\ message' = [message EXCEPT ![j] = "taken"]
        /\ delivery' = [delivery EXCEPT ![j].step = "render"]
        /\ runs' = [runs EXCEPT ![j] = @ + 1]
        /\ UNCHANGED << files, house, expired, sweep, loose, unrecorded >>
        /\ lost' \in 0..MaxLost
    BY <1>2 DEF R!mark_running, R!Fault, ReportInv, R!TypeOK
  <2>2. row' = row \/ row' = [row EXCEPT ![j].status = "running"]
    BY <1>2 DEF R!mark_running
  <2>3. /\ row'[j].status \in {row[j].status, "running"} /\ row'[j].file_path = row[j].file_path
        /\ \A i \in Jobs : i # j => row'[i] = row[i]
        /\ row' \in [Jobs -> [status : {"none", "queued", "running", "completed", "failed"},
                                file_path : R!Artifacts \cup {None}]]
    <3>1. row[j] \in [status : {"none", "queued", "running", "completed", "failed"},
                       file_path : R!Artifacts \cup {None}]
      BY DEF ReportInv, R!TypeOK
    <3>2. CASE row' = row
      BY <3>2
    <3>3. CASE row' = [row EXCEPT ![j].status = "running"]
      <4> DEFINE new == [row[j] EXCEPT !.status = "running"]
      <4>1. new.status = "running" /\ new.file_path = row[j].file_path
        BY <3>1
      <4>2. new \in [status : {"none", "queued", "running", "completed", "failed"},
                     file_path : R!Artifacts \cup {None}]
        BY <3>1
      <4>3. row' = [row EXCEPT ![j] = new]
        BY <3>3
      <4> HIDE DEF new
      <4> QED BY <4>1, <4>2, <4>3
    <3> QED BY <2>2, <3>2, <3>3
  <2>4. /\ message'[j] = "taken" /\ delivery'[j].step = "render" /\ delivery'[j].stored = delivery[j].stored
        /\ runs'[j] = runs[j] + 1
        /\ \A i \in Jobs : i # j => message'[i] = message[i] /\ delivery'[i] = delivery[i] /\ runs'[i] = runs[i]
    BY <2>1
  <2>7. delivery' \in [Jobs -> [step : {"idle", "render", "stored", "settled"}, stored : R!Artifacts \cup {None}]]
    BY <2>1
  <2>8. runs' \in [Jobs -> 0..MaxDeliveries] /\ message' \in [Jobs -> {"none", "queued", "taken", "done", "dead"}]
    BY <2>1
  <2>5. R!TypeOK'
    BY <2>7, <2>8, <2>1, <2>3 DEF ReportInv, R!TypeOK
  <2>6. JobSound(j)'
    BY <1>1, <2>1, <2>3, <2>4 DEF JobSound, RunInHand, OwnFiles, FilesThere, Traced, Over
  <2> QED BY <2>1, <2>3, <2>4, <2>5, <2>6, OneJob
<1>3. ASSUME R!render_store(j) PROVE ReportInv'
  <2>1. PICK f \in R!Artifacts :
          /\ delivery[j].step = "render" /\ f.job = j /\ files' = files \cup {f}
          /\ delivery' = [delivery EXCEPT ![j] = [step |-> "stored", stored |-> f]]
          /\ UNCHANGED << row, message, runs, house, expired, sweep, lost, loose, unrecorded >>
    BY <1>3, WrittenFile DEF R!render_store
  <2>2. /\ delivery'[j].step = "stored" /\ delivery'[j].stored = f
        /\ \A i \in Jobs : i # j => delivery'[i] = delivery[i]
    BY <2>1
  <2>3. R!TypeOK'
    BY <2>1 DEF ReportInv, R!TypeOK
  <2>4. JobSound(j)'
    BY <1>1, <2>1, <2>2 DEF JobSound, RunInHand, OwnFiles, FilesThere, Traced, Over
  <2> QED BY <2>1, <2>2, <2>3, <2>4, OneJob
<1>4. ASSUME R!mark_completed(j) PROVE ReportInv'
  <2> DEFINE new == [status |-> "completed", file_path |-> delivery[j].stored]
  <2>1. /\ delivery[j].step = "stored" /\ delivery' = [delivery EXCEPT ![j].step = "settled"]
        /\ row' = IF row[j].status # "none" THEN [row EXCEPT ![j] = new] ELSE row
        /\ UNCHANGED << message, runs, files, house, expired, sweep, lost, loose, unrecorded >>
    BY <1>4 DEF R!mark_completed, R!Exists
  <2>2. /\ delivery'[j].step = "settled" /\ delivery'[j].stored = delivery[j].stored
        /\ \A i \in Jobs : i # j => delivery'[i] = delivery[i]
    BY <2>1
  <2>3. /\ row'[j] = IF row[j].status # "none" THEN new ELSE row[j]
        /\ \A i \in Jobs : i # j => row'[i] = row[i]
        /\ row' \in [Jobs -> [status : {"none", "queued", "running", "completed", "failed"},
                                file_path : R!Artifacts \cup {None}]]
    BY <2>1
  <2>4. R!TypeOK'
    BY <2>1, <2>3 DEF ReportInv, R!TypeOK
  <2>5. message[j] = "taken" /\ delivery[j].stored # None
    BY <1>1, <2>1 DEF JobSound, RunInHand
  <2>6. RunInHand(j)' /\ OwnFiles(j)' /\ FilesThere(j)'
    BY <1>1, <2>1, <2>2, <2>3, <2>5 DEF JobSound, RunInHand, OwnFiles, FilesThere
  <2>7. Traced(j)'
    BY <1>1, <2>1, <2>2, <2>3, <2>5 DEF JobSound, Traced, Over
  <2> QED BY <2>1, <2>2, <2>3, <2>4, <2>6, <2>7, OneJob DEF JobSound
<1>5. ASSUME R!render_failed(j) PROVE ReportInv'
  <2>1. /\ delivery[j].step = "render" /\ delivery' = [delivery EXCEPT ![j].step = "settled"]
        /\ row' = row \/ row' = [row EXCEPT ![j].status = "failed"]
        /\ row' = row \/ row[j].status # "none"
        /\ UNCHANGED << message, runs, files, house, expired, sweep, loose >>
        /\ lost' \in 0..MaxLost /\ unrecorded' \subseteq Jobs
    BY <1>5 DEF R!render_failed, R!Fault, R!Exists, ReportInv, R!TypeOK
  <2>2. /\ delivery'[j].step = "settled" /\ delivery'[j].stored = delivery[j].stored
        /\ \A i \in Jobs : i # j => delivery'[i] = delivery[i]
    BY <2>1
  <2>3. /\ row'[j].status \in {row[j].status, "failed"} /\ row'[j].file_path = row[j].file_path
        /\ \A i \in Jobs : i # j => row'[i] = row[i]
        /\ row' \in [Jobs -> [status : {"none", "queued", "running", "completed", "failed"},
                                file_path : R!Artifacts \cup {None}]]
    BY <2>1
  <2>7. delivery' \in [Jobs -> [step : {"idle", "render", "stored", "settled"}, stored : R!Artifacts \cup {None}]]
    BY <2>1
  <2>4. R!TypeOK'
    BY <2>7, <2>1, <2>3 DEF ReportInv, R!TypeOK
  <2>5. JobSound(j)'
    BY <1>1, <2>1, <2>2, <2>3 DEF JobSound, RunInHand, OwnFiles, FilesThere, Traced, Over
  <2> QED BY <2>1, <2>2, <2>3, <2>4, <2>5, OneJob
<1>6. ASSUME R!acknowledge(j) PROVE ReportInv'
  <2>1. /\ delivery[j].step = "settled" /\ message' = [message EXCEPT ![j] = "done"]
        /\ delivery' = [delivery EXCEPT ![j] = R!NoRun]
        /\ R!NoRun.step = "idle" /\ R!NoRun.stored = None
        /\ UNCHANGED << row, runs, files, house, expired, sweep, lost, loose, unrecorded >>
    BY <1>6 DEF R!acknowledge, R!NoRun
  <2>2. /\ delivery'[j] = R!NoRun /\ message'[j] = "done"
        /\ \A i \in Jobs : i # j => delivery'[i] = delivery[i] /\ message'[i] = message[i]
    BY <2>1
  <2>3. R!TypeOK'
    BY <2>1 DEF ReportInv, R!TypeOK, R!NoRun
  <2>4. message[j] = "taken"
    BY <1>1, <2>1 DEF JobSound, RunInHand
  <2>5. JobSound(j)'
    BY <1>1, <2>1, <2>2, <2>4 DEF JobSound, RunInHand, OwnFiles, FilesThere, Traced, Over
  <2> QED BY <2>1, <2>2, <2>3, <2>5, OneJob
<1> QED BY <1>2, <1>3, <1>4, <1>5, <1>6 DEF R!Worker

\* A delivery that is interrupted before it has stored anything leaves nothing.
LEMMA InterruptionKeeps ==
    ASSUME ReportInv, NEW j \in Jobs, R!interrupted(j)
    PROVE  ReportInv'
<1> USE ReportTyped
<1>1. JobSound(j)
  BY DEF ReportInv
<1>2. PICK m \in {"queued", "dead"} : message' = [message EXCEPT ![j] = m]
  BY DEF R!interrupted
<1>3. /\ delivery[j].step # "idle" /\ delivery' = [delivery EXCEPT ![j] = R!NoRun]
      /\ loose' = IF delivery[j].stored # None THEN loose \cup {j} ELSE loose
      /\ UNCHANGED << row, runs, files, house, expired, sweep, unrecorded >>
      /\ lost' \in 0..MaxLost /\ R!NoRun.step = "idle" /\ R!NoRun.stored = None
  BY DEF R!interrupted, R!Fault, R!NoRun, ReportInv, R!TypeOK
<1>4. /\ message'[j] = m /\ delivery'[j] = R!NoRun
      /\ \A i \in Jobs : i # j => delivery'[i] = delivery[i] /\ message'[i] = message[i]
  BY <1>2, <1>3
<1>5. R!TypeOK'
  <2>1. /\ delivery' \in [Jobs -> [step : {"idle", "render", "stored", "settled"}, stored : R!Artifacts \cup {None}]]
        /\ message' \in [Jobs -> {"none", "queued", "taken", "done", "dead"}]
    BY <1>2, <1>3 DEF R!NoRun
  <2> QED BY <1>3, <2>1 DEF ReportInv, R!TypeOK
<1>6. message[j] = "taken"
  BY <1>1, <1>3 DEF JobSound, RunInHand
<1>7. RunInHand(j)' /\ OwnFiles(j)' /\ FilesThere(j)'
  BY <1>1, <1>3, <1>4 DEF JobSound, RunInHand, OwnFiles, FilesThere
<1>8. Traced(j)'
  <2>1. SUFFICES ASSUME j \notin loose' PROVE Traced(j)'
    BY DEF Traced
  <2>2. delivery[j].stored = None /\ j \notin loose
    BY <1>3, <2>1
  <2>3. delivery[j].step \in {"render", "settled"}
    BY <1>1, <1>3, <2>2 DEF JobSound, RunInHand
  <2> QED BY <1>1, <1>3, <1>4, <1>6, <2>2, <2>3 DEF JobSound, Traced, Over
<1> QED BY <1>3, <1>4, <1>5, <1>7, <1>8, OneJob DEF JobSound

\* A pass of the pruner reads the rows that are expired.
LEMMA SweepKeeps == ASSUME ReportInv, R!sweep_read PROVE ReportInv'
<1> USE ReportTyped
<1>1. /\ \A j \in Jobs : sweep[j][1] = "no"
      /\ sweep' = [j \in Jobs |-> IF j \in expired /\ R!Exists(j) THEN << "read", row[j].file_path >> ELSE << "no", None >>]
      /\ loose' = loose \cup { j \in expired : message[j] \in {"none", "queued", "taken"} }
      /\ UNCHANGED << row, message, delivery, runs, files, house, expired, lost, unrecorded >>
  BY DEF R!sweep_read
<1>2. R!TypeOK'
  <2>1. sweep' \in [Jobs -> {"no", "read", "removed"} \X (R!Artifacts \cup {None})]
    BY <1>1
  <2>2. loose' \subseteq Jobs
    BY <1>1 DEF ReportInv, R!TypeOK
  <2> QED BY <1>1, <2>1, <2>2 DEF ReportInv, R!TypeOK
<1>3. ASSUME NEW j \in Jobs PROVE JobSound(j)'
  <2>1. JobSound(j)
    BY DEF ReportInv
  <2>2. \/ j \in expired /\ sweep'[j] = << "read", row[j].file_path >>
        \/ sweep'[j] = << "no", None >>
    BY <1>1
  <2>3. RunInHand(j)' /\ OwnFiles(j)' /\ FilesThere(j)'
    BY <1>1, <2>1, <2>2 DEF JobSound, RunInHand, OwnFiles, FilesThere
  <2>4. Traced(j)'
    <3>1. SUFFICES ASSUME j \notin loose' PROVE Traced(j)'
      BY DEF Traced
    <3>2. j \notin loose /\ (j \in expired => Over(j))
      BY <1>1, <3>1 DEF Over
    <3>3. sweep'[j][1] # "no" => Over(j) /\ sweep'[j][2] = row[j].file_path
      BY <2>2, <3>2
    <3>4. sweep'[j][1] # "removed"
      BY <2>2
    <3> QED BY <1>1, <2>1, <3>2, <3>3, <3>4 DEF JobSound, Traced, Over
  <2> QED BY <2>3, <2>4 DEF JobSound
<1> QED BY <1>2, <1>3 DEF ReportInv

\* The pruner removes an artifact and then the row, or leaves both.
LEMMA PruneKeeps ==
    ASSUME ReportInv, NEW j \in Jobs, R!remove_private(j) \/ R!delete(j)
    PROVE  ReportInv'
<1> USE ReportTyped
<1>1. JobSound(j)
  BY DEF ReportInv
<1>2. sweep[j] = << sweep[j][1], sweep[j][2] >> /\ sweep[j][2] \in R!Artifacts \cup {None}
  OBVIOUS
<1>3. ASSUME NEW s \in {"no", "removed"}, sweep[j][1] = "read", sweep' = [sweep EXCEPT ![j][1] = s],
             files' \subseteq files, \A f \in files \ files' : f = sweep[j][2],
             s = "removed" => sweep[j][2] \notin files', s = "no" => files' = files,
             UNCHANGED << row, message, delivery, runs, house, expired, loose, unrecorded >>,
             lost' \in 0..MaxLost
      PROVE  ReportInv'
  <2>1. sweep' = [sweep EXCEPT ![j] = << s, sweep[j][2] >>]
    <3>1. [sweep[j] EXCEPT ![1] = s] = << s, sweep[j][2] >>
      BY <1>2
    <3>2. sweep' = [sweep EXCEPT ![j] = [sweep[j] EXCEPT ![1] = s]]
      BY <1>3
    <3> QED BY <3>1, <3>2
  <2>2. /\ sweep'[j][1] = s /\ sweep'[j][2] = sweep[j][2] /\ \A i \in Jobs : i # j => sweep'[i] = sweep[i]
        /\ sweep' \in [Jobs -> {"no", "read", "removed"} \X (R!Artifacts \cup {None})]
    BY <1>2, <2>1
  <2>3. R!TypeOK'
    BY <1>3, <2>2 DEF ReportInv, R!TypeOK
  <2>4. j \in expired
    BY <1>1, <1>3 DEF JobSound, FilesThere
  <2>5. RunInHand(j)' /\ OwnFiles(j)' /\ FilesThere(j)'
    BY <1>1, <1>3, <2>2, <2>4 DEF JobSound, RunInHand, OwnFiles, FilesThere
  <2>6. Traced(j)'
    BY <1>1, <1>3, <2>2 DEF JobSound, Traced, Over
  <2>7. \A f \in files : f \in files' \/ f.job = j
    BY <1>1, <1>3 DEF JobSound, OwnFiles
  <2> QED BY <1>3, <2>2, <2>3, <2>5, <2>6, <2>7, OneJob DEF JobSound
<1>4. ASSUME R!remove_private(j) PROVE ReportInv'
  BY <1>3, <1>4 DEF R!remove_private, R!Keeps, R!Fault, ReportInv, R!TypeOK
<1>5. ASSUME R!delete(j) PROVE ReportInv'
  <2>1. /\ sweep[j][1] = "removed" /\ row' = [row EXCEPT ![j] = R!NoRow]
        /\ sweep' = [sweep EXCEPT ![j] = << "no", None >>]
        /\ UNCHANGED << message, delivery, runs, files, house, expired, lost, loose, unrecorded >>
        /\ R!NoRow.status = "none" /\ R!NoRow.file_path = None
    BY <1>5 DEF R!delete, R!NoRow
  <2>2. /\ row'[j] = R!NoRow /\ sweep'[j] = << "no", None >>
        /\ \A i \in Jobs : i # j => row'[i] = row[i] /\ sweep'[i] = sweep[i]
    BY <2>1
  <2>3. R!TypeOK'
    <3>1. /\ row' \in [Jobs -> [status : {"none", "queued", "running", "completed", "failed"},
                                file_path : R!Artifacts \cup {None}]]
          /\ sweep' \in [Jobs -> {"no", "read", "removed"} \X (R!Artifacts \cup {None})]
      BY <2>1 DEF R!NoRow
    <3> QED BY <2>1, <3>1 DEF ReportInv, R!TypeOK
  <2>4. RunInHand(j)' /\ OwnFiles(j)' /\ FilesThere(j)'
    BY <1>1, <2>1, <2>2 DEF JobSound, RunInHand, OwnFiles, FilesThere
  <2>5. Traced(j)'
    <3>1. SUFFICES ASSUME j \notin loose PROVE Traced(j)'
      BY <2>1 DEF Traced
    <3>2. Over(j) /\ delivery[j].step = "idle" /\ delivery[j].stored = None
      BY <1>1, <2>1, <3>1 DEF JobSound, Traced, RunInHand, Over
    <3>3. \A f \in files : f.job # j
      BY <1>1, <2>1, <3>1, <3>2 DEF JobSound, Traced
    <3> QED BY <2>1, <2>2, <3>2, <3>3 DEF Traced, Over
  <2> QED BY <2>1, <2>2, <2>3, <2>4, <2>5, OneJob DEF JobSound
<1> QED BY <1>4, <1>5

LEMMA ReportStep == ReportInv /\ [R!Next]_reporting => ReportInv'
<1> SUFFICES ASSUME ReportInv, [R!Next]_reporting PROVE ReportInv'
  OBVIOUS
<1>1. ASSUME UNCHANGED << row, message, delivery, runs, files, expired, sweep, lost, loose, unrecorded >>,
             house' \in Houses \cup {None}
      PROVE  ReportInv'
  <2>1. R!TypeOK'
    BY <1>1 DEF ReportInv, R!TypeOK
  <2>2. ASSUME NEW j \in Jobs PROVE JobSound(j)'
    BY <1>1, OtherJobs DEF ReportInv, R!TypeOK
  <2> QED BY <2>1, <2>2 DEF ReportInv
<1>2. ASSUME NEW format \in Houses \cup {None}, R!put_settings(format) PROVE ReportInv'
  BY <1>1, <1>2 DEF R!put_settings
<1>3. ASSUME UNCHANGED reporting PROVE ReportInv'
  BY <1>1, <1>3 DEF reporting, ReportInv, R!TypeOK
<1> QED BY <1>2, <1>3, RequestKeeps, WorkerKeeps, InterruptionKeeps, SweepKeeps, PruneKeeps DEF R!Next

----------------------------------------------------------------------------
(* Dashboards.  What is saved, asked for and shown places no widget twice    *)
(* and no more than the canvas holds; what is shown is then filtered.        *)

Neat(ws) == Len(ws) <= MaxWidgets /\ \A i, k \in DOMAIN ws : i # k => ws[i] # ws[k]

DashboardInv ==
    /\ D!TypeOK /\ D!ShownIsSound
    /\ Neat(request.widgets)
    /\ layout # None => Neat(layout)

\* The k-th of the places of a list is there.
LEMMA NthPlace ==
    ASSUME NEW n \in Nat, NEW P, P \subseteq 1..n, NEW k \in 1..Cardinality(P)
    PROVE  \E i \in P : Cardinality({ j \in P : j <= i }) = k
<1> DEFINE Upto(m) == { j \in P : j <= m }
           S == { m \in Nat : \A c \in 1..Cardinality(Upto(m)) : \E i \in Upto(m) : Cardinality(Upto(i)) = c }
<1>0. \A j \in P : j \in Nat /\ 1 <= j /\ j <= n
  OBVIOUS
<1>00. ASSUME NEW m \in Nat, NEW j \in P PROVE j <= m + 1 <=> j <= m \/ j = m + 1
  BY <1>0
<1> HIDE DEF S
<1>1. ASSUME NEW m \in Nat PROVE IsFiniteSet(Upto(m)) /\ Cardinality(Upto(m)) \in Nat
  <2>1. IsFiniteSet(1..n)
    BY FS_Interval
  <2>2. Upto(m) \subseteq 1..n
    OBVIOUS
  <2> HIDE DEF Upto
  <2> QED BY <2>1, <2>2, FS_Subset, FS_CardinalityType
<1>2. 0 \in S
  <2>1. Upto(0) = {}
    <3>1. \A j \in P : ~(j <= 0)
      BY <1>0
    <3> QED BY <3>1
  <2>2. Cardinality(Upto(0)) = 0
    BY <2>1, FS_EmptySet
  <2> HIDE DEF Upto
  <2> QED BY <2>2 DEF S
<1>3. ASSUME NEW m \in Nat, m \in S PROVE m + 1 \in S
  <2>1. CASE m + 1 \in P
    <3>1. Upto(m + 1) = Upto(m) \cup {m + 1} /\ m + 1 \notin Upto(m)
      <4>1. Upto(m + 1) = Upto(m) \cup {m + 1}
        BY <1>00, <2>1
      <4>2. ~(m + 1 <= m)
        OBVIOUS
      <4> QED BY <4>1, <4>2
    <3> HIDE DEF Upto
    <3>2. Cardinality(Upto(m + 1)) = Cardinality(Upto(m)) + 1
      <4>1. Cardinality(Upto(m) \cup {m + 1}) = Cardinality(Upto(m)) + 1
        BY <1>1, <3>1, FS_AddElement
      <4> QED BY <3>1, <4>1
    <3>3. ASSUME NEW c \in 1..Cardinality(Upto(m + 1)) PROVE \E i \in Upto(m + 1) : Cardinality(Upto(i)) = c
      <4>1. CASE c = Cardinality(Upto(m + 1))
        BY <3>1, <4>1
      <4>2. CASE c \in 1..Cardinality(Upto(m))
        BY <1>3, <3>1, <4>2 DEF S
      <4> QED BY <1>1, <3>2, <3>3, <4>1, <4>2
    <3> QED BY <3>3 DEF S
  <2>2. CASE m + 1 \notin P
    <3>1. Upto(m + 1) = Upto(m)
      BY <1>00, <2>2
    <3> HIDE DEF Upto
    <3> QED BY <1>3, <3>1 DEF S
  <2> QED BY <2>1, <2>2
<1>4. n \in S
  <2> HIDE DEF S
  <2> QED BY <1>2, <1>3, SetInduction
<1>5. Upto(n) = P
  BY <1>0
<1>6. \E i \in Upto(n) : Cardinality(Upto(i)) = k
  <2> HIDE DEF Upto
  <2> QED BY <1>4, <1>5 DEF S
<1> QED BY <1>5, <1>6

\* What is kept of a layout: of those widgets, no longer, and nothing twice.
LEMMA KeptNeat ==
    ASSUME NEW ws \in Seq(Widgets), NEW S, \A i, k \in DOMAIN ws : i # k => ws[i] # ws[k]
    PROVE  /\ D!Kept(ws, S) \in Seq(Widgets) /\ Len(D!Kept(ws, S)) <= Len(ws)
           /\ \A i \in DOMAIN D!Kept(ws, S) : D!Kept(ws, S)[i] \in S
           /\ \A i, k \in DOMAIN D!Kept(ws, S) : i # k => D!Kept(ws, S)[i] # D!Kept(ws, S)[k]
<1> DEFINE P == { i \in DOMAIN ws : ws[i] \in S }
           nth(k) == CHOOSE i \in P : Cardinality({ j \in P : j <= i }) = k
           c == Cardinality(P)
           kept == [k \in 1..c |-> ws[nth(k)]]
<1>1. Len(ws) \in Nat /\ DOMAIN ws = 1..Len(ws) /\ P \subseteq 1..Len(ws)
  OBVIOUS
<1>2. c \in Nat /\ c <= Len(ws)
  <2> DEFINE n == Len(ws)
  <2>1. n \in Nat /\ P \subseteq 1..n
    BY <1>1
  <2> HIDE DEF P, n
  <2>2. IsFiniteSet(1..n) /\ Cardinality(1..n) = n
    BY <2>1, FS_Interval
  <2>3. IsFiniteSet(P) /\ Cardinality(P) <= Cardinality(1..n)
    BY <2>1, <2>2, FS_Subset
  <2>4. Cardinality(P) \in Nat /\ Cardinality(P) <= n
    BY <2>2, <2>3, FS_CardinalityType
  <2> QED BY <2>4 DEF n
<1>3. ASSUME NEW k \in 1..c PROVE nth(k) \in P /\ Cardinality({ j \in P : j <= nth(k) }) = k
  <2> HIDE DEF nth
  <2>1. \A h \in 1..Cardinality(P) : \E i \in P : Cardinality({ j \in P : j <= i }) = h
    <3> DEFINE n == Len(ws)
    <3>1. n \in Nat /\ P \subseteq 1..n
      BY <1>1
    <3> HIDE DEF P, n
    <3> QED BY <3>1, NthPlace
  <2>2. \E i \in P : Cardinality({ j \in P : j <= i }) = k
    <3> HIDE DEF P
    <3> QED BY <2>1
  <2> HIDE DEF P
  <2> QED BY <2>2 DEF nth
<1>4. D!Kept(ws, S) = kept
  BY Zenon DEF D!Kept, D!Cardinality, Cardinality
<1> HIDE DEF nth
<1>5. ASSUME NEW k \in 1..c PROVE ws[nth(k)] \in Widgets /\ ws[nth(k)] \in S
  <2>1. nth(k) \in DOMAIN ws /\ ws[nth(k)] \in S
    BY <1>3
  <2> QED BY <2>1
<1>6. ASSUME NEW i \in 1..c, NEW k \in 1..c, i # k PROVE ws[nth(i)] # ws[nth(k)]
  <2>1. nth(i) # nth(k)
    BY <1>3, <1>6
  <2> QED BY <1>3, <2>1
<1> HIDE DEF P, c
<1>7. kept \in Seq(Widgets) /\ Len(kept) = c /\ DOMAIN kept = 1..c
  BY <1>2, <1>5
<1> QED BY <1>2, <1>4, <1>5, <1>6, <1>7

\* A layout is a list of widgets that is not too long.
LEMMA LayoutShape ==
    /\ \A ws \in D!Layouts : ws \in Seq(Widgets)
    /\ \A ws \in Seq(Widgets) : Len(ws) <= MaxWidgets => ws \in D!Layouts
<1>1. MaxWidgets \in Nat
  BY FrameworkAssumption
<1>2. ASSUME NEW ws \in D!Layouts PROVE ws \in Seq(Widgets)
  BY <1>1, <1>2 DEF D!Layouts
<1>3. ASSUME NEW ws \in Seq(Widgets), Len(ws) <= MaxWidgets PROVE ws \in D!Layouts
  <2>1. Len(ws) \in 0..(MaxWidgets + 1) /\ ws \in [1..Len(ws) -> Widgets]
    BY <1>1, <1>3
  <2> QED BY <2>1 DEF D!Layouts
<1> QED BY <1>2, <1>3

LEMMA EmptyLayout == << >> \in D!Layouts /\ Neat(<< >>)
<1>1. << >> \in Seq(Widgets) /\ Len(<< >>) = 0 /\ DOMAIN << >> = {}
  OBVIOUS
<1>2. MaxWidgets \in Nat /\ 0 <= MaxWidgets
  BY FrameworkAssumption
<1>3. Neat(<< >>)
  BY <1>1, <1>2 DEF Neat
<1> QED BY <1>1, <1>2, <1>3, LayoutShape

\* What a dashboard has without a saved layout.
LEMMA DefaultNeat ==
    ASSUME D!TypeOK
    PROVE  D!default_layout \in D!Layouts /\ Neat(D!default_layout)
<1> DEFINE ws == D!Kept(Defaults, declared)
           n == IF Len(ws) < MaxWidgets THEN Len(ws) ELSE MaxWidgets
<1>1. MaxWidgets \in Nat
  BY FrameworkAssumption
<1>2. ws \in Seq(Widgets) /\ \A i, k \in DOMAIN ws : i # k => ws[i] # ws[k]
  BY FrameworkAssumption, KeptNeat
<1>3. D!default_layout = SubSeq(ws, 1, n)
  BY DEF D!default_layout
<1> HIDE DEF ws
<1>4. n \in Nat /\ n <= Len(ws) /\ n <= MaxWidgets
  BY <1>1, <1>2
<1> HIDE DEF n
<1>5. /\ SubSeq(ws, 1, n) \in Seq(Widgets) /\ Len(SubSeq(ws, 1, n)) = n
      /\ DOMAIN SubSeq(ws, 1, n) = 1..n
      /\ \A i \in 1..n : SubSeq(ws, 1, n)[i] = ws[i] /\ i \in DOMAIN ws
  BY <1>2, <1>4
<1>6. ASSUME NEW us, us = SubSeq(ws, 1, n) PROVE us \in D!Layouts /\ Neat(us)
  <2>1. us \in Seq(Widgets) /\ Len(us) <= MaxWidgets
    BY <1>4, <1>5, <1>6
  <2>2. us \in D!Layouts
    BY <2>1, LayoutShape
  <2>3. ASSUME NEW i \in DOMAIN us, NEW k \in DOMAIN us, i # k PROVE us[i] # us[k]
    <3>1. i \in 1..n /\ k \in 1..n
      BY <1>5, <1>6, <2>3
    <3>2. us[i] = ws[i] /\ us[k] = ws[k] /\ i \in DOMAIN ws /\ k \in DOMAIN ws
      BY <1>5, <1>6, <3>1
    <3> QED BY <1>2, <2>3, <3>2
  <2> QED BY <2>1, <2>2, <2>3 DEF Neat
<1> QED BY <1>3, <1>6

LEMMA DashboardInit == D!Init => DashboardInv
<1> SUFFICES ASSUME D!Init PROVE DashboardInv
  OBVIOUS
<1>1. << >> \in D!Layouts /\ Neat(<< >>)
  BY EmptyLayout
<1>2. /\ declared = Widgets /\ granted = TRUE /\ layout = None
      /\ request = [step |-> "idle", widgets |-> << >>]
      /\ view = [widgets |-> None, hidden |-> {}]
  BY DEF D!Init, D!NoRequest, D!Shown
<1>3. D!TypeOK
  BY <1>1, <1>2 DEF D!TypeOK
<1>4. D!ShownIsSound
  BY <1>2 DEF D!ShownIsSound
<1> QED BY <1>1, <1>2, <1>3, <1>4 DEF DashboardInv

\* A request that is answered.
LEMMA AnswerKeeps == ASSUME DashboardInv, D!answer PROVE DashboardInv'
<1> DEFINE S == { w \in declared \cap Here : D!permitted(w) }
           hidden == { w \in Guarded : ~granted }
           ws == D!Kept(request.widgets, S)
<1>1. /\ view' = [widgets |-> ws, hidden |-> hidden]
      /\ request' = D!NoRequest /\ UNCHANGED << declared, granted, layout >>
  BY DEF D!answer, D!Shown, D!resolve
<1>2. request.widgets \in Seq(Widgets) /\ Neat(request.widgets) /\ MaxWidgets \in Nat
  BY LayoutShape, FrameworkAssumption DEF DashboardInv, D!TypeOK
<1>3. /\ ws \in Seq(Widgets) /\ Len(ws) <= Len(request.widgets)
      /\ \A i \in DOMAIN ws : ws[i] \in S
      /\ \A i, k \in DOMAIN ws : i # k => ws[i] # ws[k]
  BY <1>2, KeptNeat DEF Neat
<1> HIDE DEF ws
<1>4. ws \in D!Layouts /\ Neat(ws)
  <2>1. Len(ws) <= MaxWidgets
    BY <1>2, <1>3 DEF Neat
  <2> QED BY <1>3, <2>1, LayoutShape DEF Neat
<1>5. \A w \in S : w \in Here \ hidden
  BY DEF D!permitted
<1>6. << >> \in D!Layouts /\ Neat(<< >>)
  BY EmptyLayout
<1>7. hidden \subseteq Widgets
  BY FrameworkAssumption
<1>8. D!TypeOK'
  BY <1>1, <1>4, <1>6, <1>7 DEF DashboardInv, D!TypeOK, D!NoRequest
<1>9. D!ShownIsSound'
  <2>1. view'.widgets = ws /\ view'.hidden = hidden
    BY <1>1
  <2> QED BY <1>3, <1>4, <1>5, <2>1 DEF D!ShownIsSound, Neat
<1> QED BY <1>1, <1>6, <1>8, <1>9 DEF DashboardInv, D!NoRequest

LEMMA DashboardStep == DashboardInv /\ [D!Next]_dashboard => DashboardInv'
<1> SUFFICES ASSUME DashboardInv, [D!Next]_dashboard PROVE DashboardInv'
  OBVIOUS
<1>1. << >> \in D!Layouts /\ Neat(<< >>)
  BY EmptyLayout
<1>2. ASSUME D!TypeOK', UNCHANGED view, Neat(request'.widgets), layout' # None => Neat(layout')
      PROVE  DashboardInv'
  BY <1>2 DEF DashboardInv, D!ShownIsSound, Neat
<1>3. ASSUME NEW ws \in D!Layouts, D!put_begin(ws) PROVE DashboardInv'
  <2>1. Neat(ws)
    BY <1>3, LayoutShape DEF D!put_begin, D!Placeable, Neat
  <2>2. request' = [step |-> "save", widgets |-> ws] /\ UNCHANGED << declared, granted, layout, view >>
    BY <1>3 DEF D!put_begin
  <2>3. D!TypeOK'
    BY <1>3, <2>2 DEF DashboardInv, D!TypeOK
  <2> QED BY <1>2, <2>1, <2>2, <2>3 DEF DashboardInv
<1>4. ASSUME D!save_layout PROVE DashboardInv'
  <2>1. /\ layout' = request.widgets /\ request' = [step |-> "show", widgets |-> request.widgets]
        /\ UNCHANGED << declared, granted, view >>
    BY <1>4 DEF D!save_layout, DashboardInv, D!TypeOK
  <2>2. D!TypeOK'
    BY <2>1 DEF DashboardInv, D!TypeOK
  <2> QED BY <1>2, <2>1, <2>2 DEF DashboardInv
<1>5. ASSUME D!reset_layout PROVE DashboardInv'
  <2>1. D!default_layout \in D!Layouts /\ Neat(D!default_layout)
    BY DefaultNeat DEF DashboardInv
  <2>2. /\ layout' = None /\ request' = [step |-> "show", widgets |-> D!default_layout]
        /\ UNCHANGED << declared, granted, view >>
    BY <1>5 DEF D!reset_layout
  <2>3. D!TypeOK'
    BY <2>1, <2>2 DEF DashboardInv, D!TypeOK
  <2> QED BY <1>2, <2>1, <2>2, <2>3
<1>6. ASSUME D!get_dashboard PROVE DashboardInv'
  <2> DEFINE ws == IF layout # None THEN layout ELSE D!default_layout
  <2>1. ws \in D!Layouts /\ Neat(ws)
    BY DefaultNeat DEF DashboardInv, D!TypeOK
  <2>2. request' = [step |-> "show", widgets |-> ws] /\ UNCHANGED << declared, granted, layout, view >>
    BY <1>6 DEF D!get_dashboard
  <2>3. D!TypeOK'
    BY <2>1, <2>2 DEF DashboardInv, D!TypeOK
  <2> QED BY <1>2, <2>1, <2>2, <2>3 DEF DashboardInv
<1>7. ASSUME NEW g \in BOOLEAN, D!grant(g) PROVE DashboardInv'
  <2>1. D!TypeOK'
    BY <1>7 DEF D!grant, DashboardInv, D!TypeOK
  <2> QED BY <1>2, <1>7, <2>1 DEF D!grant, DashboardInv
<1>8. ASSUME NEW ws \in { Widgets, Here } \cup { Widgets \ {w} : w \in Widgets }, D!release(ws)
      PROVE  DashboardInv'
  <2>1. ws \subseteq Widgets
    BY FrameworkAssumption
  <2>2. /\ declared' = ws /\ request' = [step |-> "idle", widgets |-> << >>]
        /\ UNCHANGED << granted, layout, view >>
    BY <1>8 DEF D!release, D!NoRequest
  <2>3. D!TypeOK'
    BY <1>1, <2>1, <2>2 DEF DashboardInv, D!TypeOK
  <2> QED BY <1>1, <1>2, <2>2, <2>3 DEF DashboardInv
<1>9. ASSUME UNCHANGED dashboard PROVE DashboardInv'
  <2>1. D!TypeOK'
    BY <1>9 DEF dashboard, DashboardInv, D!TypeOK
  <2> QED BY <1>2, <1>9, <2>1 DEF dashboard, DashboardInv
<1> QED BY <1>3, <1>4, <1>5, <1>6, <1>7, <1>8, <1>9, AnswerKeeps DEF D!Next

----------------------------------------------------------------------------
(* What is promised.                                                        *)

Outside == << side, vars, reporting, migrating, modules, dashboard, reordering >>

\* However many servers and jobs apply migrations together, die or fail half
\* way, each migration takes effect once, in order and exactly if it is
\* recorded; and whatever the modules depend on, a server starts them after
\* their dependencies, all that are needed and no others, or reports a cycle
\* that is there.
THEOREM ServersBootSound == MCSpec => []BootIsSound
<1> DEFINE Inv == MigrationInv /\ (side = "modules" => OrderInv)
<1>1. MCInit => Inv
  BY MigrationInit, OrderInit DEF MCInit
<1>2. Inv /\ [MCNext]_Outside => Inv'
  <2> SUFFICES ASSUME Inv, [MCNext]_Outside PROVE Inv'
    OBVIOUS
  <2>1. side' = side /\ [G!Next]_migrating
    BY DEF MCNext, Outside
  <2>2. side = "modules" => [M!Next]_modules
    BY DEF MCNext, Outside
  <2>3. MigrationInv'
    BY <2>1, MigrationStep
  <2>4. ASSUME side' = "modules" PROVE OrderInv'
    BY <2>1, <2>2, <2>4, OrderStep
  <2> QED BY <2>3, <2>4
<1>3. Inv => BootIsSound
  BY OrderIsRight DEF BootIsSound, MigrationInv, EachMigrationOnce, DependenciesFirst
<1> QED BY <1>1, <1>2, <1>3, PTL DEF MCSpec, Outside

\* Whatever is delivered again, interrupted, expired and pruned, a completed job
\* that is not expired has its artifact, and an artifact is led to by its row or
\* by the run in hand, unless an interruption or an early pruning cut it loose.
THEOREM ArtifactsAreTied == MCSpec => []ArtifactsTie
<1>1. MCInit => ReportInv
  BY ReportInit DEF MCInit
<1>2. ReportInv /\ [MCNext]_Outside => ReportInv'
  BY ReportStep DEF MCNext, Outside
<1>3. ReportInv => ArtifactsTie
  BY ReportsTie DEF ArtifactsTie, ReportInv
<1> QED BY <1>1, <1>2, <1>3, PTL DEF MCSpec, Outside

\* However runs overlap, and whatever is issued, received, submitted and dropped
\* meanwhile, the orders underway never bring the level over what one run may
\* order up to, unless an order is approved between the two reads of a run.
THEOREM ShortagesAreDraftedOnce == MCSpec => []OneShortageOneDraft
<1>1. MCInit => ReorderInv
  BY ReorderInit DEF MCInit
<1>2. ReorderInv /\ [MCNext]_Outside => ReorderInv'
  BY ReorderStep DEF MCNext, Outside
<1>3. ReorderInv => OneShortageOneDraft
  BY DEF OneShortageOneDraft, O!OneShortageOneDraft, ReorderInv
<1> QED BY <1>1, <1>2, <1>3, PTL DEF MCSpec, Outside

\* Whatever was saved, retired, revoked and released in the meantime: a caller
\* is shown no widget twice, none of another dashboard, none the caller was not
\* permitted when it was answered and no more than the canvas holds.
THEOREM DashboardsShowSound == MCSpec => []ShownIsSound
<1>1. MCInit => DashboardInv
  BY DashboardInit DEF MCInit
<1>2. DashboardInv /\ [MCNext]_Outside => DashboardInv'
  BY DashboardStep DEF MCNext, Outside
<1>3. DashboardInv => ShownIsSound
  BY DEF ShownIsSound, DashboardInv
<1> QED BY <1>1, <1>2, <1>3, PTL DEF MCSpec, Outside
=============================================================================
