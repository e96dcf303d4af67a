------------------------------ MODULE Journal ------------------------------
(***************************************************************************)
(* The double-entry journal of a tenant with its chart of accounts, its    *)
(* posting calendar and the statements read off the ledger                 *)
(* (crates/nebula-apps/src/accounting: journal.rs, account.rs, fiscal.rs,  *)
(* ledger.rs).                                                             *)
(*                                                                         *)
(* A request is two steps, the reads and checks and then the writes.  The  *)
(* requests on an entry hold its row lock from the one to the other; what  *)
(* they read of the chart and of the calendar, and everything a request on *)
(* the chart or the calendar reads, is read without a lock.                *)
(*                                                                         *)
(* Dates are the months they fall in.  The lines of an entry are the       *)
(* signed amount on each account, debits less credits; there is one        *)
(* currency, and numbers, memos and references are left out.               *)
(***************************************************************************)
EXTENDS Integers, FiniteSets, FiniteSetsExt, Functions

CONSTANTS
    Threads,        \* the requests the server handles at a time
    Ids,            \* the rows of the journal
    Accounts,       \* the rows of the chart of accounts
    System,         \* the accounts the default chart seeds
    Months,         \* the months of the calendar
    YearLength,     \* the months of a fiscal year
    Years,          \* the rows of the fiscal years
    Lines,          \* the lines a caller sends
    MaxRetired,     \* bound on the accounts that are inactive
    Overlapping,    \* the areas whose changes overlap other requests
    Type,           \* Type[a]: the type of an account
    None            \* no account, no entry, no period

ASSUME JournalAssumption ==
    /\ System \subseteq Accounts /\ IsFiniteSet(Accounts)
    /\ Months \subseteq Nat
    /\ YearLength \in Nat \ {0}
    /\ Lines \subseteq [Accounts -> Int]
    /\ MaxRetired \in Nat
    /\ Overlapping \subseteq {"chart", "calendar"}
    /\ Type \in [Accounts -> {"asset", "liability", "equity", "revenue", "expense"}]
    /\ None \notin Ids \cup Accounts

VARIABLES
    entries,        \* entries[e]: the journal entries with their postings
    chart,          \* chart[a]: the accounts
    calendar,       \* calendar[y][m]: the status of the periods of a year
    request,        \* request[t]: what a thread has checked and not written
    missed          \* missed[t]: what was closed and retired since it checked

vars == << entries, chart, calendar, request, missed >>

Statuses == {"open", "closed", "locked"}

Entry == [status : {"draft", "posted", "reversed"}, date : Months,
          lines : [Accounts -> Int],
          reverses : Ids \cup {None}, reversed_by : Ids \cup {None}]

ASSUME NoneAssumption == None \notin Entry /\ None \notin Statuses

Idle == [op |-> "idle"]
NothingMissed == [months |-> {}, accounts |-> {}]

\* A year may start in any month: start_date has to be the first of one.
YearStarting(m) == { n \in Months : m <= n /\ n < m + YearLength }

Requests ==
    {Idle}
    \cup [op : {"create", "create_posted"}, date : Months, lines : Lines]
    \cup [op : {"update"}, entry : Ids, date : Months, lines : Lines]
    \cup [op : {"delete", "post"}, entry : Ids]
    \cup [op : {"reverse"}, entry : Ids, date : Months]
    \cup [op : {"open_account"}, account : Accounts, parent : Accounts \cup {None}]
    \cup [op : {"delete_account"}, account : Accounts]
    \cup [op : {"create_year"}, year : Years, start : Months]
    \cup [op : {"transition"}, year : Years, month : Months, to : Statuses]

TypeOK ==
    /\ entries \in [Ids -> Entry \cup {None}]
    /\ chart \in [Accounts -> [state : {"none", "active", "inactive"},
                               parent : Accounts \cup {None}]]
    /\ calendar \in [Years -> [Months -> Statuses \cup {None}]]
    /\ request \in [Threads -> Requests]
    /\ missed \in [Threads -> [months : SUBSET Months, accounts : SUBSET Accounts]]

Init ==
    /\ entries = [e \in Ids |-> None]
    /\ chart = [a \in Accounts |->
                  [state |-> IF a \in System THEN "active" ELSE "none", parent |-> None]]
    /\ calendar = [y \in Years |-> [m \in Months |-> None]]
    /\ request = [t \in Threads |-> Idle]
    /\ missed = [t \in Threads |-> NothingMissed]

----------------------------------------------------------------------------

Exists(e) == entries[e] # None
Status(e) == IF Exists(e) THEN entries[e].status ELSE "none"
InLedger(e) == Status(e) \in {"posted", "reversed"}

AccountsOf(lines) == { a \in Accounts : lines[a] # 0 }
Carries(a) == { e \in Ids : Exists(e) /\ entries[e].lines[a] # 0 }

IsHeader(a) == \E c \in Accounts : chart[c].state # "none" /\ chart[c].parent = a

\* validate_lines: two postings at least, each to an active account that has
\* no sub-accounts.
Valid(lines) ==
    /\ Cardinality(AccountsOf(lines)) >= 2
    /\ \A a \in AccountsOf(lines) : chart[a].state = "active" /\ ~IsHeader(a)

\* The foreign key of the postings: their accounts exist.
AccountsExist(lines) == \A a \in AccountsOf(lines) : chart[a].state # "none"

Balanced(lines) == MapThenSumSet(LAMBDA a : lines[a], Accounts) = 0

PeriodsOf(m) == { y \in Years : calendar[y][m] # None }

\* ensure_open_for_post reads one of the periods that cover the date; a date
\* that none covers is unconstrained.
OpenForPost(m) == PeriodsOf(m) = {} \/ \E y \in PeriodsOf(m) : calendar[y][m] = "open"

\* MUTANT of Unlocked: the entry is read without its row lock.
Unlocked_Always(e) == TRUE

\* load_entry_locked: no request holds the row lock of the entry.
Unlocked(e) ==
    \A t \in Threads :
        request[t].op \in {"update", "delete", "post", "reverse"} => request[t].entry # e

Area(op) ==
    CASE op \in {"open_account", "delete_account", "activate"} -> "chart"
      [] op \in {"create_year", "transition"} -> "calendar"
      [] OTHER -> "ledger"

\* A change of an area that does not overlap runs alone.
MayBegin(op) ==
    \A t \in Threads : request[t] # Idle =>
        {Area(op), Area(request[t].op)} \subseteq Overlapping \cup {"ledger"}

Begin(t, r) ==
    /\ request[t] = Idle
    /\ MayBegin(r.op)
    /\ request' = [request EXCEPT ![t] = r]
    /\ UNCHANGED << entries, chart, calendar, missed >>

\* The requests underway do not see a month that is closed or an account that is
\* retired meanwhile.
Miss(months, accounts) ==
    [t \in Threads |->
        IF request[t] = Idle THEN NothingMissed
        ELSE [months |-> missed[t].months \cup months, accounts |-> missed[t].accounts \cup accounts]]

\* The request of t ends, and closes the months.
End(t, months) ==
    /\ request' = [request EXCEPT ![t] = Idle]
    /\ missed' = [Miss(months, {}) EXCEPT ![t] = NothingMissed]

Finish(t, op) == request[t].op = op /\ End(t, {})

\* A request that fails, or whose connection drops, before it commits.
abandon(t) ==
    /\ request[t] # Idle
    /\ End(t, {})
    /\ UNCHANGED << entries, chart, calendar >>

Change(e, entry) == entries' = [entries EXCEPT ![e] = entry]

----------------------------------------------------------------------------
(* Entries.                                                                *)

NewEntry(status, date, lines) ==
    [status |-> status, date |-> date, lines |-> lines,
     reverses |-> None, reversed_by |-> None]

check_create(t) ==
    \E date \in Months, lines \in Lines :
        /\ Valid(lines)
        /\ Begin(t, [op |-> "create", date |-> date, lines |-> lines])

create_draft(t) ==
    /\ Finish(t, "create")
    /\ AccountsExist(request[t].lines)
    /\ \E e \in Ids :
        /\ ~Exists(e)
        /\ Change(e, NewEntry("draft", request[t].date, request[t].lines))
    /\ UNCHANGED << chart, calendar >>

check_update(t) ==
    \E e \in Ids, date \in Months, lines \in Lines :
        /\ Unlocked(e) /\ Status(e) = "draft"
        /\ Valid(lines)
        /\ Begin(t, [op |-> "update", entry |-> e, date |-> date, lines |-> lines])

update_draft(t) ==
    /\ Finish(t, "update")
    /\ AccountsExist(request[t].lines)
    /\ LET e == request[t].entry IN
        /\ Exists(e)
        /\ Change(e, [entries[e] EXCEPT !.date = request[t].date,
                                        !.lines = request[t].lines])
    /\ UNCHANGED << chart, calendar >>

check_delete(t) ==
    \E e \in Ids :
        /\ Unlocked(e) /\ Status(e) = "draft"
        /\ Begin(t, [op |-> "delete", entry |-> e])

delete_draft(t) ==
    /\ Finish(t, "delete")
    /\ Change(request[t].entry, None)
    /\ UNCHANGED << chart, calendar >>

Postable(e) ==
    /\ Status(e) = "draft"
    /\ OpenForPost(entries[e].date)
    /\ Balanced(entries[e].lines)
    /\ Valid(entries[e].lines)

check_post(t) ==
    \E e \in Ids :
        /\ Unlocked(e) /\ Postable(e)
        /\ Begin(t, [op |-> "post", entry |-> e])

post(t) ==
    /\ Finish(t, "post")
    /\ LET e == request[t].entry IN
        /\ Exists(e)
        /\ Change(e, [entries[e] EXCEPT !.status = "posted"])
    /\ UNCHANGED << chart, calendar >>

check_create_posted(t) ==
    \E date \in Months, lines \in Lines :
        /\ Valid(lines) /\ Balanced(lines) /\ OpenForPost(date)
        /\ Begin(t, [op |-> "create_posted", date |-> date, lines |-> lines])

create_posted(t) ==
    /\ Finish(t, "create_posted")
    /\ AccountsExist(request[t].lines)
    /\ \E e \in Ids :
        /\ ~Exists(e)
        /\ Change(e, NewEntry("posted", request[t].date, request[t].lines))
    /\ UNCHANGED << chart, calendar >>

\* MUTANT of Reversible: a reversal goes into any period.
Reversible_AnyPeriod(e, date) == Status(e) = "posted" /\ date >= entries[e].date

Reversible(e, date) ==
    /\ Status(e) = "posted"
    /\ date >= entries[e].date
    /\ OpenForPost(date)

check_reverse(t) ==
    \E e \in Ids, date \in Months :
        /\ Unlocked(e) /\ Reversible(e, date)
        /\ Begin(t, [op |-> "reverse", entry |-> e, date |-> date])

Mirrored(lines) == [a \in Accounts |-> -lines[a]]

\* The unique index on reverses_id refuses a second reversal.
reverse(t) ==
    /\ Finish(t, "reverse")
    /\ LET e == request[t].entry IN
       \E r \in Ids :
        /\ Exists(e) /\ ~Exists(r)
        /\ \A x \in Ids : Exists(x) => entries[x].reverses # e
        /\ entries' = [entries EXCEPT
               ![r] = [NewEntry("posted", request[t].date, Mirrored(entries[e].lines))
                         EXCEPT !.reverses = e],
               ![e] = [@ EXCEPT !.status = "reversed", !.reversed_by = r]]
    /\ UNCHANGED << chart, calendar >>

----------------------------------------------------------------------------
(* The chart of accounts.                                                  *)

\* MUTANT of CanParent: the postings of the parent are not counted.
CanParent_Uncounted(a) == chart[a].state # "none"

\* An account with postings cannot become a header.
CanParent(a) == chart[a].state # "none" /\ Carries(a) = {}

check_open_account(t) ==
    \E a \in Accounts, parent \in Accounts \cup {None} :
        /\ chart[a].state = "none"
        /\ parent # None => CanParent(parent)
        /\ Begin(t, [op |-> "open_account", account |-> a, parent |-> parent])

open_account(t) ==
    /\ Finish(t, "open_account")
    /\ LET a == request[t].account
           parent == request[t].parent IN
        /\ chart[a].state = "none"
        /\ parent # None => chart[parent].state # "none"
        /\ chart' = [chart EXCEPT ![a] = [state |-> "active", parent |-> parent]]
    /\ UNCHANGED << entries, calendar >>

Deletable(a) ==
    /\ chart[a].state # "none" /\ a \notin System
    /\ Carries(a) = {} /\ ~IsHeader(a)

check_delete_account(t) ==
    \E a \in Accounts :
        /\ Deletable(a)
        /\ Begin(t, [op |-> "delete_account", account |-> a])

\* The foreign keys of the postings and of the sub-accounts stand in the way.
delete_account(t) ==
    /\ Finish(t, "delete_account")
    /\ LET a == request[t].account IN
        /\ Carries(a) = {} /\ ~IsHeader(a)
        /\ chart' = [chart EXCEPT ![a] = [state |-> "none", parent |-> None]]
    /\ UNCHANGED << entries, calendar >>

\* Store::update with is_active: one update, of that column.
activate(a) ==
    /\ MayBegin("activate")
    /\ chart[a].state # "none"
    /\ \E state \in {"active", "inactive"} \ {chart[a].state} :
        /\ state = "inactive" =>
              Cardinality({ x \in Accounts : chart[x].state = "inactive" }) < MaxRetired
        /\ chart' = [chart EXCEPT ![a].state = state]
        /\ missed' = Miss({}, IF state = "inactive" THEN {a} ELSE {})
    /\ UNCHANGED << entries, calendar, request >>

----------------------------------------------------------------------------
(* The calendar.                                                           *)

Overlaps(m) == \E n \in YearStarting(m) : PeriodsOf(n) # {}

NoPeriods(y) == \A m \in Months : calendar[y][m] = None

check_create_year(t) ==
    \E y \in Years, m \in Months :
        /\ NoPeriods(y) /\ ~Overlaps(m)
        /\ Begin(t, [op |-> "create_year", year |-> y, start |-> m])

create_year(t) ==
    /\ Finish(t, "create_year")
    /\ LET y == request[t].year IN
        /\ NoPeriods(y)
        /\ calendar' = [calendar EXCEPT ![y] =
               [m \in Months |-> IF m \in YearStarting(request[t].start)
                                 THEN "open" ELSE None]]
    /\ UNCHANGED << entries, chart >>

\* close_period, reopen_period and lock_period.
From(to) == IF to = "closed" THEN {"open"} ELSE {"closed"}

check_transition(t) ==
    \E y \in Years, m \in Months, to \in Statuses :
        /\ calendar[y][m] \in From(to)
        /\ Begin(t, [op |-> "transition", year |-> y, month |-> m, to |-> to])

\* The update is by id: the status that was read is not looked at again.
transition(t) ==
    /\ request[t].op = "transition"
    /\ calendar' =
          [calendar EXCEPT ![request[t].year][request[t].month] = request[t].to]
    /\ End(t, IF request[t].to = "open" THEN {} ELSE {request[t].month})
    /\ UNCHANGED << entries, chart >>

----------------------------------------------------------------------------

Next ==
    \/ \E t \in Threads :
        \/ check_create(t) \/ create_draft(t) \/ check_update(t) \/ update_draft(t)
        \/ check_delete(t) \/ delete_draft(t) \/ check_post(t) \/ post(t)
        \/ check_create_posted(t) \/ create_posted(t) \/ check_reverse(t) \/ reverse(t)
        \/ check_open_account(t) \/ open_account(t)
        \/ check_delete_account(t) \/ delete_account(t)
        \/ check_create_year(t) \/ create_year(t) \/ check_transition(t) \/ transition(t)
        \/ abandon(t)
    \/ \E a \in Accounts : activate(a)

Spec == Init /\ [][Next]_vars

----------------------------------------------------------------------------

Ledger == { e \in Ids : InLedger(e) }

----------------------------------------------------------------------------
(* The statements.  Amounts are debits less credits.                       *)

DebitNormal(a) == Type[a] \in {"asset", "expense"}
Natural(a, amount) == IF DebitNormal(a) THEN amount ELSE -amount

\* Over a range of months; reversed entries stay in the ledger, with the ones
\* that offset them.
totals_range(from, to) ==
    [a \in Accounts |-> MapThenSumSet(LAMBDA e : entries[e].lines[a],
                                      { e \in Ledger : entries[e].date \in from..to })]

\* As of a month: everything up to it.
First == CHOOSE m \in Months : \A n \in Months : m <= n
totals(as_of) == totals_range(First, as_of)

Over(type, sums) == MapThenSumSet(LAMBDA a : Natural(a, sums[a]), { a \in Accounts : Type[a] = type })

\* The two columns of what totals hold: net in debit, and net in credit.
trial_balance(sums) ==
    [debit |-> MapThenSumSet(LAMBDA a : sums[a], { a \in Accounts : sums[a] >= 0 }),
     credit |-> MapThenSumSet(LAMBDA a : -sums[a], { a \in Accounts : sums[a] < 0 })]

\* What was there before the first month, and one line for each entry since.
account_ledger(a, from, to) ==
    LET opening == Natural(a, totals(from - 1)[a])
        lines == { e \in Ledger : entries[e].date \in from..to } IN
    [opening |-> opening,
     closing |-> opening + MapThenSumSet(LAMBDA e : Natural(a, entries[e].lines[a]), lines)]

net_income_of(sums) == Over("revenue", sums) - Over("expense", sums)

StartOf(y) == CHOOSE m \in Months : calendar[y][m] # None /\ \A n \in Months : calendar[y][n] # None => m <= n

\* The income of the years before the one, y, that covers the date.
prior_earnings(y) == net_income_of(totals(StartOf(y) - 1))

balance_sheet(sums) ==
    [assets |-> Over("asset", sums), liabilities |-> Over("liability", sums), equity |-> Over("equity", sums),
     net_income |-> net_income_of(sums)]

income_statement(sums) ==
    [revenue |-> Over("revenue", sums), expenses |-> Over("expense", sums),
     net_income |-> Over("revenue", sums) - Over("expense", sums)]

----------------------------------------------------------------------------
(* Properties.                                                             *)

\* Whoever drafts, posts and reverses at the same time: the columns of the
\* trial balance foot to the same total; the balance sheet balances with the
\* income that was never closed, and splits it where the fiscal year begins, at
\* what the income statement of the year so far shows; the ledger of an account
\* ends at its trial balance wherever it is begun.
StatementsTie ==
    Ledger # {} => \A m \in Months : \A sums \in { totals(m) } :
        LET columns == trial_balance(sums)
            sheet == balance_sheet(sums) IN
        /\ columns.debit = columns.credit
        /\ sheet.assets = sheet.liabilities + sheet.equity + sheet.net_income
        /\ \A y \in PeriodsOf(m) :
              sheet.net_income - prior_earnings(y)
                  = income_statement(totals_range(StartOf(y), m)).net_income
        /\ \A a \in Accounts, n \in Months :
              n <= m => account_ledger(a, n, m).closing = Natural(a, sums[a])

\* What the ledger holds on an account in a month, entry by entry, and together.
Posted(a, m) == [e \in { x \in Ledger : entries[x].date = m } |-> entries[e].lines[a]]
Total(amounts) == FoldFunction(LAMBDA x, y : x + y, 0, amounts)
Activity(a, m) == Total(Posted(a, m))

\* An entry is reversed when and only when one entry of the ledger reverses it,
\* the two point at each other, the reversal is not dated before its original
\* and the pair nets to nothing on every account (Ledger::reverse).
ReversalsPair ==
    /\ \A e \in Ids : (Status(e) = "reversed") <=> (\E r \in Ids :
            Exists(r) /\ entries[r].reverses = e)
    /\ \A e, r \in Ids : Exists(r) /\ entries[r].reverses = e =>
            /\ InLedger(r) /\ Exists(e) /\ entries[e].reversed_by = r
            /\ entries[r].date >= entries[e].date
            /\ \A a \in Accounts : entries[e].lines[a] + entries[r].lines[a] = 0

\* An account with sub-accounts organizes the chart and carries no postings,
\* those of drafts included (Store::create, validate_lines).
HeadersCarryNothing == \A a \in Accounts : IsHeader(a) => Carries(a) = {}

\* What is in the ledger stays there as it is: a request that read the entry as
\* a draft no longer changes it, and only a reversal moves its status
\* (EntryStatus::Posted: "committed to the ledger; immutable").
PostedIsImmutable ==
    [][\A e \in Ledger :
         /\ InLedger(e)'
         /\ entries'[e].date = entries[e].date
         /\ entries'[e].lines = entries[e].lines
         /\ entries'[e].reverses = entries[e].reverses
         /\ Status(e) = "reversed" => entries'[e] = entries[e]]_vars

\* A request that ends in this step was underway as the month was closed, and
\* as the account was retired.
UnderwayAtClose(m) == \E t \in Threads : request'[t] # request[t] /\ m \in missed[t].months
UnderwayAtRetirement(a) == \E t \in Threads : request'[t] # request[t] /\ a \in missed[t].accounts

\* The figures of a month that is closed or locked are final until it is
\* reopened: no post, document or reversal changes them but one that was let in
\* before the close and was still underway (ensure_open_for_post).
ClosedMonthsAreFinal ==
    [][\A m \in Months :
         ~OpenForPost(m) =>
            \/ \A a \in Accounts : Activity(a, m)' = Activity(a, m)
            \/ UnderwayAtClose(m)]_vars

\* Locking makes the close permanent, but for a reopening that was underway as
\* the month was locked (FiscalService::transition).
LockedForever ==
    [][\A y \in Years, m \in Months :
         calendar[y][m] = "locked" => calendar'[y][m] = "locked" \/ UnderwayAtClose(m)]_vars

\* A retired account takes part in no new entry but the reversal of an old one
\* and one that was underway as it was retired (validate_lines, which reverse
\* does not call).
RetiredAccountsRest ==
    [][\A e \in Ids : InLedger(e)' /\ ~InLedger(e) /\ entries'[e].reverses = None =>
         \A a \in Accounts : entries'[e].lines[a] # 0 =>
            chart[a].state = "active" \/ (chart[a].state = "inactive" /\ UnderwayAtRetirement(a))]_vars

\* The books are in order: a reversed entry has one reversal that mirrors it,
\* linked both ways, and accounts that organize the chart carry nothing.
BooksTie == TypeOK /\ ReversalsPair /\ HeadersCarryNothing

\* Whatever overlaps, nothing is posted into a closed month or to a retired
\* account, and a locked month stays locked - but by requests that had done
\* their checks before the close, the retirement or the locking and had not
\* committed yet, the only ones the code lets slip.
ClosedBooksRest == ClosedMonthsAreFinal /\ LockedForever /\ RetiredAccountsRest

=============================================================================
