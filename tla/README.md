# Verification of rs-nebula

TLA+ models of rs-nebula: the framework's machinery (numbers, migrations, report
jobs, tenants, accounts, permissions, audit), and the documents of its
applications (stock, procurement, sales, the point of sale, the ledger) with what
they book.  TLC checks small instances; TLAPS proves the theorems of section 6
for every value of the constants.

    tlc -config Journal.cfg MCJournal       # a run of section 5
    tlapm JournalProofs.tla                 # a proof module of section 6

`PROJECT.json` lists the components, the runs, the lines each definition models,
the hazards, the findings and the theorems.

## 1. The system

rs-nebula is a multi-tenant ERP in Rust over Postgres.  `crates/nebula` is the
framework; `crates/nebula-apps` holds the applications, of which `accounting` and
`scm` (inventory, procurement, sales, pos) keep documents whose arithmetic and
ordering matter.  Requests run concurrently; all shared state is in the database
of the tenant or in the main one.  What a model has to get right is therefore
which reads are under a row lock of the transaction that writes, and which are
not; which statements share a transaction; and where a server can stop.

| Component | State | Operations | What is hard | What makes it right |
|---|---|---|---|---|
| Numbering (`nebula/src/numbering.rs`) | a counter row per series and period, tenant overrides | next, set_override, clear_override | clock and format are read before the counter row is locked; rollbacks | gap-free, in order, unique, nobody waits for ever |
| Stock engine (`scm/inventory/stock.rs`) | level rows: on hand, reserved, on order, value | apply, reserve_up_to, release_reserved, adjust_on_order | rounding, the issue that empties a level, reservations of others | never negative, never promised twice, no value on an empty level |
| Stock movements (`moves.rs`, `batch.rs`) | documents, stock ledger, lots, units | draft, post, reverse | reversals of reversals; lots and units that must follow the level | a reversal undoes; lots and units add up to the level |
| Orders and deliveries of sales (`sales/order.rs`, `delivery.rs`) | order and line counters, deliveries | confirm, reserve_more, cancel, close; draft, post, reverse; bill | partial grants and shipments, several orders on one level | reservations backed by the level, status follows the lines |
| Offers, credit, prices (`quotation.rs`, `customer.rs`, `pricing.rs`) | quotations, limits, price lists and the pointers to them | offer, accept, convert, confirm; resolve; activate, archive | exposure and lists are read without locks | an offer keeps its prices, a lone confirmation its limit, an archived list its lines |
| Requisitions, RFQs (`requisition.rs`, `rfq.rs`) | documents and the drafts cut for them | submit, approve, convert; quote, award, cancel | a draft order is committed before its document is claimed | a claimed document has its order, a loser's draft is gone |
| Purchase orders, receipts, returns, bills (`procurement/*.rs`) | received and billed counters, demand of a level | approve, receive, return, bill, close and every reversal | long sequences over shared counters | on order is the open demand; what is billed arrived |
| Reorder worker (`reorder.rs`) | an advisory lock | run | the level and the orders are read apart | one shortage, one draft; a shortage is covered |
| Payables, receivables (`payment.rs`, `invoice.rs`, `credit_note.rs`) | payments, allocations, credit notes | post, cancel, reverse, credit | settled amounts read before the locks; totals recomputed at today's tax | allocations fit the invoice; the control account ties |
| Point of sale (`pos/session.rs`, `sale.rs`) | sessions, orders, refunds, drawer movements | open, capture, refund, void, cash_movement, close | checks outside of the writing transaction; replays of an offline queue; a close in two steps; rounding | sold once, consolidated once, the books fit the count |
| GL outbox and matrix (`scm/gl.rs`, `accounting/gl_port.rs`) | staged requests, entries by source | stage, publish, sweep, book; a request per kind of document | crashes between commit and publication, duplicate deliveries, a closed period; rounding | booked exactly once in the end; entries balance and follow the stock |
| Journal, chart, calendar, statements (`accounting/*.rs`) | entries, accounts, fiscal years and periods | create, update, delete, post, reverse; open, retire, delete; create_year, transition; the four statements | drafts that outlive their accounts, unlocked reads of chart and calendar | balanced, immutable, reversed once, closed months final, statements that tie |
| Tenancy (`tenancy`, `account/mod.rs`) | directory rows, databases, pools, a cache | register, resolve, update, remove | a registration of five steps with compensations; a cache refilled behind a write; a write dropped before its invalidation | whole or not at all; what is served is what is written, or the request that left it is known |
| Accounts (`auth/manager.rs`) | user, tokens, history, directory | sign in, refresh, change, reset, two-factor, deactivate, delete | statements without a common transaction | sessions end, what is spent stays spent |
| Roles, endpoints, requests (`auth`, `administration`, the handlers, `web`) | roles, grants; hundreds of endpoints | create a user, grant, revoke, ask; a request from its token to the service | replaced grants, PIN approval, permissions taken back meanwhile | ways to ask agree; who drafts does not approve |
| Password policy, audit retention | overrides, days | check_override, effective; prune | zero means different things | never weaker than the floor; nothing goes before its day |
| Migrations, modules (`sql_migrations.rs`, `kernel.rs`, `module.rs`) | applied files, an advisory lock | apply, boot, resolve | servers that start together or die; lock and work on one pool | each file once, dependencies first |
| Report jobs (`reporting.rs`) | rows, messages, artifacts | queue, render, fail, download, prune | four stores, no common transaction | an artifact has its row; a queued job is settled |
| Dashboards (`dashboard.rs`) | saved layouts | save, arrange, show | layouts outlive widgets and permissions | what is shown exists and is permitted |

Section 8 says what is not modelled.

## 2. Plan

Done, in the order of what the documents rest on: numbers, the stock engine and
its movements; sales fulfilment; the till; the outbox and the journal; procurement;
settlement, receivables and payables; sourcing, commitments and prices; the posting
matrix, the statements and the money of the till; migrations, module order, report
jobs, dashboards and the reorder worker; tenancy, accounts, roles, endpoints,
requests, password policy and retention.

Left, in this order:

- a proof of `EntriesTie`, by the lemmas on `Tally` of `StockProofs`;
- units received into two warehouses at once (the open hazard of `batch.rs`), which
  needs `StockMoves` split at the unlocked read of the unit;
- the lock order of the posting handlers over document, level and series rows.

## 3. Modules

| Module | Models | Rests on |
|---|---|---|
| `GaplessSeries` | abstract: a series that only moves to its next number | |
| `Numbering` | numbering.rs; `Resolve` is what `next` reads, `Allocate` the upsert that locks the counter row, `Commit` and `Rollback` the caller's transaction | refines GaplessSeries |
| `StockEngine` | stock.rs: each operation a function of the locked row | |
| `StockMoves` | moves.rs and batch.rs for one item, plain, by lot or by unit | StockEngine |
| `LineSums` | sums of bounded quantities, written so that they can be proved about | |
| `SalesFulfilment` | order.rs, delivery.rs and the billed counters of invoice.rs | StockEngine, LineSums |
| `SalesCommitments` | quotation.rs, the drafts of order.rs, the credit check | LineSums |
| `PriceResolution`, `PriceLists` | pricing.rs: the answer to one query; the life of a list | |
| `Procurement` | order.rs, receipt.rs, returns.rs, invoice.rs of procurement | StockEngine, LineSums |
| `Sourcing` | requisition.rs, rfq.rs | |
| `Reorder` | reorder.rs | LineSums |
| `Settlement` | the protocol that both payment.rs share | LineSums |
| `Receivables`, `Payables` | the two ledgers over it | Settlement |
| `PosTill` | session.rs and sale.rs of one register, in quantities | StockEngine, LineSums |
| `Takings` | the money of one session | |
| `GlBooks` | abstract: a posted document is booked once | |
| `GlOutbox` | gl.rs (outbox) and gl_port.rs | refines GlBooks |
| `GlEntries` | gl.rs (the posting matrix), with the documents that book | |
| `Journal` | journal.rs, account.rs, fiscal.rs, and the statements of ledger.rs | |
| `Tenancy`, `Accounts`, `Roles` | companies, the accounts of their users, what they may do | |
| `HttpRequests` | every endpoint as a row; a request to one of them | |
| `CompanySettings` | policy.rs and pruner.rs: what a company settles for itself | |
| `Migrations`, `ModuleOrder` | sql_migrations.rs, kernel.rs, module.rs; the recursive `visit` is a machine with its stack of calls (`path`), how far each has got in its dependencies (`asked`) and the order it builds (`ordered`), one step per call and return | |
| `ReportJobs`, `Dashboards` | reporting.rs, dashboard.rs | |
| `MC*` | values of the constants for TLC, and the properties of the runs as conjunctions of the modules' | |
| `StockProofs` | theorems on the engine; lemmas on sums, on sorting and on induction | StockEngine, LineSums, TLAPS |
| `SalesFulfilmentProofs` | section 6: orders and deliveries; the till | SalesFulfilment, MCPosTill, StockProofs |
| `ProcurementProofs` | section 6: purchase documents, and the stock documents of `StockMoves` | MCProcurement, StockProofs |
| `SettlementProofs` | section 6 | MCSettlement, StockProofs |
| `CommerceProofs` | section 6: sourcing, commitments, price lists, prices | MCCommerce, StockProofs |
| `FrameworkProofs` | section 6: numbers, migrations, module order, report jobs, dashboards, reorder worker | MCFramework, StockProofs |
| `PlatformProofs` | section 6: companies, roles, accounts, settings, retention; the outbox | MCIdentity, GlOutbox, TLAPS |
| `JournalProofs` | section 6 | Journal, TLAPS |

`MCFramework`, `MCIdentity`, `MCCommerce`, `MCJournal`, `MCPosTill` and
`MCSettlement` hold several instances that share no state.  A variable `side` (or
`ledger`) is chosen at the start and never changes; a behaviour is one of that side
alone, and the variables of the others rest.  What a run explores is thus the sum,
and not the product, of its sides.

How the state and the steps correspond to the code:

- **One step per handler where the locks allow it.**  The handlers of
  `StockMoves`, `SalesFulfilment` and `Procurement` lock the document and the levels
  before they read them, so a handler is one atomic step; the comment at the head of
  each module says on what that rests.  An action has all the writes of its handler,
  trailing ones included (`recompute_status` is part of `post`, `reverse` and so on).
- **Several steps where they do not.**  A request of `PosTill`, `Journal`,
  `Sourcing`, `PriceLists`, `Settlement`, `Accounts`, `Tenancy`, `Reorder`,
  `SalesCommitments` or `HttpRequests` reads in one step and writes in later ones;
  what it read is kept in a variable of the request (`handler[t]`, `request[t]`,
  `posting[p]`, `call`).
- **Guards are the early returns.**  A refused request changes nothing and is no
  step; a request that fails between its steps is `abandon`, `Rollback`, `die`.
- **Constraints of the schema** are conjuncts of the writing step: the unique
  number, the idempotency key, one reversal per entry, one open session per
  register, the foreign keys.
- **Names** follow the source (`reserve_up_to`, `close_retry`, `sweep_one`).
  Operators named `X_Something` under a comment "MUTANT of X" are broken variants
  of `X` that show a property can fail; no specification uses them.

What is abstracted: texts, memos, references and layout everywhere; quantities
are small integers; a number is the fields it shows; `StockEngine` keeps money in
whole cents and cost in millionths, `GlEntries` and `Takings` in tenths of a cent, all
with the rounding of the code (half to even, to the cent); dates are days or the
months they fall in.  Hashes, tokens and signatures are values that match or do not.

## 4. Fairness

Fairness is stated where the code or Postgres gives it, and only in the modules
that owe somebody something:

- `Numbering`, weak: Postgres serves the waiters of a row lock, and a transaction
  that has its number ends.
- `ReportJobs`, weak: the worker goes on with a message it has (an endless loop over
  the queue).
- `Migrations`, weak for each step of whoever applies, strong for `take_lock`: the
  advisory lock becomes free again and again as others finish or die, and Postgres
  queues those who wait.
- `Reorder`, weak for a run that has the lock, strong for beginning one: the worker
  ticks for ever, and the lock is free between runs.
- `Settlement`, strong: a posting that waits for an invoice row gets it some day,
  commits, is refused, or is told by the deadlock detector to fail.
- `GlOutbox`, weak: a staged row ages, the sweeper runs again and again
  (`spawn_sweeper` is an endless interval loop), a delivery that started ends, a
  period that requests wait for is reopened.

Nothing makes a user act, a server stop or a bookkeeper close a period; crashes,
faults and closings are bounded (`MaxCrashes`, `MaxFaults`, `MaxRuns`, `MaxClosings`), since
after unbounded ones nothing could be promised.  The other modules state safety
only and assume nothing.

## 5. Runs

| Run | Shows | Bounds, and why they are enough |
|---|---|---|
| `framework` | `GapFree`, `IssuesInOrder` (refinement of GaplessSeries), `ArtifactsTie`, `BootIsSound`, `ShownIsSound`, `OneShortageOneDraft`; `WorkEnds` | six sides: 3 transactions on one series (one holds, two wait) over 2 years of 2 months, so that both resets happen; 2 report jobs, 2 deliveries each and 1 fault; 2 boots of one server and a job of another, 2 files, a pool of 2 connections, 2 faults; every graph of 3 modules and the application in which each names at most two, in one order; 3 widgets of which one is another dashboard's and one guarded; 2 reorder runs and 2 orders around one policy |
| `identity` | `TenanciesSound`, `PermissionsSound`, `CredentialsEnd`, `DirectoryFollows`, `RolesHold`, `PoliciesHold`, `PrunedAsChosen` | six sides: 2 registrations race for 2 names and one place, with a request, a writer of the directory, drops of either anywhere and 1 fault; 2 administrators, 1 further role, 6 acts, users made with the flag or without; 2 requests of one account, 3 passwords, which the policy all remembers, 2 recovery codes, 2 tokens, 2 failures to the lockout, 4 acts; every endpoint, asked by 5 people of different permissions; every choice of a policy under 2 deployments; 2 companies and the server over 3 days, a server's window of 1 and a cap of 2, choices of none, 0, 1, 2 and 3 days |
| `stock_moves` | `StockAddsUp`, `ReversalUndoes` | 4 documents over 2 warehouses, so that a document, its reversal and the reversal of that meet another document; 2 lots, 2 units; two lines in a document of a plain item (`MaxLines`), one of a tracked one (`MaxTrackedLines`) |
| `sales_fulfilment` | `ReservationsBacked`, `PromisesKept` | 2 orders, 5 lines, 2 levels, a service line, 2 deliveries; two lines of one order and one of the other share a level of at most 2 |
| `procurement` | `OnOrderIsOpenDemand`, `PaidGoodsArrived`, `ReceiptsAddUp` | 2 orders with 3 lines of 1 on one level, 3 receipts (a receipt, its reversal, the reversal of that), 1 return, 1 bill; stock of others up to 1 |
| `settlement` | `AccountsTie`, `SettlementsFit`; `PostingEnds` | 2 invoices of 4 and 2, 2 payments that overlap or not and lock in either order; 2 payments meet 1 credit note, 2 notes 1 payment; both ledgers |
| `settlement_overlapping` | finding: `NeverOverSettled` fails | the same, overlapping |
| `commerce` | `OrdersAreClaimed`, `ResolvesByTheRule`; `CreditHeld`, `DecisionsStand` | four sides: 1 requisition, 2 RFQs, 2 requests, of which one may die, 3 orders; 1 offer, 2 orders and limits of nothing, 2 and none; every pair of lists over 5 kinds of lines, asked every query of `MCQueries`; 1 list written by 2 requests |
| `pos` | `RefundsFitSales`, `BooksFitSessions`, `OncePerKeyAndSession`, `TakingsTie`; `SessionsStand` | three sides: one request at a time, 2 sessions, so that a refund and a void meet a later session, 3 keys; 2 threads, 1 session, 2 keys; 3 receipts of baskets of 2 rates, a discount and 2 prices, with tenders and counts that miss |
| `pos_refund_race` | finding: `RefundsWithinSale` fails | 2 threads, 1 session |
| `gl_outbox` | `ImplementsBooks` (refinement of GlBooks), `RequestsEnd` | 3 documents (one with nothing to book), 1 sweeper, 1 crash, 1 closing |
| `journal` | `BooksTie`, `EntriesTie`; `PostedIsImmutable`, `ClosedBooksRest` | four sides: 3 entries (an entry, its reversal, the reversal of that), 2 threads, 3 accounts of which one is opened under another, 2 months and years that overlap in part, changes of the chart and the calendar between the requests; 2 entries, one year of which a month closes and locks and an account that retires in the middle of requests; 2 documents of any kind over 2 items with different accounts, at prices, rates and headers that round; 4 purchase documents of one item |

The type invariant of a module is a conjunct of a property of its run, or proved
(section 6).  `BooksTie`, `EntriesTie`, `PromisesKept` and others are
conjunctions of properties the modules define and comment one by one
(`StatementsTie`, `ReversalsPair`, `HeadersCarryNothing`; ...).  Smaller bounds than
the code's, such as two of everything, are enough where a hazard is a race of two; each
property has a mutant in `PROJECT.json` that breaks it within them.

Deadlock is checked where a behaviour can always go on (`sales_fulfilment`,
`procurement`, `pos`, `gl_outbox`).  In `framework`, `identity`, `stock_moves`,
`commerce`, `settlement` and `journal` a behaviour ends when every identifier of the
instance is used up and every request is over; that two postings waiting for each
other go on is `PostingEnds`, and that nobody waits for ever is `WorkEnds`.

What holds only when requests do not overlap, and is checked so:

- In `pos`, `RefundsFitSales` and `BooksFitSessions` speak of the serial side.
  With two requests at a time `RefundsWithinSale` fails (the run `pos_refund_race`), a
  void that counts the refunds of its order while one is on its way breaks
  `VoidedUnreferenced`, a drawer movement written after the count `CashIsCounted`, and a
  sale written after it `SellsInside`.
- In `journal`, `BooksTie` and the statements are checked with changes of the chart and
  the calendar that run alone (side "ledger"); when the chart changes underway
  `HeadersCarryNothing` fails, since `Store::create` counts the postings of the parent
  without a lock.  `ClosedBooksRest` is checked with such changes underway as well
  (side "closing"): a request that had checked the month or the account before the
  close, the locking or the retirement and commits after it does slip through, since
  `ensure_open_for_post`, `transition` and `validate_lines` lock nothing, and the
  property says that no other does.  The ghost variable `missed` keeps, for a request
  underway, what was closed, locked or retired since it began.  Two years made at
  once over the same months are left to the theorem.
- In `settlement`, `SettledWithinTotal` speaks of behaviours in which no two postings
  overlapped (and, of sales, the tax did not change).  `AccountsTie` holds whatever
  changes: the ghost variable `revalued` is what the posted documents came to less
  when the customer became exempt, and the account differs from what the documents come
  to by that and by nothing else, whatever is cancelled later.
- `CreditHeld` leaves out confirmations during which the exposure grew (`grown`),
  `OneShortageOneDraft` runs that an approval overtook (`overtaken`), `RetiredListsRest`
  the write of a request that read the list in another status (`outdated`),
  `OrdersAreClaimed` requests that died (`died`); `PermissionsSound` and
  `TenanciesSound` say by `crossed`, `drifted`, `lent`, `stale`, `lingering`, `stranded`
  and `crowded` what they leave out: a name whose cached row, or a company whose pool, a
  write overlapped or was dropped behind is `stale` or `lingering` until it is
  invalidated, evicted or expires; a user that `create_user` made with the flag of a
  tenant administrator, and so without the Admin role, has `drifted`.  Each of these marks is set by the interleaving it names and
  by nothing else, and section 7 says what happens then.

## 6. Proofs

| Module | Theorem | From |
|---|---|---|
| `FrameworkProofs` | `TypeCorrect`, `NumbersAreGapFree`, `ImplementsGapless`, `NumbersNeverDuplicated` | the assumptions of Numbering; the last also assumes `AllCoherent`: every format shows the date parts its counter restarts on |
| | `ServersBootSound`, `ArtifactsAreTied`, `DashboardsShowSound`, `ShortagesAreDraftedOnce` | `FrameworkAssumption`: migrations are numbered from 1, processes and orders finitely many, a widget has one default position, and what the reorder policy orders fits the column |
| `StockProofs` | `ReceiptKeepsSound`, `IssueKeepsSound`, `ReserveKeepsSound`, `ReleaseKeepsSound`; lemmas on sums and on rounding | `MaxQtyAssumption`, `CostPerCentAssumption` |
| `SalesFulfilmentProofs` | `TypeCorrect`, `LevelsBackLines`, `LinesBounded`, `EndedOrdersHoldNothing`, `LevelsStaySound`, `PromisesAreKept` | those, and `FulfilmentAssumption`: finitely many lines, ordered in positive quantities (order.rs refuses others), and deliveries |
| | `RefundsStayWithinSales`, `ClosedSessionsFit`, `KeysSellOnce`, `CountedSessionsStand` | those of the engine, and `TillAssumption`: finitely many requests at a time, sales of positive quantities that fit a line, counts that are not negative |
| | `TakingsBalance` | `TillAssumption`: any prices from nothing up, any baskets that are finite lists of lines with a discount that is at most their worth, any ways to tender |
| `ProcurementProofs` | `DemandIsTracked`, `BilledGoodsArrived`, `ReceivedQuantitiesAddUp`, `ProcurementKeepsLevelsSound` | those of the engine, and `ProcurementAssumption`: finitely many lines and documents |
| | `StockMovesAddUp`, `ReversalsUndo` | `StockMovesAssumption`: finitely many lots and units, quantities and costs that are not negative, names that are told apart; documents and warehouses need not be finite |
| `SettlementProofs` | `AccountsAreTied`, `SettlementsAreFit` | `SettlementAssumption`, `ReceivablesAssumption`, `BillsAssumption`: finitely many documents, and totals, with tax, and the sums of a payment's allocations fit their columns |
| `CommerceProofs` | `OrdersStayClaimed`, `CreditIsHeld`, `DecisionsAreFinal` | `CommitmentAssumption`, `NamesAssumption`: finitely many orders; `None` names no document |
| | `PricesFollowTheRule` | `PricingAssumption`: finitely many lists, numbered by age; of a list, no two lines for one unit and break, which `replace_lines` refuses |
| `PlatformProofs` | `TenanciesStaySound`, `PermissionsStaySound`, `CredentialsStayEnded`, `DirectoryStaysInStep` | `IdentityAssumption`: names, users, roles, rows and `None` are told apart, no password is the word for a deletion, the bounds are numbers |
| | `PoliciesStayHeld`, `TrailsPrunedAsChosen` | `CompanyAssumption`: policies are typed as the code types them, companies finitely many |
| | `TypeCorrect`, `BookedAtMostOnce`, `RequestsNeverLost`, `ImplementsTheBooks` | the assumptions of GlOutbox; documents and sweepers need not be finite |
| `JournalProofs` | `TypeCorrect`, `LedgerIsImmutable` | the assumptions of Journal, with no restriction on what overlaps |
| | `BooksAreInOrder` | also: nothing overlaps a change of the chart |
| | `ClosedBooksStayClosed` | those of Journal, whatever overlaps |

Bounds on numbers that the assumptions state stand for the widths of the columns:
`MaxQty` is the largest quantity or amount a NUMERIC column holds, and Postgres refuses
the write of more.

*Numbers are gap-free.*  `GapFree` alone is not inductive: a transaction that holds a
number has to hold the next one.  `GapInv` adds that whoever is past the counter row
holds `counter + 1` and is alone on its row; then a commit extends 1..counter by its
successor and a rollback leaves it.  `NumbersNeverDuplicated` adds that what a
committed document shows is rendered from its key, period and sequence, which a
coherent format renders injectively.

*Migrations.*  `EachMigrationOnce` says that each file took effect once, in order and
exactly if it is recorded.  `HolderWorks` says that who reads what is recorded and
applies files holds the advisory lock, and that nobody else does; so what an applier
has read stays what is recorded (`ReadsStay`), and the file it goes on with is the
next one (`NextFile`).  A death or a fault leaves what is recorded and the schema
together and frees the lock; every failure is then paid for by a fault.

*Module order.*  The search keeps a stack of calls, each at the next of its
dependencies.  `OrderInv` says that the modules on the stack are distinct and none of
them ordered (`StackSound`), that each needs those above it (`ChainNeeds`), that what a
call has asked for is ordered or the next one up (`AskedFor`), and that what is ordered
has its dependencies before it (`DependenciesBefore`).  A dependency that is found on
the stack thus needs itself (`Verdict`), and when the application has asked for all of
its own, everything it needs is ordered and nothing of it on a cycle.  That the search
ends is not proved.

*Report jobs.*  Four stores are written one after the other, so that an artifact and
its row agree only up to the run in hand.  `ReportInv` says what that run may have left
(`RunInHand`, `OwnFiles`), that what a row points to is there (`FilesThere`), and that
every file is reached by a row, by the run in hand or by one of the interruptions that
the marks `loose` and `unrecorded` name (`Traced`).

*Dashboards.*  What is saved, asked for and shown places no widget twice and no more
than the canvas holds (`Neat`), and what the filter keeps of a neat list is neat
(`KeptNeat`).  The latter is about a list of any length, and is proved by `SetInduction`:
the k-th place of a set of places exists (`NthPlace`).

*Reorder worker.*  What is on order is the sum of the approved orders (`ReorderInv`),
and while no approval overtakes it, what a run read of the level covers what is on
order (`RunsSeeOrders`), since receipts and cancellations only lower it.  The run adds
what is drafted at the end, so that a draft is written over a position that is short,
and lands on the ceiling of one run; every other step lowers what is underway or
leaves it.

*Sums.*  A sum over lines is the number of the pairs (line, unit) it has, so that what
is needed of it follows from facts about finite sets: adding to one line adds to the
sum (`SumTaken`, `SumOne`), disjoint sets of lines add up (`SumUnion`), what is smaller
line by line has the smaller sum (`SumSmaller`).  Every proof about counters rests on
these.

*Reservations are backed.*  `ReservationsBacked`, `LineBounds` and `OnlyOpenOrdersHold`
need each other, and `FulfilInv` joins them with four facts: every level is sound (so
that the theorems on the engine apply to it), services hold nothing, the lines of a
draft order are at zero, and a delivery ships lines of its order only.  The bound
of a line is what keeps the counters inside the range sums are defined over.  Each
handler changes the lines of one order and the levels together: `SumTaken` turns the
change of the lines into the change of the sum at a level, and the operation of the
engine changes the level by the same amount (`ReserveStep`, `ReleaseStep`, `PostStep`,
`ReverseStep`).

*Promises are kept.*  `PapersInv` adds to `FulfilInv` that a delivered counter is the
sum of the posted deliveries and that the status of an order says what its lines say.
That a draft is not refused is then no matter of the steps: what the draft ships is
held by its lines, what the lines hold is reserved on the level, and a sound level has
what it reserved - so the checks of the engine pass, line after line on one level.

*The till.*  Whatever overlaps, the unique index keeps one order for a key
(`KeysUnique`), and a session is closed exactly if it is in the books, once
(`BookedOnce`): step two of a close looks at the status under the lock of the row.  The
rest is of requests that do not overlap.  `SerialInv` says that what a request was let
through for still holds when it writes (`HandStands`: the session is open, the refund
still fits its sale), so that nothing moves in a counted session and what was expected
of it when it was counted is expected of it for ever (`ExpectedStands`); what is booked
is then what was counted.  A refund is added to the sum of the refunds of its sale
(`SumJoin`), and a void takes from one (`TotalSmaller`).

*The money of a session.*  `TakingsTie` speaks of sums of rounded amounts over receipts
and lines.  `Tally` is such a sum: the community fold over a finite set of integers,
of which `StockProofs` shows by `SubsetInduction` that it is the sum of its parts, is
kept, scaled or bounded line by line, and is nothing where nothing is summed
(`TallyUnion`, `TallyAdd`, `TallyScale`, `TallyAtMost`, `TallyZero`).  `TakingsInv` says
that the tax of a line of a sale lies inside its price (`TaxInside`), that a refund is
of a sale, line by line its rounded shares, and tendered in full (`SharesOfSales`),
that no more of a line came back than was sold (`WithinSold`), and that the entry is
what the receipts come to, for some variance (`EntryTold`).  Rounding enters through
two facts only: the cents of an amount lie within half a cent of it (`MoneyIs`), and
no amount between nothing and whole cents leaves them (`MoneyAtMost`, `MoneyAtLeast`).

*Procurement.*  The three properties need each other and three facts more
(`Standing`): documents name lines of their own order, a receipt that takes goods out
is a reversal and posted at once, and an order that ever received goods is never
cancelled.  The last is what lets the demand of a cancelled order be given back in
full.  A document that moves goods adds to, or takes from, the counters of the lines
it names and the levels behind them by the same quantities; this is stated once for
either sign and kind (`Counts`, `Moved`, `Recorded`, `MoveKeeps`) and then used for
the receipt, the return and both reversals.  Steps that leave a kind of document as it
was keep its sums (`DoneTally`, `ReturnsTally`, `InvoicesTally`).  `OnOrderIsOpenDemand`
speaks of a level until a posted return is reversed there (section 7).

*Stock documents.*  `StockAddsUp` relates the level, the lots, the units and, through
the reversals, the rows of the ledger.  A movement changes the level by what its row
says, and the lot by as much (`ApplyIs`).  A line moves its quantity between two places,
a warehouse or none, and its units between the same two (`Gives`, `Gains`, `LineIs`;
`UnitsMove` counts them).  `MovesInv` keeps what a reversal relies on: the rows of a
posted document add up to what its lines moved in units (`RowsTie`), only posted
documents have rows (`Booked`), and what a reversal reverses is reversed (`Linked`).  So
when every row is mirrored and the units of every line walk home, the level and the units
go back by the same (`MirroredIs`, `WalkedIs`, `ReverseStep`), and the rows of the two
documents cancel (`Undone`).  The reversal of a reversal has rows that do not follow its
lines, which is why `RowsTie` and the units' part of the property stop there.  The stock
after each line is a recursive function, whose equations are proved by `SetInduction`
(`PostedRun`, `MirroredRun`, `WalkedRun`).

*Settlement.*  Both ledgers run one protocol, which is proved once for any totals of
the invoices and any sums the postings may have read.  `Protocol` says what a posting
between its steps may rely on: its payment is a draft and the invoices it holds stay
posted (`PostingsHold`), and, in behaviours whose postings do not overlap, it is alone
and what it read of an invoice covers what payments have settled of it (`Alone`,
`SeenCovers`).  `Fit` is what its check has then established; the account moves by
exactly what the documents do (`Book`), overlap or not.  For the receivables `NotesFit`
and `NotesStand` say of credit notes that they fit what was billed and stand on posted
invoices.  `Ties` reckons the totals and the credits at the tax the customer has now,
so that the step that takes the tax away moves both sides by what it adds to
`revalued`; that payments fit the total is stated while the customer is taxed as it was.

*Sourcing, credit, price lists.*  In `Sourcing` a draft order is committed before the
document is claimed.  `SourcingInv` says of every request in between that its draft
exists, is its own, and names the document it was made for (`PendingSound`,
`PendingApart`), and of every claim where its order came from (`ClaimsExplained`).
In `SalesCommitments` a confirmation that has been let through still fits when it
commits, as long as the exposure did not grow (`GrantedFits`); every step of others is
shown to lower the exposure or to set `grown`.  In `PriceLists` a request that has
read a list finds it in a status that let it through, or is marked as outdated
(`ReadsStand`).

*Prices.*  What is sorted by the code is the row the lists stand in (`RowOfRanked`: a
strict order over finitely many has one; `RowsCover`: it leaves nobody out).  So one
line of a list is the best for a query (`OneBestLine`), the rule and the search mean the
same by a list that covers it (`CoversIs`), and each live list within reach stands in
the chain with no list before it that it is closer than (`ChainInOrder`); the first one
that covers the query is then a closest one.  Two requests that replace the lines of one
list at the same time may save a line twice, which the assumption leaves out.

*Companies.*  `RegInv` ties every row of the directory to the registration that wrote
it (`RowsOwned`), every database to a row or to the step that will take it back
(`DatabasesKept`), and the number of companies to the registrations that have counted
them: while nobody crowds, one registration at most is between the count and the
insert, and there is room for it (`CountHolds`).  `ServeInv` says of what is read and
cached - by a lookup on its way, by the cache, by a pool - that it is the row as it
is, or that a write of that company is underway, has overtaken it or was dropped
before it invalidated, which a mark of that name or company says (`LooksKnow`,
`CacheKnows`, `PoolsKnow`).

*Roles.*  The ways to ask read the same rows, so they agree as long as a holder has one
row per permission (`OneOverride`).  A replacement deletes what it read and inserts what
it was given; `ReplacementsKnow` says that what it read is all there is unless another
one of the same holder crossed it.  That an administrator remains follows from what a
change in hand has read of its own caller (`TakersKeep`): who takes the role away
has it, and is not the one it is taken from.  The flag of a tenant administrator
follows the role but for users that got it alone, which are marked (`FlagFollows`).

*Accounts.*  A request holds the row of the user as it read it.  For each column it
relies on, the row still has that value, or another request has written it since
(`ReadsFresh`; the field `late` of a request says which).  `HistoryFollows` says that
the stored history is what was left behind, less the password a change is filing,
and `StampsCounted` that there are fewer stamps used than requests begun, so that
the stamp of a token of an earlier password is never used again.

*Settings and retention.*  A policy that passes `check_override` admits nothing the
floor refuses (`NotWeaker`, arithmetic over all lengths, ages and counts); `PolicyInv`
keeps the comparison with the deployment of that time.  The pruner deletes by the
window of the visit it is at, whatever the company wrote down (`Effective`, `Visited`).

*A request is booked once and not lost.*  `BookedOnce` rests on what a delivery knows
(`DeliveriesKnow`: under the lock its source has no entry, behind it it has one or
needs none) and on the lock (`LockHeldOnce`).  `NothingLost` follows because only a
delivery that knows its source booked deletes a row.  Under the same invariant the one
step the abstract books see besides a post is a booking that was asked for.

*The ledger is immutable.*  `PostedIsImmutable` is an action property, and a write
step does not look at the status again.  The invariant is that of the row lock:
`ReadStands` (the entry of a request between its steps still has the status the
request read) and `HeldOnce` (no two such requests share an entry).  A write changes
the entry its request has locked or one that did not exist (`OnlyTheLockedEntry`), so
`ReadStands` survives the writes of others, and an entry of the ledger is changed by
a reversal only.

*The books are in order.*  What a request has checked when it begins is an invariant of the
request until it ends (`DateCheck`, `ChartCheck`, `CalendarCheck`).  `PairsInv` needs the row lock only: a reversal holds
the entry it reverses until both are written.  `ChartInv` needs that
nobody is between a check and a write while the chart changes (`AloneIn`); this is the
hypothesis of `BooksAreInOrder`, since the code makes these reads without a lock, and
without it TLC finds the counterexample of section 5.

*Closed books stay closed.*  `MissedInv` says of every request that is to post that its
month has an open period, or closed since the request began, and that the accounts it names
are active, or retired since (`OpenOrMissed`, `ActiveOrMissed`).  A step of another
request that closes or retires adds to what the first one has missed, so the fact
survives any overlap (`MissedStep`); the request that ends then either lands in an open
month or is one that was underway at the close.

Only model-checked:

- liveness under fairness (`WorkEnds`, `PostingEnds`, `RequestsEnd`), which the prover
  does not reach;
- `EntriesTie` (the statements of the ledger, the entries of `GlEntries`).  The library's
  induction theorems take a predicate, which the installed provers cannot instantiate;
  `SetInduction` and `SubsetInduction` take a set instead and carried `TakingsBalance`
  and `PricesFollowTheRule`; this proof has not been attempted;
- `RolesHold`: the endpoints, the permissions and the people are those of the source, and
  no constant but `None` enters, so the run visits all there is.

## 7. Findings

Two have a run of their own, which finds the counterexample; `PROJECT.json` quotes the
lines they contradict.

- `settlement_overlapping`: both payment services read what is settled before they lock
  the invoices and check against that figure afterwards, so two postings together pay
  an invoice twice.  They also lock the invoices in the order of a hash map, so that
  each may wait for the other.
- `pos_refund_race`: two refunds of one sale are both checked before either is
  written.

What follows was met while modelling; the models behave so, and the properties say
where they stop.

*Stock.*  Reversing a receipt checks the level and not the lot, which may go below
zero (moves.rs:383-385); reversing a reversal moves units by the type of the document
and quantities by their sign (moves.rs:536-538).  A transfer's halves round apart
without an entry (moves.rs:10 says it never creates or destroys value).  `update_item`
writes back the last purchase price it read, and tracking flags change while stock exists.

*Procurement.*  The reversal of a return adds to what was received without the check
against what was ordered (returns.rs:722-747), and the floor of on_order at zero then
loses demand of other orders.  The document that reverses a receipt is itself posted and
can be reversed.  A converted requisition or awarded RFQ ignores whether the loser's draft
could be removed, a crash leaves it, and an RFQ linked to a converted requisition
leads to a second order.  The reorder run reads the level before the orders, so an
approval in between has a shortage drafted twice.

*Sales.*  Totals are recomputed from today's tax rates and exemption, so a
cancellation may book another mirror than what was posted, and an invoice's balance
moves with the customer's status.  A credit note's price is not bounded by the
invoice's, and a paid invoice can be credited.  The limit of a customer is checked at
confirmation only (customer.rs:7 says also at the posting of an invoice), against an
exposure read without a lock that counts other orders before headers.  An order cut
from an offer is priced anew when edited, and the offer of a deleted draft stays converted.
Price lists are read, checked and written without locks: an archived list can
become active again, and two replacements of lines can mix.

*Point of sale.*  A sale can be written in a session that has been counted
(session.rs:2-4).  Tenders with fractions of a cent are accepted and make the entry of
the close one the ledger refuses.  A sale at a discount of 100 percent cannot be captured.
Drawer movements are never booked, nor are variances of other tenders than cash.

*Ledger.*  Goods are received at the order's price and taken back at the average of
the day, or at none, which strands the difference on the interim account: in
`MCJournal`, `InterimClears` states what gl.rs:328 and gl.rs:560 say, and fails; `EntriesTie`
holds the account but for such documents.  A locked period can be opened again
by a reopening that overlaps the lock (fiscal.rs:4-6), and an entry can land in a month
closed under it.  The balance sheet takes totals, accounts and earlier earnings from
separate statements.

*Framework.*  A report job whose message could not be pushed stays queued, one whose
failure could not be recorded stays running, and a delivery interrupted after it
stored its artifact leaves the artifact behind.  Migration jobs hold a connection
while they wait for another one of the same pool.  The number of tenants is
checked without a lock; a request can cache the company row it read before a write,
and a write whose request times out or is hung up on before it invalidates leaves the
old row cached and the pool of a deactivated company in place;
a registration that dies half way, or whose connection fails, strands a database or
a company; `remove` leaves the rows of the login directory.  The last administrator can be
lost (users.rs:134-136), the flag and the role of an administrator come apart (`create_user` sets the flag
and assigns no role), and a denial
wins only when its row is the one found.  Timeouts, panics and disconnections leave
committed changes without rows in the audit trail (middleware.rs promises one for
every mutating request), and a pruning pass ends at the first company that fails.

## 8. Not modelled

- The rows a request leaves in the audit trail: they are written after its change has
  committed, by the request itself, and nothing in the system follows them.  What is
  to be said of them is the gap of section 7; when they go is `CompanySettings`'.
- Serial units received into two warehouses at once: the row of a unit is read without
  a lock (batch.rs:288), and `StockMoves` posts one document at a time.
- The lock order of documents over levels and series as a whole: it rests on every
  handler sorting what it locks; `PostingEnds` covers the one place that does not.
- The rendering of documents and exports (Typst, Excel), widgets' queries and list
  views: they read and lay out; who may call them is `HttpRequests`'.
- Master data (items, warehouses, suppliers, registers, taxes, units, currencies): edits
  of single rows, which the models hold constant or change in one step.
- Configuration, logging, error texts, routing, the command line, shutdown.
- Storage, mail, hashing, token signatures, encryption and the remote transport of
  events: library calls and input/output.
- The cache as a store: a map with an expiry, seen through `Tenancy`.
