--------------------------- MODULE JournalProofs ---------------------------
(***************************************************************************)
(* What is in the ledger is immutable, for any number of requests, entries *)
(* and accounts and whatever overlaps.  The argument is that of the row    *)
(* lock: a request that is going to write an entry holds its lock, alone,  *)
(* and has read the status the entry still has.  From the same locks, and  *)
(* from what a request has checked by the step it is at, follow the books: *)
(* reversals mirror what they reverse (PairsInv), accounts that organize   *)
(* the chart carry nothing (ChartInv) and closed months and retired        *)
(* accounts rest (MissedInv).  For the chart no other request is underway  *)
(* while one changes it; for the calendar and for what retires nothing is  *)
(* assumed, and a request that was underway at the close has missed it.    *)
(***************************************************************************)
EXTENDS Journal, TLAPS

\* The fields a request has, by what it asks for.
LEMMA RequestFields ==
    ASSUME NEW r \in Requests
    PROVE  /\ r.op \in {"create", "create_posted"} => r.date \in Months /\ r.lines \in Lines
           /\ r.op = "update" => r.entry \in Ids /\ r.date \in Months /\ r.lines \in Lines
           /\ r.op \in {"delete", "post"} => r.entry \in Ids
           /\ r.op = "reverse" => r.entry \in Ids /\ r.date \in Months
           /\ r.op = "open_account" =>
                 r.account \in Accounts /\ r.parent \in Accounts \cup {None}
           /\ r.op = "delete_account" => r.account \in Accounts
           /\ r.op = "create_year" => r.year \in Years /\ r.start \in Months
           /\ r.op = "transition" =>
                 r.year \in Years /\ r.month \in Months /\ r.to \in Statuses
  BY SMT DEF Requests, Idle

\* The lines a caller sends are lines an entry can have, and so is their mirror.
LEMMA EntryLines ==
    /\ Lines \subseteq [Accounts -> Int]
    /\ \A lines \in [Accounts -> Int] : Mirrored(lines) \in [Accounts -> Int]
  BY JournalAssumption DEF Mirrored

\* Checking touches nothing but the request of the thread.
LEMMA BeginType ==
    ASSUME TypeOK, NEW t \in Threads, NEW r \in Requests, Begin(t, r)
    PROVE  TypeOK'
  BY DEF Begin, TypeOK

\* What a request may have missed, and that it only misses more.
Missable == [months : SUBSET Months, accounts : SUBSET Accounts]

LEMMA MissType ==
    ASSUME TypeOK, NEW months \in SUBSET Months, NEW accounts \in SUBSET Accounts
    PROVE  Miss(months, accounts) \in [Threads -> Missable]
<1>1. NothingMissed \in Missable
  BY DEF NothingMissed, Missable
<1>2. ASSUME NEW t \in Threads
      PROVE  [months |-> missed[t].months \cup months, accounts |-> missed[t].accounts \cup accounts] \in Missable
  BY DEF TypeOK, Missable
<1> QED BY <1>1, <1>2 DEF Miss

\* A request that has been answered leaves its thread idle.
LEMMA EndType ==
    ASSUME TypeOK, NEW t \in Threads, NEW months \in SUBSET Months, End(t, months)
    PROVE  request' \in [Threads -> Requests] /\ missed' \in [Threads -> Missable]
<1>1. Miss(months, {}) \in [Threads -> Missable] /\ NothingMissed \in Missable
  BY MissType DEF NothingMissed, Missable
<1> QED BY <1>1 DEF End, TypeOK, Requests

LEMMA FinishType ==
    ASSUME TypeOK, NEW t \in Threads, NEW op, Finish(t, op)
    PROVE  request' \in [Threads -> Requests] /\ missed' \in [Threads -> Missable]
  BY EndType DEF Finish

\* Every state variable keeps its type.
THEOREM TypeCorrect == Spec => []TypeOK
<1>1. Init => TypeOK
  <2>1. SUFFICES ASSUME Init PROVE TypeOK
    OBVIOUS
  <2>2. entries \in [Ids -> Entry \cup {None}]
    BY <2>1 DEF Init
  <2>3. chart \in [Accounts -> [state : {"none", "active", "inactive"},
                                parent : Accounts \cup {None}]]
    BY <2>1 DEF Init
  <2>4. calendar \in [Years -> [Months -> Statuses \cup {None}]]
    BY <2>1 DEF Init
  <2>5. request \in [Threads -> Requests]
    BY <2>1 DEF Init, Requests
  <2>6. missed \in [Threads -> Missable]
    BY <2>1 DEF Init, NothingMissed, Missable
  <2> QED BY <2>2, <2>3, <2>4, <2>5, <2>6 DEF TypeOK, Missable
<1>2. TypeOK /\ [Next]_vars => TypeOK'
  <2> SUFFICES ASSUME TypeOK, [Next]_vars PROVE TypeOK'
    OBVIOUS
  <2>1. ASSUME NEW t \in Threads,
               \/ check_create(t) \/ check_create_posted(t) \/ check_update(t)
               \/ check_delete(t) \/ check_post(t) \/ check_reverse(t)
               \/ check_open_account(t) \/ check_delete_account(t)
               \/ check_create_year(t) \/ check_transition(t)
        PROVE  TypeOK'
    <3>1. ASSUME NEW r \in Requests, Begin(t, r) PROVE TypeOK'
      BY <3>1, BeginType
    <3>2. CASE check_create(t) \/ check_create_posted(t)
      <4>1. PICK date \in Months, lines \in Lines, op \in {"create", "create_posted"} :
                Begin(t, [op |-> op, date |-> date, lines |-> lines])
        BY <3>2 DEF check_create, check_create_posted
      <4>2. [op |-> op, date |-> date, lines |-> lines] \in Requests
        BY DEF Requests
      <4> QED BY <3>1, <4>1, <4>2
    <3>3. CASE check_update(t)
      <4>1. PICK e \in Ids, date \in Months, lines \in Lines :
                Begin(t, [op |-> "update", entry |-> e, date |-> date, lines |-> lines])
        BY <3>3 DEF check_update
      <4>2. [op |-> "update", entry |-> e, date |-> date, lines |-> lines] \in Requests
        BY DEF Requests
      <4> QED BY <3>1, <4>1, <4>2
    <3>4. CASE check_delete(t) \/ check_post(t)
      <4>1. PICK e \in Ids, op \in {"delete", "post"} : Begin(t, [op |-> op, entry |-> e])
        BY <3>4 DEF check_delete, check_post
      <4>2. [op |-> op, entry |-> e] \in Requests
        BY DEF Requests
      <4> QED BY <3>1, <4>1, <4>2
    <3>5. CASE check_reverse(t)
      <4>1. PICK e \in Ids, date \in Months :
                Begin(t, [op |-> "reverse", entry |-> e, date |-> date])
        BY <3>5 DEF check_reverse
      <4>2. [op |-> "reverse", entry |-> e, date |-> date] \in Requests
        BY DEF Requests
      <4> QED BY <3>1, <4>1, <4>2
    <3>6. CASE check_open_account(t)
      <4>1. PICK a \in Accounts, parent \in Accounts \cup {None} :
                Begin(t, [op |-> "open_account", account |-> a, parent |-> parent])
        BY <3>6 DEF check_open_account
      <4>2. [op |-> "open_account", account |-> a, parent |-> parent] \in Requests
        BY DEF Requests
      <4> QED BY <3>1, <4>1, <4>2
    <3>7. CASE check_delete_account(t)
      <4>1. PICK a \in Accounts : Begin(t, [op |-> "delete_account", account |-> a])
        BY <3>7 DEF check_delete_account
      <4>2. [op |-> "delete_account", account |-> a] \in Requests
        BY DEF Requests
      <4> QED BY <3>1, <4>1, <4>2
    <3>8. CASE check_create_year(t)
      <4>1. PICK y \in Years, m \in Months :
                Begin(t, [op |-> "create_year", year |-> y, start |-> m])
        BY <3>8 DEF check_create_year
      <4>2. [op |-> "create_year", year |-> y, start |-> m] \in Requests
        BY DEF Requests
      <4> QED BY <3>1, <4>1, <4>2
    <3>9. CASE check_transition(t)
      <4>1. PICK y \in Years, m \in Months, to \in Statuses :
                Begin(t, [op |-> "transition", year |-> y, month |-> m, to |-> to])
        BY <3>9 DEF check_transition
      <4>2. [op |-> "transition", year |-> y, month |-> m, to |-> to] \in Requests
        BY DEF Requests
      <4> QED BY <3>1, <4>1, <4>2
    <3> QED BY <2>1, <3>2, <3>3, <3>4, <3>5, <3>6, <3>7, <3>8, <3>9
  <2>2. ASSUME NEW t \in Threads,
               \/ create_draft(t) \/ update_draft(t) \/ delete_draft(t) \/ post(t)
               \/ create_posted(t) \/ reverse(t)
        PROVE  TypeOK'
    <3>1. Finish(t, request[t].op)
      BY <2>2 DEF create_draft, update_draft, delete_draft, post, create_posted, reverse, Finish
    <3>2. request' \in [Threads -> Requests] /\ missed' \in [Threads -> Missable]
      BY <3>1, FinishType
    <3>3. chart' = chart /\ calendar' = calendar
      BY <2>2 DEF create_draft, update_draft, delete_draft, post, create_posted, reverse
    <3>4. request[t] \in Requests
      BY DEF TypeOK
    <3>5. ASSUME NEW e \in Ids, NEW entry \in Entry \cup {None}, Change(e, entry)
          PROVE  entries' \in [Ids -> Entry \cup {None}]
      BY <3>5 DEF Change, TypeOK
    <3>6. entries' \in [Ids -> Entry \cup {None}]
      <4>1. CASE create_draft(t) \/ create_posted(t)
        <5>1. request[t].op \in {"create", "create_posted"}
          BY <4>1 DEF create_draft, create_posted, Finish
        <5>2. request[t].date \in Months /\ request[t].lines \in [Accounts -> Int]
          BY <3>4, <5>1, RequestFields, EntryLines
        <5>3. \A status \in {"draft", "posted"} :
                 NewEntry(status, request[t].date, request[t].lines) \in Entry
          BY <5>2 DEF NewEntry, Entry
        <5> QED BY <3>5, <4>1, <5>3 DEF create_draft, create_posted
      <4>2. CASE update_draft(t)
        <5>1. /\ request[t].entry \in Ids /\ request[t].date \in Months
              /\ request[t].lines \in [Accounts -> Int]
          BY <3>4, <4>2, RequestFields, EntryLines DEF update_draft, Finish
        <5>2. entries[request[t].entry] \in Entry
          BY <4>2, <5>1 DEF update_draft, Exists, TypeOK
        <5>3. [entries[request[t].entry] EXCEPT !.date = request[t].date,
                                               !.lines = request[t].lines] \in Entry
          BY <5>1, <5>2 DEF Entry
        <5> QED BY <3>5, <4>2, <5>1, <5>3 DEF update_draft
      <4>3. CASE delete_draft(t)
        <5>1. request[t].entry \in Ids
          BY <3>4, <4>3, RequestFields DEF delete_draft, Finish
        <5> QED BY <3>5, <4>3, <5>1 DEF delete_draft
      <4>4. CASE post(t)
        <5>1. request[t].entry \in Ids
          BY <3>4, <4>4, RequestFields DEF post, Finish
        <5>2. entries[request[t].entry] \in Entry
          BY <4>4, <5>1 DEF post, Exists, TypeOK
        <5>3. [entries[request[t].entry] EXCEPT !.status = "posted"] \in Entry
          BY <5>2 DEF Entry
        <5> QED BY <3>5, <4>4, <5>1, <5>3 DEF post
      <4>5. CASE reverse(t)
        <5> DEFINE e == request[t].entry
        <5>1. e \in Ids /\ request[t].date \in Months
          BY <3>4, <4>5, RequestFields DEF reverse, Finish
        <5>2. PICK r \in Ids :
                /\ Exists(e) /\ ~Exists(r)
                /\ entries' = [entries EXCEPT
                      ![r] = [NewEntry("posted", request[t].date, Mirrored(entries[e].lines))
                                EXCEPT !.reverses = e],
                      ![e] = [@ EXCEPT !.status = "reversed", !.reversed_by = r]]
          BY <4>5 DEF reverse
        <5>3. entries[e] \in Entry /\ e # r
          BY <5>1, <5>2 DEF Exists, TypeOK
        <5>4. Mirrored(entries[e].lines) \in [Accounts -> Int]
          BY <5>3, EntryLines DEF Entry
        <5>5. [NewEntry("posted", request[t].date, Mirrored(entries[e].lines))
                 EXCEPT !.reverses = e] \in Entry
          BY <5>1, <5>4 DEF NewEntry, Entry
        <5>6. [entries[e] EXCEPT !.status = "reversed", !.reversed_by = r] \in Entry
          BY <5>3 DEF Entry
        <5> QED BY <5>2, <5>3, <5>5, <5>6 DEF TypeOK
      <4> QED BY <2>2, <4>1, <4>2, <4>3, <4>4, <4>5
    <3> QED BY <3>2, <3>3, <3>6 DEF TypeOK, Missable
  <2>3. ASSUME NEW t \in Threads, open_account(t) \/ delete_account(t)
        PROVE  TypeOK'
    <3>1. Finish(t, request[t].op)
      BY <2>3 DEF open_account, delete_account, Finish
    <3>2. request' \in [Threads -> Requests] /\ missed' \in [Threads -> Missable]
      BY <3>1, FinishType
    <3>3. request[t].account \in Accounts
          /\ (open_account(t) => request[t].parent \in Accounts \cup {None})
      <4>1. request[t] \in Requests
        BY DEF TypeOK
      <4> QED BY <2>3, <4>1, RequestFields DEF open_account, delete_account, Finish
    <3>4. chart' \in [Accounts -> [state : {"none", "active", "inactive"},
                                   parent : Accounts \cup {None}]]
      BY <2>3, <3>3 DEF open_account, delete_account, TypeOK
    <3> QED BY <2>3, <3>2, <3>4 DEF open_account, delete_account, TypeOK, Missable
  <2>4. ASSUME NEW a \in Accounts, activate(a) PROVE TypeOK'
    <3>1. PICK state \in {"active", "inactive"} :
              /\ chart' = [chart EXCEPT ![a].state = state]
              /\ missed' = Miss({}, IF state = "inactive" THEN {a} ELSE {})
      BY <2>4 DEF activate
    <3>2. chart' \in [Accounts -> [state : {"none", "active", "inactive"},
                                   parent : Accounts \cup {None}]]
      BY <3>1 DEF TypeOK
    <3>3. missed' \in [Threads -> Missable]
      BY <3>1, MissType
    <3> QED BY <2>4, <3>2, <3>3 DEF activate, TypeOK, Missable
  <2>5. ASSUME NEW t \in Threads, create_year(t) \/ transition(t) PROVE TypeOK'
    <3>1. request[t] \in Requests
      BY DEF TypeOK
    <3>2. CASE create_year(t)
      <4>1. request' \in [Threads -> Requests] /\ missed' \in [Threads -> Missable]
        BY <3>2, FinishType DEF create_year
      <4>2. [m \in Months |-> IF m \in YearStarting(request[t].start)
                              THEN "open" ELSE None] \in [Months -> Statuses \cup {None}]
        BY DEF Statuses
      <4>3. calendar' \in [Years -> [Months -> Statuses \cup {None}]]
        BY <3>2, <4>2 DEF create_year, TypeOK
      <4> QED BY <3>2, <4>1, <4>3 DEF create_year, TypeOK, Missable
    <3>3. CASE transition(t)
      <4>1. /\ request[t].year \in Years /\ request[t].month \in Months
            /\ request[t].to \in Statuses
        BY <3>1, <3>3, RequestFields DEF transition
      <4>2. calendar' \in [Years -> [Months -> Statuses \cup {None}]]
        BY <3>3, <4>1 DEF transition, TypeOK
      <4>3. request' \in [Threads -> Requests] /\ missed' \in [Threads -> Missable]
        BY <3>3, <4>1, EndType DEF transition
      <4> QED BY <3>3, <4>2, <4>3 DEF transition, TypeOK, Missable
    <3> QED BY <2>5, <3>2, <3>3
  <2>6. ASSUME NEW t \in Threads, abandon(t) PROVE TypeOK'
    <3>1. request' \in [Threads -> Requests] /\ missed' \in [Threads -> Missable]
      BY <2>6, EndType DEF abandon
    <3> QED BY <2>6, <3>1 DEF abandon, TypeOK, Missable
  <2>7. CASE UNCHANGED vars
    BY <2>7 DEF vars, TypeOK
  <2> QED BY <2>1, <2>2, <2>3, <2>4, <2>5, <2>6, <2>7 DEF Next
<1> QED BY <1>1, <1>2, PTL DEF Spec

----------------------------------------------------------------------------

\* The requests that hold the row lock of an entry.
Locking == {"update", "delete", "post", "reverse"}

\* The entry still has the status that the request read under the lock.
ReadStands ==
    \A t \in Threads :
       /\ request[t].op \in {"update", "delete", "post"} =>
             Status(request[t].entry) = "draft"
       /\ request[t].op = "reverse" => Status(request[t].entry) = "posted"

\* A lock is held by one request.
HeldOnce ==
    \A t, u \in Threads :
       t # u /\ request[t].op \in Locking /\ request[u].op \in Locking =>
          request[t].entry # request[u].entry

LocksHeld == ReadStands /\ HeldOnce

\* The status of an entry that does not change does not change.
LEMMA StatusKept ==
    ASSUME NEW e \in Ids, entries'[e] = entries[e]
    PROVE  Status(e)' = Status(e) /\ InLedger(e)' = InLedger(e)
  BY DEF Status, InLedger, Exists

\* A write changes the entry its request has locked and entries that did not
\* exist, and nothing else.
LEMMA OnlyTheLockedEntry ==
    ASSUME TypeOK, NEW t \in Threads,
           \/ create_draft(t) \/ update_draft(t) \/ delete_draft(t) \/ post(t)
           \/ create_posted(t) \/ reverse(t),
           NEW e \in Ids, Exists(e),
           request[t].op \in Locking => request[t].entry # e
    PROVE  entries'[e] = entries[e]
<1>1. CASE create_draft(t) \/ create_posted(t)
  BY <1>1 DEF create_draft, create_posted, Change, TypeOK
<1>2. CASE update_draft(t)
  BY <1>2 DEF update_draft, Finish, Change, TypeOK, Locking
<1>3. CASE delete_draft(t)
  BY <1>3 DEF delete_draft, Finish, Change, TypeOK, Locking
<1>4. CASE post(t)
  BY <1>4 DEF post, Finish, Change, TypeOK, Locking
<1>5. CASE reverse(t)
  <2>1. request[t].entry # e
    BY <1>5 DEF reverse, Finish, Locking
  <2>2. PICK r \in Ids :
            ~Exists(r) /\ \E new, old : entries' = [entries EXCEPT ![r] = new, ![request[t].entry] = old]
    BY <1>5 DEF reverse
  <2> QED BY <2>1, <2>2 DEF TypeOK
<1> QED BY <1>1, <1>2, <1>3, <1>4, <1>5

\* The locks are held from the check of a request to its write.
LEMMA LocksStep == TypeOK /\ LocksHeld /\ [Next]_vars => LocksHeld'
<1> SUFFICES ASSUME TypeOK, LocksHeld, [Next]_vars PROVE LocksHeld'
  OBVIOUS
<1>a. \A t \in Threads : request[t] \in Requests
  BY DEF TypeOK
<1>b. \A t \in Threads : request[t].op \in Locking => request[t].entry \in Ids
  BY <1>a, RequestFields DEF Locking
<1>1. ASSUME NEW t \in Threads, NEW r, Begin(t, r), r.op \notin Locking
      PROVE  LocksHeld'
  <2>1. entries' = entries /\ request' = [request EXCEPT ![t] = r]
    BY <1>1 DEF Begin
  <2>2. request'[t].op \notin Locking
    BY <1>1, <2>1 DEF TypeOK
  <2>3. \A u \in Threads : u # t => request'[u] = request[u]
    BY <2>1 DEF TypeOK
  <2> QED BY <2>1, <2>2, <2>3 DEF LocksHeld, ReadStands, HeldOnce, Locking, Status, Exists
<1>2. ASSUME NEW t \in Threads, NEW r, NEW e \in Ids, Begin(t, r), r.op \in Locking,
             r.entry = e, Unlocked(e),
             r.op \in {"update", "delete", "post"} => Status(e) = "draft",
             r.op = "reverse" => Status(e) = "posted"
      PROVE  LocksHeld'
  <2>1. entries' = entries /\ request' = [request EXCEPT ![t] = r]
    BY <1>2 DEF Begin
  <2>2. request'[t] = r
    BY <2>1 DEF TypeOK
  <2>3. \A u \in Threads : u # t => request'[u] = request[u]
    BY <2>1 DEF TypeOK
  <2>4. \A u \in Threads : request[u].op \in Locking => request[u].entry # e
    BY <1>2 DEF Unlocked, Locking
  <2>5. ReadStands'
    BY <1>2, <2>1, <2>2, <2>3 DEF LocksHeld, ReadStands, Status, Exists
  <2>6. HeldOnce'
    BY <1>2, <2>2, <2>3, <2>4 DEF LocksHeld, HeldOnce
  <2> QED BY <2>5, <2>6 DEF LocksHeld
<1>3. ASSUME NEW t \in Threads, request' = [request EXCEPT ![t] = Idle],
             \A e \in Ids : Exists(e) /\ (request[t].op \in Locking => request[t].entry # e)
                             => entries'[e] = entries[e]
      PROVE  LocksHeld'
  <2>1. request'[t].op \notin Locking
    BY <1>3 DEF TypeOK, Idle, Locking
  <2>2. \A u \in Threads : u # t => request'[u] = request[u]
    BY <1>3 DEF TypeOK
  <2>3. ASSUME NEW u \in Threads, u # t, request[u].op \in Locking
        PROVE  entries'[request[u].entry] = entries[request[u].entry]
    <3>1. request[u].entry \in Ids
      BY <1>b, <2>3
    <3>2. Exists(request[u].entry)
      BY <2>3 DEF LocksHeld, ReadStands, Locking, Status
    <3>3. request[t].op \in Locking => request[t].entry # request[u].entry
      BY <2>3 DEF LocksHeld, HeldOnce
    <3> QED BY <1>3, <3>1, <3>2, <3>3
  <2>4. ReadStands'
    BY <2>1, <2>2, <2>3 DEF LocksHeld, ReadStands, Locking, Status, Exists
  <2>5. HeldOnce'
    BY <2>1, <2>2 DEF LocksHeld, HeldOnce
  <2> QED BY <2>4, <2>5 DEF LocksHeld
<1>4. ASSUME NEW t \in Threads,
             \/ check_create(t) \/ check_create_posted(t) \/ check_open_account(t)
             \/ check_delete_account(t) \/ check_create_year(t) \/ check_transition(t)
      PROVE  LocksHeld'
  <2>1. CASE check_create(t)
    BY <1>1, <2>1 DEF check_create, Locking
  <2>2. CASE check_create_posted(t)
    BY <1>1, <2>2 DEF check_create_posted, Locking
  <2>3. CASE check_open_account(t)
    BY <1>1, <2>3 DEF check_open_account, Locking
  <2>4. CASE check_delete_account(t)
    BY <1>1, <2>4 DEF check_delete_account, Locking
  <2>5. CASE check_create_year(t)
    BY <1>1, <2>5 DEF check_create_year, Locking
  <2>6. CASE check_transition(t)
    BY <1>1, <2>6 DEF check_transition, Locking
  <2> QED BY <1>4, <2>1, <2>2, <2>3, <2>4, <2>5, <2>6
<1>5. ASSUME NEW t \in Threads, check_update(t) PROVE LocksHeld'
  BY <1>2, <1>5 DEF check_update, Locking
<1>6. ASSUME NEW t \in Threads, check_delete(t) PROVE LocksHeld'
  BY <1>2, <1>6 DEF check_delete, Locking
<1>7. ASSUME NEW t \in Threads, check_post(t) PROVE LocksHeld'
  BY <1>2, <1>7 DEF check_post, Postable, Locking
<1>8. ASSUME NEW t \in Threads, check_reverse(t) PROVE LocksHeld'
  BY <1>2, <1>8 DEF check_reverse, Reversible, Locking
<1>9. ASSUME NEW t \in Threads,
             \/ create_draft(t) \/ update_draft(t) \/ delete_draft(t) \/ post(t)
             \/ create_posted(t) \/ reverse(t)
      PROVE  LocksHeld'
  <2>1. request' = [request EXCEPT ![t] = Idle]
    BY <1>9 DEF create_draft, update_draft, delete_draft, post, create_posted, reverse, Finish, End
  <2> QED BY <1>3, <1>9, <2>1, OnlyTheLockedEntry
<1>10. ASSUME NEW t \in Threads,
              \/ open_account(t) \/ delete_account(t) \/ create_year(t) \/ transition(t)
              \/ abandon(t)
       PROVE  LocksHeld'
  <2>1. request' = [request EXCEPT ![t] = Idle] /\ entries' = entries
    BY <1>10 DEF open_account, delete_account, create_year, transition, abandon, Finish, End
  <2> QED BY <1>3, <2>1
<1>11. ASSUME NEW a \in Accounts, activate(a) PROVE LocksHeld'
  BY <1>11 DEF activate, LocksHeld, ReadStands, HeldOnce, Status, Exists
<1>12. CASE UNCHANGED vars
  BY <1>12 DEF vars, LocksHeld, ReadStands, HeldOnce, Status, Exists
<1> QED BY <1>4, <1>5, <1>6, <1>7, <1>8, <1>9, <1>10, <1>11, <1>12 DEF Next

\* The inductive invariant.
LEMMA LocksInvariant == Spec => [](TypeOK /\ LocksHeld)
<1>1. Init => LocksHeld
  BY DEF Init, LocksHeld, ReadStands, HeldOnce, Locking, Idle
<1> QED BY <1>1, LocksStep, TypeCorrect, PTL DEF Spec

\* What is in the ledger stays there as it is: entries leave it never, and only
\* a reversal touches one, to move its status (Ledger::update_draft, delete_draft,
\* post, reverse under load_entry_locked).
THEOREM LedgerIsImmutable == Spec => PostedIsImmutable
<1>1. ASSUME TypeOK, LocksHeld, Next, NEW e \in Ledger
      PROVE  /\ InLedger(e)'
             /\ entries'[e].date = entries[e].date
             /\ entries'[e].lines = entries[e].lines
             /\ entries'[e].reverses = entries[e].reverses
             /\ Status(e) = "reversed" => entries'[e] = entries[e]
  <2>1. e \in Ids /\ InLedger(e) /\ Exists(e) /\ Status(e) = entries[e].status
    BY <1>1 DEF Ledger, InLedger, Status
  <2>2. ASSUME entries'[e] = entries[e]
        PROVE  /\ InLedger(e)'
               /\ entries'[e].date = entries[e].date
               /\ entries'[e].lines = entries[e].lines
               /\ entries'[e].reverses = entries[e].reverses
               /\ Status(e) = "reversed" => entries'[e] = entries[e]
    BY <2>1, <2>2, StatusKept
  <2>3. ASSUME NEW t \in Threads,
               \/ create_draft(t) \/ update_draft(t) \/ delete_draft(t) \/ post(t)
               \/ create_posted(t) \/ reverse(t),
               ~(request[t].op = "reverse" /\ request[t].entry = e)
        PROVE  entries'[e] = entries[e]
    <3>1. request[t].op \in Locking => request[t].entry # e
      BY <1>1, <2>1, <2>3 DEF LocksHeld, ReadStands, Locking, InLedger
    <3> QED BY <1>1, <2>1, <2>3, <3>1, OnlyTheLockedEntry
  <2>4. ASSUME NEW t \in Threads, reverse(t), request[t].entry = e
        PROVE  /\ InLedger(e)'
               /\ entries'[e].date = entries[e].date
               /\ entries'[e].lines = entries[e].lines
               /\ entries'[e].reverses = entries[e].reverses
               /\ Status(e) # "reversed"
    <3>1. PICK r \in Ids :
              /\ ~Exists(r)
              /\ entries' = [entries EXCEPT
                    ![r] = [NewEntry("posted", request[t].date, Mirrored(entries[e].lines))
                              EXCEPT !.reverses = e],
                    ![e] = [@ EXCEPT !.status = "reversed", !.reversed_by = r]]
      BY <2>4 DEF reverse
    <3>2. entries[e] \in Entry /\ r # e
      BY <1>1, <2>1, <3>1 DEF Exists, TypeOK
    <3>3. entries'[e] = [entries[e] EXCEPT !.status = "reversed", !.reversed_by = r]
      BY <1>1, <2>1, <3>1, <3>2 DEF TypeOK
    <3>4. entries'[e] \in Entry /\ entries'[e].status = "reversed"
      BY <3>2, <3>3 DEF Entry
    <3>5. InLedger(e)'
      BY <3>4, NoneAssumption DEF InLedger, Status, Exists
    <3>6. Status(e) = "posted"
      BY <1>1, <2>4 DEF reverse, Finish, LocksHeld, ReadStands
    <3> QED BY <3>2, <3>3, <3>5, <3>6 DEF Entry
  <2>5. CASE \E t \in Threads :
               \/ create_draft(t) \/ update_draft(t) \/ delete_draft(t) \/ post(t)
               \/ create_posted(t) \/ reverse(t)
    <3>1. PICK t \in Threads :
               \/ create_draft(t) \/ update_draft(t) \/ delete_draft(t) \/ post(t)
               \/ create_posted(t) \/ reverse(t)
      BY <2>5
    <3>2. request[t].op = "reverse" => reverse(t)
      BY <3>1 DEF create_draft, update_draft, delete_draft, post, create_posted, Finish
    <3> QED BY <2>2, <2>3, <2>4, <3>1, <3>2
  <2>6. CASE ~(\E t \in Threads :
               \/ create_draft(t) \/ update_draft(t) \/ delete_draft(t) \/ post(t)
               \/ create_posted(t) \/ reverse(t))
    <3>1. entries' = entries
      BY <1>1, <2>6, ZenonT(30) DEF Next, check_create, check_create_posted, check_update, check_delete,
         check_post, check_reverse, check_open_account, check_delete_account,
         check_create_year, check_transition, Begin, open_account, delete_account,
         create_year, transition, abandon, activate
    <3> QED BY <2>2, <3>1
  <2> QED BY <2>5, <2>6
<1>2. TypeOK /\ LocksHeld /\ [Next]_vars =>
        [\A e \in Ledger :
           /\ InLedger(e)'
           /\ entries'[e].date = entries[e].date
           /\ entries'[e].lines = entries[e].lines
           /\ entries'[e].reverses = entries[e].reverses
           /\ Status(e) = "reversed" => entries'[e] = entries[e]]_vars
  BY <1>1
<1> QED BY <1>2, LocksInvariant, PTL DEF Spec, PostedIsImmutable

----------------------------------------------------------------------------
(* What a request has checked still holds when it writes.                   *)

Good(lines) == \A a \in AccountsOf(lines) : chart[a].state = "active" /\ ~IsHeader(a)

\* What it has read of the chart, of the calendar and of the entry it reverses.
ChartCheck(r) ==
    /\ r.op \in {"create", "create_posted", "update"} => Good(r.lines)
    /\ r.op = "post" => Good(entries[r.entry].lines)
    /\ r.op = "open_account" /\ r.parent # None => Carries(r.parent) = {}

CalendarCheck(r) ==
    /\ r.op \in {"create_posted", "reverse"} => OpenForPost(r.date)
    /\ r.op = "post" => OpenForPost(entries[r.entry].date)
    /\ r.op = "transition" => calendar[r.year][r.month] \in From(r.to)

\* The month and the lines that a request brings to the ledger.
MonthOf(r) == IF r.op = "post" THEN entries[r.entry].date ELSE r.date
LinesOf(r) == IF r.op = "post" THEN entries[r.entry].lines ELSE r.lines

DateCheck(r) == r.op = "reverse" => r.date >= entries[r.entry].date

Writing == {"create", "update", "delete", "post", "create_posted", "reverse"}

WritesEntry(t) ==
    \/ create_draft(t) \/ update_draft(t) \/ delete_draft(t) \/ post(t)
    \/ create_posted(t) \/ reverse(t)

Checks(t) ==
    \/ check_create(t) \/ check_create_posted(t) \/ check_update(t)
    \/ check_delete(t) \/ check_post(t) \/ check_reverse(t)
    \/ check_open_account(t) \/ check_delete_account(t)
    \/ check_create_year(t) \/ check_transition(t)

\* A check establishes all that, and changes nothing else.
LEMMA CheckedRequest ==
    ASSUME TypeOK, NEW t \in Threads, Checks(t)
    PROVE  \E r : Begin(t, r) /\ ChartCheck(r) /\ CalendarCheck(r) /\ DateCheck(r)
<1> USE DEF ChartCheck, CalendarCheck, DateCheck
<1>0. \A lines : Valid(lines) => Good(lines)
  BY DEF Valid, Good
<1>1. CASE check_create(t)
  BY <1>0, <1>1 DEF check_create
<1>2. CASE check_create_posted(t)
  BY <1>0, <1>2 DEF check_create_posted
<1>3. CASE check_update(t)
  BY <1>0, <1>3 DEF check_update
<1>4. CASE check_delete(t)
  BY <1>4 DEF check_delete
<1>5. CASE check_post(t)
  BY <1>0, <1>5 DEF check_post, Postable
<1>6. CASE check_reverse(t)
  BY <1>6 DEF check_reverse, Reversible
<1>7. CASE check_open_account(t)
  BY <1>7 DEF check_open_account, CanParent
<1>8. CASE check_delete_account(t)
  BY <1>8 DEF check_delete_account
<1>9. CASE check_create_year(t)
  BY <1>9 DEF check_create_year
<1>10. CASE check_transition(t)
  BY <1>10 DEF check_transition
<1> QED BY <1>1, <1>2, <1>3, <1>4, <1>5, <1>6, <1>7, <1>8, <1>9, <1>10 DEF Checks

\* Writing ends the request and touches the entries only.
LEMMA WriteShape ==
    ASSUME NEW t \in Threads, WritesEntry(t)
    PROVE  /\ request' = [request EXCEPT ![t] = Idle]
           /\ request[t].op \in Writing
           /\ UNCHANGED << chart, calendar >>
BY DEF WritesEntry, Writing, Finish, End, create_draft, update_draft, delete_draft, post, create_posted, reverse

\* The steps there are.
LEMMA StepShape ==
    ASSUME [Next]_vars
    PROVE  \/ \E t \in Threads : Checks(t)
           \/ \E t \in Threads : WritesEntry(t)
           \/ \E t \in Threads : open_account(t) \/ delete_account(t)
           \/ \E t \in Threads : create_year(t) \/ transition(t)
           \/ \E t \in Threads : abandon(t)
           \/ \E a \in Accounts : activate(a)
           \/ UNCHANGED vars
BY DEF Next, Checks, WritesEntry

----------------------------------------------------------------------------
(* A change of an area that does not overlap is the only request underway.  *)

AloneIn(area) == \A t, u \in Threads :
    t # u /\ Area(request[t].op) = area => request[u] = Idle

\* MayBegin keeps it so.
LEMMA AloneStep ==
    ASSUME TypeOK, NEW area \in {"chart", "calendar"} \ Overlapping, AloneIn(area), [Next]_vars
    PROVE  AloneIn(area)'
<1>1. Area(Idle.op) = "ledger"
  BY DEF Area, Idle
<1>2. ASSUME NEW t \in Threads, NEW r, Begin(t, r) PROVE AloneIn(area)'
  <2>1. /\ request' = [request EXCEPT ![t] = r] /\ request[t] = Idle
        /\ \A u \in Threads : request[u] # Idle =>
             {Area(r.op), Area(request[u].op)} \subseteq Overlapping \cup {"ledger"}
    BY <1>2 DEF Begin, MayBegin
  <2>2. request'[t] = r /\ \A u \in Threads : u # t => request'[u] = request[u]
    BY <2>1 DEF TypeOK
  <2> SUFFICES ASSUME NEW v \in Threads, NEW u \in Threads, v # u, Area(request'[v].op) = area
               PROVE  request'[u] = Idle
    BY DEF AloneIn, Area, Idle
  <2>3. CASE v = t
    BY <2>1, <2>2, <2>3
  <2>4. CASE u = t
    <3>1. request[v] # Idle
      BY <1>1, <2>2, <2>4
    <3> QED BY <2>1, <2>2, <2>4, <3>1
  <2>5. CASE v # t /\ u # t
    BY <2>2, <2>5 DEF AloneIn
  <2> QED BY <2>3, <2>4, <2>5
<1>3. ASSUME NEW t \in Threads, request' = [request EXCEPT ![t] = Idle] PROVE AloneIn(area)'
  <2>1. request'[t] = Idle /\ \A u \in Threads : u # t => request'[u] = request[u]
    BY <1>3 DEF TypeOK
  <2> QED BY <1>1, <2>1 DEF AloneIn, Area, Idle
<1>4. CASE request' = request
  BY <1>4 DEF AloneIn, Area, Idle
<1>5. CASE \E t \in Threads : Checks(t)
  BY <1>2, <1>5, CheckedRequest
<1>6. CASE \E t \in Threads : WritesEntry(t)
  BY <1>3, <1>6, WriteShape
<1>7. CASE \E t \in Threads : open_account(t) \/ delete_account(t) \/ create_year(t) \/ transition(t) \/ abandon(t)
  BY <1>3, <1>7 DEF open_account, delete_account, create_year, transition, abandon, Finish, End
<1>8. CASE (\E a \in Accounts : activate(a)) \/ UNCHANGED vars
  BY <1>4, <1>8 DEF activate, vars
<1> QED BY <1>5, <1>6, <1>7, <1>8, StepShape

----------------------------------------------------------------------------
(* What a write does to the journal.                                        *)

\* One entry that is not in the ledger is made, rewritten, posted or deleted.
Drafts(t, e) ==
    /\ Status(e) \in {"none", "draft"}
    /\ \A x \in Ids : x # e => entries'[x] = entries[x]
    /\ entries'[e] # None =>
          /\ entries'[e] \in Entry
          /\ entries'[e].status \in {"draft", "posted"}
          /\ entries'[e].reverses = (IF Exists(e) THEN entries[e].reverses ELSE None)
          /\ ChartCheck(request[t]) => Good(entries'[e].lines)
          /\ entries'[e].status = "posted" =>
                /\ request[t].op \in {"post", "create_posted"}
                /\ entries'[e].date = MonthOf(request[t]) /\ entries'[e].lines = LinesOf(request[t])
          /\ AccountsExist(entries'[e].lines) \/ (Exists(e) /\ entries'[e].lines = entries[e].lines)

\* An entry of the ledger gets its reversal.
Reverses(t, e, r) ==
    /\ request[t].op = "reverse" /\ request[t].entry = e
    /\ Status(e) = "posted" /\ Status(r) = "none" /\ e # r
    /\ \A x \in Ids : Exists(x) => entries[x].reverses # e
    /\ \A x \in Ids : x # e /\ x # r => entries'[x] = entries[x]
    /\ entries'[e] \in Entry /\ entries'[e].status = "reversed" /\ entries'[e].reversed_by = r
    /\ entries'[e].date = entries[e].date /\ entries'[e].lines = entries[e].lines
    /\ entries'[e].reverses = entries[e].reverses
    /\ entries'[r] \in Entry /\ entries'[r].status = "posted" /\ entries'[r].reverses = e
    /\ entries'[r].date = request[t].date /\ entries'[r].lines = Mirrored(entries[e].lines)

\* An entry that exists has the status it stores.
LEMMA StatusStored ==
    ASSUME TypeOK, NEW e \in Ids
    PROVE  /\ (Status(e) = "none") <=> ~Exists(e)
           /\ Exists(e) => entries[e] \in Entry /\ Status(e) = entries[e].status
BY DEF TypeOK, Status, Exists, Entry

\* A new entry holds what it is made of.
LEMMA NewEntryType ==
    ASSUME NEW status \in {"draft", "posted"}, NEW date \in Months, NEW lines \in [Accounts -> Int]
    PROVE  /\ NewEntry(status, date, lines) \in Entry
           /\ NewEntry(status, date, lines).status = status
           /\ NewEntry(status, date, lines).date = date
           /\ NewEntry(status, date, lines).lines = lines
           /\ NewEntry(status, date, lines).reverses = None
BY DEF NewEntry, Entry

\* A write does one of the two.
LEMMA EntryWrite ==
    ASSUME TypeOK, LocksHeld, NEW t \in Threads, WritesEntry(t)
    PROVE  \E e \in Ids : Drafts(t, e) \/ \E r \in Ids : Reverses(t, e, r)
<1>0. request[t] \in Requests
  BY DEF TypeOK
<1>1. CASE create_draft(t) \/ create_posted(t)
  <2>1. request[t].op \in {"create", "create_posted"}
    BY <1>1 DEF create_draft, create_posted, Finish
  <2>2. request[t].date \in Months /\ request[t].lines \in [Accounts -> Int]
    BY <1>0, <2>1, RequestFields, EntryLines
  <2>3. PICK status \in {"draft", "posted"}, e \in Ids :
            /\ ~Exists(e)
            /\ Change(e, NewEntry(status, request[t].date, request[t].lines))
            /\ status = "posted" => request[t].op = "create_posted"
            /\ AccountsExist(request[t].lines)
    BY <1>1 DEF create_draft, create_posted, Finish
  <2> DEFINE new == NewEntry(status, request[t].date, request[t].lines)
  <2>4. entries'[e] = new /\ \A x \in Ids : x # e => entries'[x] = entries[x]
    BY <2>3 DEF Change, TypeOK
  <2>5. /\ new \in Entry /\ new.status = status /\ new.date = request[t].date
        /\ new.lines = request[t].lines /\ new.reverses = None
    BY <2>2, NewEntryType
  <2> HIDE DEF new
  <2>6. Status(e) = "none"
    BY <2>3 DEF Status
  <2>7. ChartCheck(request[t]) => Good(entries'[e].lines)
    BY <2>1, <2>4, <2>5 DEF ChartCheck
  <2>8. status = "posted" =>
          /\ request[t].op \in {"post", "create_posted"}
          /\ entries'[e].date = MonthOf(request[t]) /\ entries'[e].lines = LinesOf(request[t])
    BY <2>3, <2>4, <2>5 DEF MonthOf, LinesOf
  <2>9. Drafts(t, e)
    BY <2>3, <2>4, <2>5, <2>6, <2>7, <2>8 DEF Drafts
  <2> QED BY <2>9
<1>2. CASE update_draft(t) \/ delete_draft(t) \/ post(t)
  <2> DEFINE e == request[t].entry
  <2>1. request[t].op \in {"update", "delete", "post"}
    BY <1>2 DEF update_draft, delete_draft, post, Finish
  <2>2. e \in Ids /\ Status(e) = "draft"
    BY <1>0, <2>1, RequestFields DEF LocksHeld, ReadStands
  <2>3. Exists(e) /\ entries[e] \in Entry /\ entries[e].status = "draft"
    BY <2>2 DEF Status, Exists, TypeOK
  <2>4. \A x \in Ids : x # e => entries'[x] = entries[x]
    BY <1>2, <2>2 DEF update_draft, delete_draft, post, Change, TypeOK
  <2>5. CASE delete_draft(t)
    <3>1. entries'[e] = None
      BY <2>2, <2>5 DEF delete_draft, Change, TypeOK
    <3> QED BY <2>2, <2>4, <3>1 DEF Drafts
  <2>6. CASE update_draft(t)
    <3> DEFINE new == [entries[e] EXCEPT !.date = request[t].date, !.lines = request[t].lines]
    <3>1. request[t].op = "update"
      BY <2>6 DEF update_draft, Finish
    <3>2. request[t].date \in Months /\ request[t].lines \in [Accounts -> Int]
      BY <1>0, <3>1, RequestFields, EntryLines
    <3>3. entries'[e] = new
      BY <2>2, <2>6 DEF update_draft, Change, TypeOK
    <3>4. /\ new \in Entry /\ new.status = "draft" /\ new.lines = request[t].lines
          /\ new.reverses = entries[e].reverses
      BY <2>3, <3>2 DEF Entry
    <3> HIDE DEF new
    <3>5. ChartCheck(request[t]) => Good(entries'[e].lines)
      BY <3>1, <3>3, <3>4 DEF ChartCheck
    <3>6. AccountsExist(entries'[e].lines)
      BY <2>6, <3>3, <3>4 DEF update_draft
    <3> QED BY <2>2, <2>3, <2>4, <3>3, <3>4, <3>5, <3>6 DEF Drafts
  <2>7. CASE post(t)
    <3> DEFINE new == [entries[e] EXCEPT !.status = "posted"]
    <3>1. request[t].op = "post"
      BY <2>7 DEF post, Finish
    <3>2. entries'[e] = new
      BY <2>2, <2>7 DEF post, Change, TypeOK
    <3>3. /\ new \in Entry /\ new.status = "posted" /\ new.lines = entries[e].lines
          /\ new.date = entries[e].date /\ new.reverses = entries[e].reverses
      BY <2>3 DEF Entry
    <3> HIDE DEF new
    <3>4. ChartCheck(request[t]) => Good(entries'[e].lines)
      BY <3>1, <3>2, <3>3 DEF ChartCheck
    <3>5. entries'[e].date = MonthOf(request[t]) /\ entries'[e].lines = LinesOf(request[t])
      BY <3>1, <3>2, <3>3 DEF MonthOf, LinesOf
    <3> QED BY <2>2, <2>3, <2>4, <3>1, <3>2, <3>3, <3>4, <3>5 DEF Drafts
  <2> QED BY <1>2, <2>2, <2>5, <2>6, <2>7
<1>3. CASE reverse(t)
  <2> DEFINE e == request[t].entry
  <2>1. request[t].op = "reverse"
    BY <1>3 DEF reverse, Finish
  <2>2. e \in Ids /\ Status(e) = "posted" /\ request[t].date \in Months
    BY <1>0, <2>1, RequestFields DEF LocksHeld, ReadStands
  <2>3. Exists(e) /\ entries[e] \in Entry
    BY <2>2 DEF Status, Exists, TypeOK
  <2>4. PICK r \in Ids :
          /\ ~Exists(r)
          /\ \A x \in Ids : Exists(x) => entries[x].reverses # e
          /\ entries' = [entries EXCEPT
                ![r] = [NewEntry("posted", request[t].date, Mirrored(entries[e].lines))
                          EXCEPT !.reverses = e],
                ![e] = [@ EXCEPT !.status = "reversed", !.reversed_by = r]]
    BY <1>3 DEF reverse
  <2> DEFINE base == NewEntry("posted", request[t].date, Mirrored(entries[e].lines))
             new == [base EXCEPT !.reverses = e]
             old == [entries[e] EXCEPT !.status = "reversed", !.reversed_by = r]
  <2>5. e # r /\ Status(r) = "none"
    BY <2>3, <2>4 DEF Status
  <2>6. Mirrored(entries[e].lines) \in [Accounts -> Int]
    BY <2>3, EntryLines DEF Entry
  <2>7. /\ base \in Entry /\ base.status = "posted" /\ base.date = request[t].date
        /\ base.lines = Mirrored(entries[e].lines)
    BY <2>2, <2>6, NewEntryType
  <2>8. /\ entries'[r] = new /\ entries'[e] = old
        /\ \A x \in Ids : x # e /\ x # r => entries'[x] = entries[x]
    <3> HIDE DEF base
    <3>1. entries' = [entries EXCEPT ![r] = new, ![e] = [@ EXCEPT !.status = "reversed", !.reversed_by = r]]
      BY <2>4 DEF base
    <3>2. [entries EXCEPT ![r] = new][e] = entries[e]
      BY <2>2, <2>5 DEF TypeOK
    <3> HIDE DEF new
    <3> QED BY <2>2, <2>5, <3>1, <3>2 DEF TypeOK
  <2> HIDE DEF base
  <2>9. /\ new \in Entry /\ new.status = "posted" /\ new.reverses = e
        /\ new.date = request[t].date /\ new.lines = Mirrored(entries[e].lines)
    BY <2>2, <2>7 DEF Entry
  <2>10. /\ old \in Entry /\ old.status = "reversed" /\ old.reversed_by = r
         /\ old.date = entries[e].date /\ old.lines = entries[e].lines
         /\ old.reverses = entries[e].reverses
    BY <2>3 DEF Entry
  <2> HIDE DEF new, old
  <2>11. Reverses(t, e, r)
    BY <2>1, <2>2, <2>4, <2>5, <2>8, <2>9, <2>10 DEF Reverses
  <2> QED BY <2>2, <2>11
<1> QED BY <1>1, <1>2, <1>3 DEF WritesEntry

----------------------------------------------------------------------------
(* A reversed entry has one reversal, which mirrors it.                     *)

DraftsReverseNothing == \A e \in Ids : Status(e) = "draft" => entries[e].reverses = None

DatesChecked == \A t \in Threads : DateCheck(request[t])

PairsInv == ReversalsPair /\ DraftsReverseNothing /\ DatesChecked

\* Nothing reverses an entry that is not reversed.
LEMMA NotReversed ==
    ASSUME ReversalsPair, NEW e \in Ids, Status(e) # "reversed", NEW r \in Ids, Exists(r)
    PROVE  entries[r].reverses # e
BY DEF ReversalsPair

\* A draft is in no pair, before and after.
LEMMA DraftsKeepPairs ==
    ASSUME TypeOK, PairsInv, NEW t \in Threads, NEW e \in Ids, Drafts(t, e)
    PROVE  ReversalsPair' /\ DraftsReverseNothing'
<1> USE JournalAssumption
<1>1. \A x \in Ids : x # e => entries'[x] = entries[x] /\ Status(x)' = Status(x) /\ InLedger(x)' = InLedger(x)
                              /\ Exists(x)' = Exists(x)
  BY DEF Drafts, Status, Exists, InLedger
<1>2. \A r \in Ids : Exists(r) => entries[r].reverses # e
  BY NotReversed DEF Drafts, PairsInv
<1>4. Exists(e) => entries[e].reverses = None
  BY StatusStored DEF Drafts, PairsInv, DraftsReverseNothing
<1>3. Exists(e)' => entries'[e].reverses = None
  BY <1>4 DEF Drafts, Exists
<1>5. Status(e)' # "reversed" /\ Status(e) # "reversed"
  BY DEF Drafts, Status, Exists
<1>6. DraftsReverseNothing'
  BY <1>1, <1>3 DEF PairsInv, DraftsReverseNothing, Status, Exists
<1>7. ASSUME NEW x \in Ids PROVE (Status(x)' = "reversed") <=> (\E r \in Ids : Exists(r)' /\ entries'[r].reverses = x)
  <2>1. (Status(x) = "reversed") <=> (\E r \in Ids : Exists(r) /\ entries[r].reverses = x)
    BY DEF PairsInv, ReversalsPair
  <2> QED BY <1>1, <1>2, <1>3, <1>4, <1>5, <2>1
<1>8. ASSUME NEW x \in Ids, NEW r \in Ids, Exists(r)', entries'[r].reverses = x
      PROVE  /\ InLedger(r)' /\ Exists(x)' /\ entries'[x].reversed_by = r
             /\ entries'[r].date >= entries'[x].date
             /\ \A a \in Accounts : entries'[x].lines[a] + entries'[r].lines[a] = 0
  <2>1. r # e
    BY <1>3, <1>8
  <2>2. Exists(r) /\ entries[r].reverses = x /\ x # e
    BY <1>1, <1>2, <1>8, <2>1
  <2>3. /\ InLedger(r) /\ Exists(x) /\ entries[x].reversed_by = r
        /\ entries[r].date >= entries[x].date
        /\ \A a \in Accounts : entries[x].lines[a] + entries[r].lines[a] = 0
    BY <2>2 DEF PairsInv, ReversalsPair
  <2> QED BY <1>1, <2>1, <2>2, <2>3
<1> QED BY <1>6, <1>7, <1>8 DEF ReversalsPair

\* A reversal makes one more pair.
LEMMA ReversingKeepsPairs ==
    ASSUME TypeOK, PairsInv, NEW t \in Threads, NEW e \in Ids, NEW r \in Ids, Reverses(t, e, r)
    PROVE  ReversalsPair' /\ DraftsReverseNothing'
<1> USE JournalAssumption, NoneAssumption
<1>1. \A x \in Ids : x # e /\ x # r => entries'[x] = entries[x] /\ Status(x)' = Status(x)
                              /\ InLedger(x)' = InLedger(x) /\ Exists(x)' = Exists(x)
  BY DEF Reverses, Status, Exists, InLedger
<1>2. Exists(e) /\ entries[e] \in Entry /\ ~Exists(r) /\ InLedger(e)
  BY StatusStored DEF Reverses, InLedger
<1>3. Exists(e)' /\ Exists(r)' /\ Status(e)' = "reversed" /\ Status(r)' = "posted" /\ InLedger(e)' /\ InLedger(r)'
  BY DEF Reverses, Status, Exists, InLedger
<1>4. \A x \in Ids : Exists(x) => entries[x].reverses # e /\ entries[x].reverses # r
  BY <1>2 DEF Reverses, PairsInv, ReversalsPair
<1>5. DraftsReverseNothing'
  BY <1>1, <1>3 DEF PairsInv, DraftsReverseNothing
<1>6. /\ entries'[e].reverses = entries[e].reverses /\ entries'[r].reverses = e
      /\ entries'[e].reversed_by = r /\ Status(e) = "posted"
      /\ entries'[e].date = entries[e].date /\ entries'[e].lines = entries[e].lines
      /\ entries'[r].date = request[t].date /\ entries'[r].lines = Mirrored(entries[e].lines) /\ e # r
  BY DEF Reverses
<1>7. ASSUME NEW x \in Ids PROVE (Status(x)' = "reversed") <=> (\E q \in Ids : Exists(q)' /\ entries'[q].reverses = x)
  <2>1. (Status(x) = "reversed") <=> (\E q \in Ids : Exists(q) /\ entries[q].reverses = x)
    BY DEF PairsInv, ReversalsPair
  <2>2. CASE x = e
    BY <1>3, <1>6, <2>2
  <2>3. CASE x = r
    BY <1>1, <1>3, <1>4, <1>6, <1>2, <2>3
  <2>4. CASE x # e /\ x # r
    BY <1>1, <1>2, <1>3, <1>6, <2>1, <2>4
  <2> QED BY <2>2, <2>3, <2>4
<1>8. ASSUME NEW x \in Ids, NEW q \in Ids, Exists(q)', entries'[q].reverses = x
      PROVE  /\ InLedger(q)' /\ Exists(x)' /\ entries'[x].reversed_by = q
             /\ entries'[q].date >= entries'[x].date
             /\ \A a \in Accounts : entries'[x].lines[a] + entries'[q].lines[a] = 0
  <2>1. CASE q = r
    <3>1. x = e /\ entries'[q].date >= entries'[x].date
      BY <1>6, <1>8, <2>1 DEF Reverses, PairsInv, DatesChecked, DateCheck
    <3>2. \A a \in Accounts : entries[e].lines[a] + Mirrored(entries[e].lines)[a] = 0
      <4>1. entries[e].lines \in [Accounts -> Int]
        BY <1>2 DEF Entry
      <4> QED BY <4>1 DEF Mirrored
    <3> QED BY <1>3, <1>6, <2>1, <3>1, <3>2
  <2>2. CASE q # r
    <3>1. Exists(q) /\ entries[q].reverses = x
      BY <1>1, <1>2, <1>6, <1>8, <2>2
    <3>2. x # e /\ x # r
      BY <1>4, <3>1
    <3>3. /\ InLedger(q) /\ Exists(x) /\ entries[x].reversed_by = q
          /\ entries[q].date >= entries[x].date
          /\ \A a \in Accounts : entries[x].lines[a] + entries[q].lines[a] = 0
      BY <3>1 DEF PairsInv, ReversalsPair
    <3>4. entries'[q].date = entries[q].date /\ entries'[q].lines = entries[q].lines /\ InLedger(q)'
      BY <1>1, <1>3, <1>6, <2>2, <3>3
    <3> QED BY <1>1, <3>2, <3>3, <3>4
  <2> QED BY <2>1, <2>2
<1> QED BY <1>5, <1>7, <1>8 DEF ReversalsPair

\* The invariant of the pairs: the month of a reversal was compared with that
\* of an entry that cannot have changed since.
LEMMA PairsStep == TypeOK /\ LocksHeld /\ PairsInv /\ [Next]_vars => PairsInv'
<1> SUFFICES ASSUME TypeOK, LocksHeld, PairsInv, [Next]_vars PROVE PairsInv'
  OBVIOUS
<1>0. DateCheck(Idle)
  BY DEF DateCheck, Idle
<1>1. ASSUME entries' = entries PROVE ReversalsPair' /\ DraftsReverseNothing'
  BY <1>1 DEF PairsInv, ReversalsPair, DraftsReverseNothing, Status, Exists, InLedger
<1>2. ASSUME NEW t \in Threads, NEW r, entries' = entries, DateCheck(r),
             request' = [request EXCEPT ![t] = r]
      PROVE  PairsInv'
  <2>1. DatesChecked'
    BY <1>2 DEF PairsInv, DatesChecked, DateCheck, TypeOK
  <2> QED BY <1>1, <1>2, <2>1 DEF PairsInv
<1>3. CASE \E t \in Threads : Checks(t)
  <2>1. PICK t \in Threads : Checks(t)
    BY <1>3
  <2>2. PICK r : Begin(t, r) /\ DateCheck(r)
    BY <2>1, CheckedRequest
  <2> QED BY <1>2, <2>2 DEF Begin
<1>4. CASE \E t \in Threads : WritesEntry(t)
  <2>1. PICK t \in Threads : WritesEntry(t)
    BY <1>4
  <2>2. request' = [request EXCEPT ![t] = Idle]
    BY <2>1, WriteShape
  <2>3. DatesChecked'
    <3>1. ASSUME NEW u \in Threads, u # t, request[u].op = "reverse"
          PROVE  entries'[request[u].entry] = entries[request[u].entry]
      <4>1. Status(request[u].entry) = "posted"
        BY <3>1 DEF LocksHeld, ReadStands
      <4>2. request[u].entry \in Ids
        BY <3>1, RequestFields DEF TypeOK
      <4>3. Exists(request[u].entry)
        BY <4>1, <4>2, StatusStored
      <4>4. request[t].op \in Locking => request[t].entry # request[u].entry
        BY <3>1 DEF LocksHeld, HeldOnce, Locking
      <4> QED BY <2>1, <4>2, <4>3, <4>4, OnlyTheLockedEntry DEF WritesEntry
    <3>2. request'[t] = Idle /\ \A u \in Threads : u # t => request'[u] = request[u]
      BY <2>2 DEF TypeOK
    <3>3. ASSUME NEW u \in Threads PROVE DateCheck(request[u])'
      <4>1. CASE u = t
        BY <1>0, <3>2, <4>1 DEF DateCheck, Idle
      <4>2. CASE u # t
        BY <3>1, <3>2, <4>2 DEF PairsInv, DatesChecked, DateCheck
      <4> QED BY <4>1, <4>2
    <3> QED BY <3>3 DEF DatesChecked
  <2>4. PICK e \in Ids : Drafts(t, e) \/ \E r \in Ids : Reverses(t, e, r)
    BY <2>1, EntryWrite
  <2>5. ReversalsPair' /\ DraftsReverseNothing'
    BY <2>4, DraftsKeepPairs, ReversingKeepsPairs
  <2> QED BY <2>3, <2>5 DEF PairsInv
<1>5. CASE \E t \in Threads : open_account(t) \/ delete_account(t) \/ create_year(t) \/ transition(t) \/ abandon(t)
  <2>1. PICK t \in Threads : entries' = entries /\ request' = [request EXCEPT ![t] = Idle]
    BY <1>5 DEF open_account, delete_account, create_year, transition, abandon, Finish, End
  <2> QED BY <1>0, <1>2, <2>1
<1>6. CASE (\E a \in Accounts : activate(a)) \/ UNCHANGED vars
  <2>1. entries' = entries /\ request' = request
    BY <1>6 DEF activate, vars
  <2>2. DatesChecked'
    BY <2>1 DEF PairsInv, DatesChecked, DateCheck
  <2> QED BY <1>1, <2>1, <2>2 DEF PairsInv
<1> QED BY <1>3, <1>4, <1>5, <1>6, StepShape

\* The inductive invariant of the pairs.
LEMMA PairsInvariant == Spec => [](TypeOK /\ LocksHeld /\ PairsInv)
<1>1. Init => PairsInv
  <2> SUFFICES ASSUME Init PROVE PairsInv
    OBVIOUS
  <2>1. \A e \in Ids : ~Exists(e) /\ Status(e) = "none"
    BY DEF Init, Exists, Status
  <2>2. DatesChecked
    BY DEF Init, DatesChecked, DateCheck, Idle
  <2> QED BY <2>1, <2>2 DEF PairsInv, ReversalsPair, DraftsReverseNothing
<1> QED BY <1>1, PairsStep, LocksInvariant, PTL DEF Spec

----------------------------------------------------------------------------
(* What a post has checked of its entry stands until it writes.             *)

\* Between the check and the write of a post no other thread writes its entry.
LEMMA PostedEntryStands ==
    ASSUME TypeOK, LocksHeld, NEW t \in Threads, WritesEntry(t),
           NEW u \in Threads, u # t, request[u].op = "post"
    PROVE  entries'[request[u].entry] = entries[request[u].entry]
<1>1. request[u].entry \in Ids
  BY RequestFields DEF TypeOK
<1>2. Exists(request[u].entry)
  BY <1>1, StatusStored DEF LocksHeld, ReadStands
<1>3. request[t].op \in Locking => request[t].entry # request[u].entry
  BY DEF LocksHeld, HeldOnce, Locking
<1> QED BY <1>1, <1>2, <1>3, OnlyTheLockedEntry DEF WritesEntry

----------------------------------------------------------------------------
(* Accounts that organize the chart carry nothing, when a change of the     *)
(* chart does not overlap other requests.                                   *)

ChartInv ==
    /\ HeadersCarryNothing
    /\ \A t \in Threads : ChartCheck(request[t])
    /\ AloneIn("chart")

\* No write of an entry puts an amount on an account with sub-accounts.
LEMMA WriteKeepsHeaders ==
    ASSUME TypeOK, LocksHeld, ChartInv, NEW t \in Threads, WritesEntry(t)
    PROVE  HeadersCarryNothing'
<1>1. chart' = chart /\ \A a \in Accounts : IsHeader(a)' <=> IsHeader(a)
  BY WriteShape DEF IsHeader
<1> SUFFICES ASSUME NEW a \in Accounts, IsHeader(a), NEW x \in Ids, Exists(x)', entries'[x].lines[a] # 0
             PROVE  FALSE
  BY <1>1 DEF HeadersCarryNothing, Carries
<1>2. \A y \in Ids : Exists(y) => entries[y].lines[a] = 0
  BY DEF ChartInv, HeadersCarryNothing, Carries
<1>3. entries'[x] # entries[x]
  BY <1>2 DEF Exists
<1>4. PICK e \in Ids : Drafts(t, e) \/ \E r \in Ids : Reverses(t, e, r)
  BY EntryWrite
<1>5. CASE Drafts(t, e)
  <2>1. x = e /\ Good(entries'[x].lines)
    BY <1>3, <1>5 DEF Drafts, Exists, ChartInv
  <2> QED BY <2>1 DEF Good, AccountsOf
<1>6. ASSUME NEW r \in Ids, Reverses(t, e, r) PROVE FALSE
  <2>1. Exists(e) /\ entries[e].lines \in [Accounts -> Int]
    BY <1>6, StatusStored DEF Reverses, Entry
  <2>2. entries'[x].lines = entries[e].lines \/ entries'[x].lines = Mirrored(entries[e].lines)
    BY <1>3, <1>6 DEF Reverses
  <2>3. entries[e].lines[a] = 0 /\ Mirrored(entries[e].lines)[a] = 0
    BY <1>2, <2>1 DEF Mirrored
  <2> QED BY <2>2, <2>3
<1> QED BY <1>4, <1>5, <1>6

\* The invariant of the chart: what a request has read of it is still so.
LEMMA ChartStep ==
    ASSUME "chart" \notin Overlapping
    PROVE  TypeOK /\ LocksHeld /\ ChartInv /\ [Next]_vars => ChartInv'
<1> SUFFICES ASSUME TypeOK, LocksHeld, ChartInv, [Next]_vars PROVE ChartInv'
  OBVIOUS
<1>0. AloneIn("chart")'
  BY AloneStep DEF ChartInv
<1>i. ChartCheck(Idle)' /\ ChartCheck(Idle)
  BY DEF ChartCheck, Idle
<1>1. ASSUME NEW t \in Threads, NEW r, entries' = entries, chart' = chart, ChartCheck(r),
             request' = [request EXCEPT ![t] = r]
      PROVE  ChartInv'
  <2>1. HeadersCarryNothing'
    BY <1>1 DEF ChartInv, HeadersCarryNothing, IsHeader, Carries, Exists
  <2>2. ASSUME NEW u \in Threads PROVE ChartCheck(request[u])'
    <3>1. request'[u] = r \/ request'[u] = request[u]
      BY <1>1 DEF TypeOK
    <3>2. ChartCheck(request'[u])
      BY <1>1, <3>1 DEF ChartInv
    <3> QED BY <1>1, <3>2 DEF ChartCheck, Good, IsHeader, Carries, Exists
  <2> QED BY <1>0, <2>1, <2>2 DEF ChartInv
<1>2. ASSUME \A u \in Threads : request'[u] = Idle, HeadersCarryNothing' PROVE ChartInv'
  BY <1>0, <1>2 DEF ChartInv, ChartCheck, Idle
<1>3. CASE \E t \in Threads : Checks(t)
  <2>1. PICK t \in Threads : Checks(t)
    BY <1>3
  <2>2. PICK r : Begin(t, r) /\ ChartCheck(r)
    BY <2>1, CheckedRequest
  <2> QED BY <1>1, <2>2 DEF Begin
<1>4. CASE \E t \in Threads : WritesEntry(t)
  <2>1. PICK t \in Threads : WritesEntry(t)
    BY <1>4
  <2>2. /\ request' = [request EXCEPT ![t] = Idle] /\ chart' = chart
        /\ request[t].op \in Writing
    BY <2>1, WriteShape
  <2>3. ASSUME NEW u \in Threads PROVE ChartCheck(request[u])'
    <3>1. CASE u = t
      BY <2>2, <3>1 DEF ChartCheck, Idle, TypeOK
    <3>2. CASE u # t
      <4>1. request'[u] = request[u] /\ ChartCheck(request[u])
        BY <2>2, <3>2 DEF TypeOK, ChartInv
      <4>2. request[u].op # "open_account"
        BY <2>2, <3>2 DEF ChartInv, AloneIn, Area, Writing, Idle
      <4>3. request[u].op = "post" => entries'[request[u].entry] = entries[request[u].entry]
        BY <2>1, <3>2, PostedEntryStands
      <4> QED BY <2>2, <4>1, <4>2, <4>3 DEF ChartCheck, Good, IsHeader
    <3> QED BY <3>1, <3>2
  <2>4. HeadersCarryNothing'
    BY <2>1, WriteKeepsHeaders
  <2> QED BY <1>0, <2>3, <2>4 DEF ChartInv
<1>5. CASE \E t \in Threads : open_account(t) \/ delete_account(t)
  <2>1. PICK t \in Threads : open_account(t) \/ delete_account(t)
    BY <1>5
  <2>2. /\ request' = [request EXCEPT ![t] = Idle] /\ entries' = entries
        /\ request[t].op \in {"open_account", "delete_account"}
    BY <2>1 DEF open_account, delete_account, Finish, End
  <2>3. \A u \in Threads : request'[u] = Idle
    BY <2>2 DEF TypeOK, ChartInv, AloneIn, Area
  <2>4. request[t] \in Requests /\ request[t].account \in Accounts
    BY <2>2, RequestFields DEF TypeOK
  <2>5. ASSUME NEW a \in Accounts, IsHeader(a)' PROVE Carries(a)' = {}
    <3>1. Carries(a)' = Carries(a)
      BY <2>2 DEF Carries, Exists
    <3>2. PICK c \in Accounts : chart'[c].state # "none" /\ chart'[c].parent = a
      BY <2>5 DEF IsHeader
    <3>3. CASE chart'[c] = chart[c]
      BY <3>1, <3>2, <3>3 DEF ChartInv, HeadersCarryNothing, IsHeader
    <3>4. CASE chart'[c] # chart[c]
      <4>1. CASE open_account(t)
        <5>1. chart'[c] = [state |-> "active", parent |-> request[t].parent] /\ request[t].op = "open_account"
          BY <2>4, <3>4, <4>1 DEF open_account, Finish, TypeOK
        <5>2. request[t].parent = a /\ a # None
          BY <3>2, <5>1, JournalAssumption
        <5> QED BY <3>1, <5>1, <5>2 DEF ChartInv, ChartCheck
      <4>2. CASE delete_account(t)
        <5>1. chart'[c].state = "none"
          BY <2>4, <3>4, <4>2 DEF delete_account, TypeOK
        <5> QED BY <3>2, <5>1
      <4> QED BY <2>1, <4>1, <4>2
    <3> QED BY <3>3, <3>4
  <2> QED BY <1>2, <2>3, <2>5 DEF HeadersCarryNothing
<1>6. CASE \E t \in Threads : create_year(t) \/ transition(t) \/ abandon(t)
  <2>1. PICK t \in Threads : /\ entries' = entries /\ chart' = chart
                             /\ request' = [request EXCEPT ![t] = Idle]
    BY <1>6 DEF create_year, transition, abandon, Finish, End
  <2> QED BY <1>1, <1>i, <2>1
<1>7. CASE \E a \in Accounts : activate(a)
  <2>1. PICK a \in Accounts : activate(a)
    BY <1>7
  <2>2. /\ entries' = entries /\ request' = request /\ MayBegin("activate")
        /\ chart[a].state # "none"
        /\ \E state \in {"active", "inactive"} : chart' = [chart EXCEPT ![a].state = state]
    BY <2>1 DEF activate
  <2>3. \A u \in Threads : request'[u] = Idle
    BY <2>2 DEF MayBegin, Area
  <2>4. \A c \in Accounts : /\ chart'[c].parent = chart[c].parent
                            /\ chart'[c].state # "none" => chart[c].state # "none"
    BY <2>2 DEF TypeOK
  <2>5. HeadersCarryNothing'
    BY <2>2, <2>4 DEF ChartInv, HeadersCarryNothing, IsHeader, Carries, Exists
  <2> QED BY <1>2, <2>3, <2>5
<1>8. CASE UNCHANGED vars
  BY <1>0, <1>8 DEF vars, ChartInv, HeadersCarryNothing, ChartCheck, Good, IsHeader, Carries, Exists
<1> QED BY <1>3, <1>4, <1>5, <1>6, <1>7, <1>8, StepShape

\* The inductive invariant of the chart.
LEMMA ChartInvariant ==
    ASSUME "chart" \notin Overlapping
    PROVE  Spec => [](TypeOK /\ LocksHeld /\ ChartInv)
<1>1. Init => ChartInv
  <2> SUFFICES ASSUME Init PROVE ChartInv
    OBVIOUS
  <2>1. \A e \in Ids : ~Exists(e)
    BY DEF Init, Exists
  <2>2. HeadersCarryNothing
    BY <2>1 DEF HeadersCarryNothing, Carries
  <2>3. \A t \in Threads : ChartCheck(request[t])
    BY DEF Init, ChartCheck, Idle
  <2>4. AloneIn("chart")
    BY DEF Init, AloneIn, Idle
  <2> QED BY <2>2, <2>3, <2>4 DEF ChartInv
<1> QED BY <1>1, ChartStep, LocksInvariant, PTL DEF Spec

\* The books are in order, whatever the entries, the accounts and the requests:
\* a reversed entry has one reversal that mirrors it, and an account with
\* sub-accounts carries nothing, given that no other request is underway while
\* one changes the chart (Ledger::reverse; Store::create and validate_lines).
THEOREM BooksAreInOrder == "chart" \notin Overlapping => (Spec => []BooksTie)
<1> SUFFICES ASSUME "chart" \notin Overlapping PROVE Spec => []BooksTie
  OBVIOUS
<1>1. TypeOK /\ PairsInv /\ ChartInv => BooksTie
  BY DEF BooksTie, PairsInv, ChartInv
<1> QED BY <1>1, PairsInvariant, ChartInvariant, PTL

----------------------------------------------------------------------------
(* Closed months and retired accounts rest.  Nothing keeps a request from   *)
(* being underway as one closes or is retired: what it has read is still    *)
(* so, or it has missed the change.                                         *)

Posting == {"post", "create_posted", "reverse"}

OpenOrMissed(t) ==
    /\ request[t].op \in Posting =>
          OpenForPost(MonthOf(request[t])) \/ MonthOf(request[t]) \in missed[t].months
    /\ request[t].op = "transition" /\ calendar[request[t].year][request[t].month] = "locked" =>
          request[t].month \in missed[t].months

ActiveOrMissed(t) ==
    request[t].op \in {"post", "create_posted"} =>
        \A a \in AccountsOf(LinesOf(request[t])) :
            chart[a].state = "inactive" => a \in missed[t].accounts

LinesExist == \A e \in Ids : Exists(e) => AccountsExist(entries[e].lines)

MissedInv ==
    /\ LinesExist
    /\ \A t \in Threads : OpenOrMissed(t) /\ ActiveOrMissed(t)

\* A request that has just been let in has missed nothing, and needs to.
LEMMA CheckedMissesNothing ==
    ASSUME NEW t \in Threads, NEW r, Begin(t, r), ChartCheck(r), CalendarCheck(r), TypeOK
    PROVE  OpenOrMissed(t)' /\ ActiveOrMissed(t)'
<1>1. request'[t] = r /\ UNCHANGED << entries, chart, calendar, missed >>
  BY DEF Begin, TypeOK
<1>2. r.op \in Posting => OpenForPost(MonthOf(r))
  BY DEF CalendarCheck, MonthOf, Posting
<1>3. r.op = "transition" => calendar[r.year][r.month] # "locked"
  BY DEF CalendarCheck, From
<1>4. r.op \in {"post", "create_posted"} => \A a \in AccountsOf(LinesOf(r)) : chart[a].state = "active"
  BY DEF ChartCheck, LinesOf, Good
<1>5. OpenOrMissed(t)'
  BY <1>1, <1>2, <1>3 DEF OpenOrMissed, OpenForPost, PeriodsOf, MonthOf
<1>6. ActiveOrMissed(t)'
  BY <1>1, <1>4 DEF ActiveOrMissed, LinesOf, AccountsOf
<1> QED BY <1>5, <1>6

\* A request that waits, while its entry stands, every month it has read as
\* open is open or missed, no month is locked and no account retired without its
\* missing it.
LEMMA WaitingMisses ==
    ASSUME MissedInv, NEW t \in Threads, request'[t] = request[t],
           missed[t].months \subseteq missed'[t].months, missed[t].accounts \subseteq missed'[t].accounts,
           request[t].op = "post" => entries'[request[t].entry] = entries[request[t].entry],
           request[t].op \in Posting => MonthOf(request[t]) \in Months,
           request[t].op = "transition" => request[t].year \in Years /\ request[t].month \in Months,
           \A m \in Months : OpenForPost(m) => OpenForPost(m)' \/ m \in missed'[t].months,
           \A y \in Years, m \in Months :
               calendar'[y][m] = "locked" => calendar[y][m] = "locked" \/ m \in missed'[t].months,
           \A a \in Accounts :
               chart'[a].state = "inactive" => chart[a].state = "inactive" \/ a \in missed'[t].accounts
    PROVE  OpenOrMissed(t)' /\ ActiveOrMissed(t)'
<1>1. OpenOrMissed(t) /\ ActiveOrMissed(t)
  BY DEF MissedInv
<1>2. /\ request[t].op \in Posting => MonthOf(request[t])' = MonthOf(request[t])
      /\ LinesOf(request[t])' = LinesOf(request[t])
  BY DEF MonthOf, LinesOf, Posting
<1>3. OpenOrMissed(t)'
  <2>1. ASSUME request[t].op \in Posting
        PROVE  OpenForPost(MonthOf(request[t]))' \/ MonthOf(request[t])' \in missed'[t].months
    <3>1. PICK m \in Months : m = MonthOf(request[t])
      BY <2>1
    <3>2. OpenForPost(m) \/ m \in missed[t].months
      BY <1>1, <2>1, <3>1 DEF OpenOrMissed
    <3>3. OpenForPost(m)' \/ m \in missed'[t].months
      BY <3>2
    <3>4. MonthOf(request[t])' = m
      BY <1>2, <2>1, <3>1
    <3> QED BY <3>3, <3>4 DEF OpenForPost, PeriodsOf
  <2>2. ASSUME request[t].op = "transition", calendar'[request[t].year][request[t].month] = "locked"
        PROVE  request[t].month \in missed'[t].months
    BY <1>1, <2>2 DEF OpenOrMissed
  <2> QED BY <2>1, <2>2 DEF OpenOrMissed
<1>4. ActiveOrMissed(t)'
  <2> SUFFICES ASSUME request[t].op \in {"post", "create_posted"}, NEW a \in AccountsOf(LinesOf(request[t])),
                      chart'[a].state = "inactive"
               PROVE  a \in missed'[t].accounts
    BY <1>2 DEF ActiveOrMissed, AccountsOf
  <2> QED BY <1>1 DEF ActiveOrMissed, AccountsOf
<1> QED BY <1>3, <1>4

\* What the other requests miss when one ends.
LEMMA EndMisses ==
    ASSUME TypeOK, NEW t \in Threads, NEW months, End(t, months), NEW u \in Threads, u # t
    PROVE  /\ request'[u] = request[u]
           /\ request[u] # Idle =>
                 /\ missed'[u].months = missed[u].months \cup months
                 /\ missed'[u].accounts = missed[u].accounts
BY DEF End, Miss, TypeOK

\* The months and rows of a request are such.
LEMMA Underway ==
    ASSUME TypeOK, LocksHeld, NEW t \in Threads
    PROVE  /\ request[t].op \in Posting => MonthOf(request[t]) \in Months
           /\ request[t].op = "transition" =>
                 request[t].year \in Years /\ request[t].month \in Months /\ request[t].to \in Statuses
<1>1. request[t] \in Requests
  BY DEF TypeOK
<1>2. ASSUME request[t].op = "post" PROVE MonthOf(request[t]) \in Months
  <2>1. request[t].entry \in Ids /\ Status(request[t].entry) = "draft"
    BY <1>1, <1>2, RequestFields DEF LocksHeld, ReadStands
  <2>2. entries[request[t].entry] \in Entry
    BY <2>1, StatusStored
  <2> QED BY <1>2, <2>2 DEF MonthOf, Entry
<1>3. ASSUME request[t].op \in {"create_posted", "reverse"} PROVE MonthOf(request[t]) \in Months
  BY <1>1, <1>3, RequestFields DEF MonthOf
<1> QED BY <1>1, <1>2, <1>3, RequestFields DEF Posting

\* An idle thread has read nothing.
LEMMA IdleMisses ==
    ASSUME NEW t \in Threads, request'[t] = Idle
    PROVE  OpenOrMissed(t)' /\ ActiveOrMissed(t)'
BY DEF OpenOrMissed, ActiveOrMissed, Idle, Posting

\* A month that is open stays so, unless a request closes it: a year that is
\* created has only open months.
LEMMA OpenStays ==
    ASSUME TypeOK, LocksHeld, NEW t \in Threads, create_year(t) \/ transition(t)
    PROVE  \E months \in SUBSET Months :
              /\ End(t, months)
              /\ \A m \in Months : OpenForPost(m) => OpenForPost(m)' \/ m \in months
              /\ \A y \in Years, m \in Months :
                    calendar'[y][m] = "locked" => calendar[y][m] = "locked" \/ m \in months
<1> USE NoneAssumption DEF Statuses
<1>1. CASE create_year(t)
  <2>1. End(t, {})
    BY <1>1 DEF create_year, Finish
  <2>2. PICK y \in Years : y = request[t].year
    BY <1>1, RequestFields DEF create_year, Finish, TypeOK
  <2>3. /\ \A m \in Months : calendar[y][m] = None
        /\ \A m \in Months : calendar'[y][m] \in {"open", None}
        /\ \A z \in Years : z # y => calendar'[z] = calendar[z]
    BY <1>1, <2>2 DEF create_year, NoPeriods, TypeOK
  <2>4. ASSUME NEW m \in Months, OpenForPost(m) PROVE OpenForPost(m)'
    <3>1. CASE PeriodsOf(m) = {}
      <4>1. \A z \in PeriodsOf(m)' : z = y
        BY <2>3, <3>1 DEF PeriodsOf
      <4>2. PeriodsOf(m)' = {} \/ (y \in PeriodsOf(m)' /\ calendar'[y][m] = "open")
        BY <2>3, <4>1 DEF PeriodsOf
      <4> QED BY <4>2 DEF OpenForPost
    <3>2. ASSUME NEW z \in PeriodsOf(m), calendar[z][m] = "open" PROVE OpenForPost(m)'
      <4>1. z \in Years /\ z # y
        BY <2>3, <3>2 DEF PeriodsOf
      <4>2. z \in PeriodsOf(m)' /\ calendar'[z][m] = "open"
        BY <2>3, <3>2, <4>1 DEF PeriodsOf
      <4> QED BY <4>2 DEF OpenForPost
    <3> QED BY <2>4, <3>1, <3>2 DEF OpenForPost
  <2>5. \A z \in Years, m \in Months : calendar'[z][m] = "locked" => calendar[z][m] = "locked"
    BY <2>3
  <2> QED BY <2>1, <2>4, <2>5
<1>2. CASE transition(t)
  <2>1. PICK y \in Years, m \in Months, to \in Statuses :
            y = request[t].year /\ m = request[t].month /\ to = request[t].to
    BY <1>2, Underway DEF transition
  <2> DEFINE months == IF to = "open" THEN {} ELSE {m}
  <2>2. /\ End(t, months) /\ months \in SUBSET Months
        /\ calendar'[y][m] = to
        /\ \A z \in Years, n \in Months : (z # y \/ n # m) => calendar'[z][n] = calendar[z][n]
    BY <1>2, <2>1 DEF transition, TypeOK
  <2>3. ASSUME NEW n \in Months, OpenForPost(n), n \notin months PROVE OpenForPost(n)'
    <3>1. CASE n = m
      <4>1. to = "open" /\ y \in PeriodsOf(n)'
        BY <2>2, <2>3, <3>1 DEF PeriodsOf
      <4> QED BY <2>2, <3>1, <4>1 DEF OpenForPost
    <3>2. CASE n # m
      <4>1. \A z \in Years : calendar'[z][n] = calendar[z][n]
        BY <2>2, <3>2
      <4> QED BY <2>3, <4>1 DEF OpenForPost, PeriodsOf
    <3> QED BY <3>1, <3>2
  <2>4. \A z \in Years, n \in Months : calendar'[z][n] = "locked" => calendar[z][n] = "locked" \/ n \in months
    BY <2>2
  <2> QED BY <2>2, <2>3, <2>4
<1> QED BY <1>1, <1>2

\* The lines of an entry name accounts that exist: the foreign key.
LEMMA LinesStep == TypeOK /\ LocksHeld /\ LinesExist /\ [Next]_vars => LinesExist'
<1> SUFFICES ASSUME TypeOK, LocksHeld, LinesExist, [Next]_vars PROVE LinesExist'
  OBVIOUS
<1>1. ASSUME entries' = entries, \A a \in Accounts : chart[a].state # "none" => chart'[a].state # "none"
      PROVE  LinesExist'
  BY <1>1 DEF LinesExist, Exists, AccountsExist, AccountsOf
<1>2. CASE \E t \in Threads : Checks(t)
  BY <1>1, <1>2, CheckedRequest DEF Begin
<1>3. CASE \E t \in Threads : WritesEntry(t)
  <2>1. PICK t \in Threads : WritesEntry(t)
    BY <1>3
  <2>2. chart' = chart
    BY <2>1, WriteShape
  <2>3. PICK e \in Ids : Drafts(t, e) \/ \E r \in Ids : Reverses(t, e, r)
    BY <2>1, EntryWrite
  <2> SUFFICES ASSUME NEW x \in Ids, Exists(x)' PROVE AccountsExist(entries'[x].lines)
    BY <2>2 DEF LinesExist, AccountsExist, AccountsOf
  <2>4. CASE entries'[x] = entries[x]
    BY <2>4 DEF LinesExist, Exists
  <2>5. CASE Drafts(t, e) /\ x = e
    BY <2>5 DEF Drafts, LinesExist, Exists
  <2>6. ASSUME NEW r \in Ids, Reverses(t, e, r), x \in {e, r} PROVE AccountsExist(entries'[x].lines)
    <3>1. Exists(e) /\ entries[e].lines \in [Accounts -> Int]
      BY <2>6, StatusStored DEF Reverses, Entry
    <3>2. AccountsExist(entries[e].lines)
      BY <3>1 DEF LinesExist
    <3>3. \A a \in Accounts : Mirrored(entries[e].lines)[a] # 0 => entries[e].lines[a] # 0
      BY <3>1 DEF Mirrored
    <3> QED BY <2>6, <3>2, <3>3 DEF Reverses, AccountsExist, AccountsOf
  <2> QED BY <2>3, <2>4, <2>5, <2>6 DEF Drafts, Reverses
<1>4. CASE \E t \in Threads : open_account(t) \/ delete_account(t)
  <2>1. PICK t \in Threads : open_account(t) \/ delete_account(t)
    BY <1>4
  <2>2. request[t].account \in Accounts
    BY <2>1, RequestFields DEF open_account, delete_account, Finish, TypeOK
  <2>3. CASE open_account(t)
    BY <1>1, <2>2, <2>3 DEF open_account, TypeOK
  <2>4. CASE delete_account(t)
    <3>1. /\ entries' = entries /\ Carries(request[t].account) = {}
          /\ \A a \in Accounts : a # request[t].account => chart'[a] = chart[a]
      BY <2>4 DEF delete_account, TypeOK
    <3> QED BY <3>1 DEF LinesExist, Exists, AccountsExist, AccountsOf, Carries
  <2> QED BY <2>1, <2>3, <2>4
<1>5. CASE \E t \in Threads : create_year(t) \/ transition(t)
  BY <1>1, <1>5 DEF create_year, transition
<1>6. CASE \E t \in Threads : abandon(t)
  BY <1>1, <1>6 DEF abandon
<1>7. CASE \E a \in Accounts : activate(a)
  BY <1>1, <1>7 DEF activate, TypeOK
<1>8. CASE UNCHANGED vars
  BY <1>1, <1>8 DEF vars
<1> QED BY <1>2, <1>3, <1>4, <1>5, <1>6, <1>7, <1>8, StepShape

\* Every step keeps what the requests have read true, or they miss it.
LEMMA MissedStep == TypeOK /\ LocksHeld /\ MissedInv /\ [Next]_vars => MissedInv'
<1> SUFFICES ASSUME TypeOK, LocksHeld, MissedInv, [Next]_vars PROVE MissedInv'
  OBVIOUS
<1>1. LinesExist'
  BY LinesStep DEF MissedInv
<1> SUFFICES ASSUME NEW u \in Threads PROVE OpenOrMissed(u)' /\ ActiveOrMissed(u)'
  BY <1>1 DEF MissedInv
<1>u. /\ request[u].op \in Posting => MonthOf(request[u]) \in Months
      /\ request[u].op = "transition" => request[u].year \in Years /\ request[u].month \in Months
  BY Underway
<1>2. ASSUME UNCHANGED << calendar, missed, chart >>, request'[u] = request[u], entries' = entries
      PROVE  OpenOrMissed(u)' /\ ActiveOrMissed(u)'
  <2>1. \A m \in Months : OpenForPost(m) => OpenForPost(m)'
    BY <1>2 DEF OpenForPost, PeriodsOf
  <2> QED BY <1>2, <1>u, <2>1, WaitingMisses
<1>3. CASE \E t \in Threads : Checks(t)
  <2>1. PICK t \in Threads : Checks(t)
    BY <1>3
  <2>2. PICK r : Begin(t, r) /\ ChartCheck(r) /\ CalendarCheck(r)
    BY <2>1, CheckedRequest
  <2>3. CASE u = t
    BY <2>2, <2>3, CheckedMissesNothing
  <2>4. CASE u # t
    BY <1>2, <2>2, <2>4 DEF Begin, TypeOK
  <2> QED BY <2>3, <2>4
<1>4. ASSUME NEW t \in Threads, NEW months \in SUBSET Months, End(t, months),
             request[u].op = "post" /\ u # t => entries'[request[u].entry] = entries[request[u].entry],
             \A m \in Months : OpenForPost(m) => OpenForPost(m)' \/ m \in months,
             \A y \in Years, m \in Months :
                 calendar'[y][m] = "locked" => calendar[y][m] = "locked" \/ m \in months,
             \A a \in Accounts : chart'[a].state = "inactive" => chart[a].state = "inactive"
      PROVE  OpenOrMissed(u)' /\ ActiveOrMissed(u)'
  <2>1. CASE u = t
    BY <1>4, <2>1, IdleMisses DEF End, TypeOK
  <2>2. CASE u # t /\ request[u] = Idle
    BY <1>4, <2>2, EndMisses, IdleMisses
  <2>3. CASE u # t /\ request[u] # Idle
    <3>1. /\ request'[u] = request[u] /\ missed'[u].months = missed[u].months \cup months
          /\ missed'[u].accounts = missed[u].accounts
      BY <1>4, <2>3, EndMisses
    <3> QED BY <1>4, <1>u, <2>3, <3>1, WaitingMisses
  <2> QED BY <2>1, <2>2, <2>3
<1>5. ASSUME calendar' = calendar
      PROVE  /\ \A m \in Months : OpenForPost(m) => OpenForPost(m)'
             /\ \A y \in Years, m \in Months : calendar'[y][m] = "locked" => calendar[y][m] = "locked"
  BY <1>5 DEF OpenForPost, PeriodsOf
<1>6. CASE \E t \in Threads : WritesEntry(t)
  <2>1. PICK t \in Threads : WritesEntry(t)
    BY <1>6
  <2>2. End(t, {}) /\ UNCHANGED << chart, calendar >>
    BY <2>1 DEF WritesEntry, Finish, create_draft, update_draft, delete_draft, post, create_posted, reverse
  <2>3. u # t /\ request[u].op = "post" => entries'[request[u].entry] = entries[request[u].entry]
    BY <2>1, PostedEntryStands
  <2> QED BY <1>4, <1>5, <2>2, <2>3
<1>7. CASE \E t \in Threads : open_account(t) \/ delete_account(t) \/ abandon(t)
  <2>1. PICK t \in Threads : open_account(t) \/ delete_account(t) \/ abandon(t)
    BY <1>7
  <2>2. End(t, {}) /\ entries' = entries /\ calendar' = calendar
    BY <2>1 DEF open_account, delete_account, abandon, Finish
  <2>3. \A a \in Accounts : chart'[a].state = "inactive" => chart[a].state = "inactive"
    <3>1. CASE abandon(t)
      BY <3>1 DEF abandon
    <3>2. CASE open_account(t) \/ delete_account(t)
      <4>1. PICK x, row : chart' = [chart EXCEPT ![x] = row] /\ row.state # "inactive"
        BY <3>2 DEF open_account, delete_account
      <4>2. \A a \in Accounts : chart'[a] = row \/ chart'[a] = chart[a]
        BY <4>1 DEF TypeOK
      <4> QED BY <4>1, <4>2
    <3> QED BY <2>1, <3>1, <3>2
  <2> QED BY <1>4, <1>5, <2>2, <2>3
<1>8. CASE \E t \in Threads : create_year(t) \/ transition(t)
  <2>1. PICK t \in Threads : create_year(t) \/ transition(t)
    BY <1>8
  <2>2. entries' = entries /\ chart' = chart
    BY <2>1 DEF create_year, transition
  <2>3. PICK months \in SUBSET Months :
          /\ End(t, months)
          /\ \A m \in Months : OpenForPost(m) => OpenForPost(m)' \/ m \in months
          /\ \A y \in Years, m \in Months :
                calendar'[y][m] = "locked" => calendar[y][m] = "locked" \/ m \in months
    BY <2>1, OpenStays
  <2> QED BY <1>4, <2>2, <2>3
<1>9. CASE \E a \in Accounts : activate(a)
  <2>1. PICK a \in Accounts : activate(a)
    BY <1>9
  <2>2. PICK state \in {"active", "inactive"}, retired \in SUBSET Accounts :
          /\ chart' = [chart EXCEPT ![a].state = state]
          /\ retired = IF state = "inactive" THEN {a} ELSE {}
          /\ missed' = Miss({}, retired)
    BY <2>1 DEF activate
  <2>3. UNCHANGED << entries, calendar, request >>
    BY <2>1 DEF activate
  <2>4. \A x \in Accounts : chart'[x].state = "inactive" => chart[x].state = "inactive" \/ x \in retired
    BY <2>2 DEF TypeOK
  <2>5. CASE request[u] = Idle
    BY <2>3, <2>5, IdleMisses
  <2>6. CASE request[u] # Idle
    <3>1. missed'[u].months = missed[u].months /\ missed'[u].accounts = missed[u].accounts \cup retired
      BY <2>2, <2>6 DEF Miss
    <3> QED BY <1>5, <1>u, <2>3, <2>4, <3>1, WaitingMisses
  <2> QED BY <2>5, <2>6
<1>10. CASE UNCHANGED vars
  BY <1>2, <1>10 DEF vars
<1> QED BY <1>3, <1>6, <1>7, <1>8, <1>9, <1>10, StepShape

\* The inductive invariant.
LEMMA MissedInvariant == Spec => [](TypeOK /\ LocksHeld /\ MissedInv)
<1>1. Init => MissedInv
  BY DEF Init, MissedInv, LinesExist, Exists, OpenOrMissed, ActiveOrMissed, Idle, Posting
<1> QED BY <1>1, MissedStep, LocksInvariant, PTL DEF Spec

\* A write ends the request of the thread.
LEMMA WriterEnds ==
    ASSUME TypeOK, NEW t \in Threads, WritesEntry(t)
    PROVE  request'[t] # request[t]
<1>1. request'[t] = Idle /\ request[t].op \in Writing
  BY WriteShape DEF TypeOK
<1> QED BY <1>1 DEF Idle, Writing

\* Nothing is posted into a month that is closed by requests that were not
\* underway at its close.
LEMMA ClosedMonthsKeep ==
    ASSUME TypeOK, LocksHeld, MissedInv, TypeOK', [Next]_vars,
           NEW m \in Months, ~OpenForPost(m), ~UnderwayAtClose(m),
           NEW a \in Accounts
    PROVE  Posted(a, m)' = Posted(a, m)
<1>2. ASSUME \A x \in Ids : /\ (InLedger(x)' /\ entries'[x].date = m) <=> (InLedger(x) /\ entries[x].date = m)
                            /\ InLedger(x) => entries'[x].lines = entries[x].lines
      PROVE  Posted(a, m)' = Posted(a, m)
  <2> DEFINE S == { x \in Ledger : entries[x].date = m }
  <2>1. S' = S
    BY <1>2 DEF Ledger
  <2>2. \A x \in S : entries'[x].lines[a] = entries[x].lines[a]
    BY <1>2 DEF Ledger
  <2> QED BY <2>1, <2>2 DEF Posted
<1>3. CASE \E t \in Threads : WritesEntry(t)
  <2>1. PICK t \in Threads : WritesEntry(t)
    BY <1>3
  <2>2. PICK e \in Ids : Drafts(t, e) \/ \E r \in Ids : Reverses(t, e, r)
    BY <2>1, EntryWrite
  <2>3. request[t].op \in Posting => MonthOf(request[t]) # m
    <3>1. m \notin missed[t].months
      BY <2>1, WriterEnds DEF UnderwayAtClose
    <3> QED BY <3>1 DEF MissedInv, OpenOrMissed
  <2>4. CASE Drafts(t, e)
    <3>1. ~InLedger(e)
      BY <2>4 DEF Drafts, InLedger
    <3>2. InLedger(e)' => entries'[e].date # m
      BY <2>3, <2>4 DEF Drafts, InLedger, Status, Exists, Posting
    <3>3. \A x \in Ids : x # e => entries'[x] = entries[x] /\ InLedger(x)' = InLedger(x)
      BY <2>4 DEF Drafts, InLedger, Status, Exists
    <3> QED BY <1>2, <3>1, <3>2, <3>3
  <2>5. ASSUME NEW r \in Ids, Reverses(t, e, r) PROVE Posted(a, m)' = Posted(a, m)
    <3>1. InLedger(e) /\ ~InLedger(r)
      BY <2>5 DEF Reverses, InLedger
    <3>2. /\ entries'[e].date = entries[e].date /\ entries'[e].lines = entries[e].lines
          /\ entries'[e] \in Entry /\ entries'[e].status = "reversed"
      BY <2>5 DEF Reverses
    <3>3. InLedger(e)'
      BY <3>2, NoneAssumption DEF InLedger, Status, Exists
    <3>4. entries'[r].date # m
      BY <2>3, <2>5 DEF Reverses, MonthOf, Posting
    <3>5. \A x \in Ids : x # e /\ x # r => entries'[x] = entries[x] /\ InLedger(x)' = InLedger(x)
      BY <2>5 DEF Reverses, InLedger, Status, Exists
    <3> QED BY <1>2, <3>1, <3>2, <3>3, <3>4, <3>5
  <2> QED BY <2>2, <2>4, <2>5
<1>4. CASE entries' = entries
  BY <1>4 DEF Posted, Ledger, InLedger, Status, Exists
<1>5. CASE ~\E t \in Threads : WritesEntry(t)
  <2>1. entries' = entries
    <3>1. ASSUME NEW t \in Threads, Checks(t) PROVE entries' = entries
      BY <3>1, CheckedRequest DEF Begin
    <3> QED BY <1>5, <3>1, StepShape DEF open_account, delete_account, create_year, transition,
          abandon, activate, vars
  <2> QED BY <1>4, <2>1
<1> QED BY <1>3, <1>5

\* A locked month stays locked: a request that read where it moves a period
\* from after the locking finds it locked.
LEMMA LockedKeeps ==
    ASSUME TypeOK, LocksHeld, MissedInv, [Next]_vars,
           NEW y \in Years, NEW m \in Months, calendar[y][m] = "locked", ~UnderwayAtClose(m)
    PROVE  calendar'[y][m] = "locked"
<1>1. CASE \E t \in Threads : create_year(t) \/ transition(t)
  <2>1. PICK t \in Threads : create_year(t) \/ transition(t)
    BY <1>1
  <2>2. request[t] \in Requests
    BY DEF TypeOK
  <2>3. CASE create_year(t)
    <3>1. request[t].year \in Years /\ request[t].year # y
      BY <2>2, <2>3, RequestFields, NoneAssumption DEF create_year, Finish, NoPeriods, Statuses
    <3> QED BY <2>3, <3>1 DEF create_year, TypeOK
  <2>4. CASE transition(t)
    <3>1. request[t].op = "transition" /\ request[t].year \in Years /\ request[t].month \in Months
      BY <2>2, <2>4, RequestFields DEF transition
    <3>2. request'[t] # request[t]
      BY <2>4, <3>1 DEF transition, End, TypeOK, Idle
    <3>3. ~(request[t].year = y /\ request[t].month = m)
      BY <3>1, <3>2 DEF UnderwayAtClose, MissedInv, OpenOrMissed
    <3> QED BY <2>4, <3>1, <3>3 DEF transition, TypeOK
  <2> QED BY <2>1, <2>3, <2>4
<1>2. CASE ~\E t \in Threads : create_year(t) \/ transition(t)
  <2>1. calendar' = calendar
    <3>1. ASSUME NEW t \in Threads, Checks(t) PROVE calendar' = calendar
      BY <3>1, CheckedRequest DEF Begin
    <3>2. ASSUME NEW t \in Threads, WritesEntry(t) PROVE calendar' = calendar
      BY <3>2, WriteShape
    <3> QED BY <1>2, <3>1, <3>2, StepShape DEF open_account, delete_account, abandon, activate, vars
  <2> QED BY <2>1
<1> QED BY <1>1, <1>2

\* An entry comes to the ledger on accounts that were active when it was
\* checked, and still are or were retired since.
LEMMA RetiredKeep ==
    ASSUME TypeOK, LocksHeld, MissedInv, MissedInv', [Next]_vars,
           NEW e \in Ids, InLedger(e)', ~InLedger(e), entries'[e].reverses = None,
           NEW a \in Accounts, entries'[e].lines[a] # 0
    PROVE  chart[a].state = "active" \/ (chart[a].state = "inactive" /\ UnderwayAtRetirement(a))
<1>1. entries'[e] # entries[e]
  BY DEF InLedger, Status, Exists
<1>2. PICK t \in Threads : WritesEntry(t)
  <2>1. ASSUME NEW t \in Threads, Checks(t) PROVE entries' = entries
    BY <2>1, CheckedRequest DEF Begin
  <2> QED BY <1>1, <2>1, StepShape DEF open_account, delete_account, create_year, transition,
          abandon, activate, vars
<1>3. PICK x \in Ids : Drafts(t, x) \/ \E r \in Ids : Reverses(t, x, r)
  BY <1>2, EntryWrite
<1>4. CASE Drafts(t, x)
  <2>1. x = e /\ Exists(e)' /\ entries'[e].status = "posted"
    BY <1>1, <1>4 DEF Drafts, InLedger, Status, Exists
  <2>2. request[t].op \in {"post", "create_posted"} /\ a \in AccountsOf(LinesOf(request[t]))
    BY <1>4, <2>1 DEF Drafts, Exists, AccountsOf
  <2>3. chart[a].state = "inactive" => UnderwayAtRetirement(a)
    BY <1>2, <2>2, WriterEnds DEF MissedInv, ActiveOrMissed, UnderwayAtRetirement
  <2>4. chart' = chart
    BY <1>2, WriteShape
  <2>5. chart[a].state # "none"
    BY <2>1, <2>4 DEF MissedInv, LinesExist, AccountsExist, AccountsOf
  <2>6. chart[a].state \in {"none", "active", "inactive"}
    BY DEF TypeOK
  <2> QED BY <2>3, <2>5, <2>6
<1>5. ASSUME NEW r \in Ids, Reverses(t, x, r) PROVE FALSE
  <2>1. e = r
    BY <1>1, <1>5 DEF Reverses, InLedger
  <2> QED BY <1>5, <2>1, JournalAssumption DEF Reverses
<1> QED BY <1>3, <1>4, <1>5

\* Whatever requests overlap: nothing comes into a closed month or onto a
\* retired account, and no month is unlocked, but by a request that had done
\* its checks before the close, the retirement or the locking and commits after
\* it.  The reads of the calendar and of the chart lock nothing, so such a
\* request cannot be ruled out; one that is let in later always is
\* (ensure_open_for_post, FiscalService::transition, validate_lines).
THEOREM ClosedBooksStayClosed == Spec => ClosedBooksRest
<1>1. TypeOK /\ LocksHeld /\ MissedInv /\ TypeOK' /\ [Next]_vars =>
        [\A m \in Months :
           ~OpenForPost(m) =>
              \/ \A a \in Accounts : Activity(a, m)' = Activity(a, m)
              \/ UnderwayAtClose(m)]_vars
  <2> SUFFICES ASSUME TypeOK, LocksHeld, MissedInv, TypeOK', [Next]_vars,
                      NEW m \in Months, ~OpenForPost(m), ~UnderwayAtClose(m), NEW a \in Accounts
               PROVE  Activity(a, m)' = Activity(a, m)
    OBVIOUS
  <2>1. Posted(a, m)' = Posted(a, m)
    BY ClosedMonthsKeep
  <2> QED BY <2>1 DEF Activity
<1>2. TypeOK /\ LocksHeld /\ MissedInv /\ [Next]_vars =>
        [\A y \in Years, m \in Months :
           calendar[y][m] = "locked" => calendar'[y][m] = "locked" \/ UnderwayAtClose(m)]_vars
  BY LockedKeeps
<1>3. TypeOK /\ LocksHeld /\ MissedInv /\ MissedInv' /\ [Next]_vars =>
        [\A e \in Ids : InLedger(e)' /\ ~InLedger(e) /\ entries'[e].reverses = None =>
           \A a \in Accounts : entries'[e].lines[a] # 0 =>
              chart[a].state = "active" \/ (chart[a].state = "inactive" /\ UnderwayAtRetirement(a))]_vars
  BY RetiredKeep
<1> QED BY <1>1, <1>2, <1>3, MissedInvariant, PTL
      DEF Spec, ClosedBooksRest, ClosedMonthsAreFinal, LockedForever, RetiredAccountsRest

=============================================================================
