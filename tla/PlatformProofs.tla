---------------------------- MODULE PlatformProofs ----------------------------
(***************************************************************************)
(* What a server keeps to for every number of companies, users, requests   *)
(* and days (MCIdentity): companies are registered whole or not at all,    *)
(* whoever asks whether something is allowed is told the same, what is     *)
(* given up or taken back stays so, a company's rules are never weaker     *)
(* than the server's and the trail is pruned as chosen; and what the       *)
(* outbox guarantees for every number of documents, sweepers, crashes and  *)
(* closings (GlOutbox): a request is booked at most once and never lost,   *)
(* and the outbox implements the abstract books.                           *)
(*                                                                         *)
(* Each part has the same course: the inductive invariant, one lemma per   *)
(* action that shows that the action keeps it, the theorem.                *)
(***************************************************************************)
EXTENDS MCIdentity, GlOutbox, FiniteSetTheorems, SequenceTheorems, TLAPS

----------------------------------------------------------------------------
(* Companies, the directory and the cache of a server.                     *)

\* The steps of a registration whose row is the one under its name.
Holding == {"recorded", "connected", "user", "invalidate", "evict", "delete"}
Crowding == {"counted", "cut", "ready"}

\* A name is given once, with the first step.
NamesGiven ==
    \A r \in Registrations : IF reg[r].step = "idle" THEN reg[r].name = None ELSE reg[r].name \in Names

\* A row belongs to the registration that has its name; nothing but a write of
\* a registered company touches it.
RowsOwned ==
    /\ \A n \in Names : tenant[n] # None =>
         LET r == tenant[n].id IN
           /\ reg[r].name = n /\ reg[r].step \in Holding \cup {"done", "refused"}
           /\ reg[r].step = "refused" => r \in stranded
           /\ provision => r \in databases
    /\ \A r \in Registrations : reg[r].step \in Holding \cup {"done"} =>
         /\ tenant[reg[r].name] # None /\ tenant[reg[r].name].id = r
         /\ reg[r].step \in Holding => tenant[reg[r].name].active
    /\ \A r \in Registrations : r \in admins <=> reg[r].step = "done"

DatabasesKept ==
    /\ \A r \in databases : provision /\ reg[r].step \notin {"idle", "checked", "counted"}
    /\ \A r \in databases : reg[r].step \in {"done", "refused"} => T!Recorded(r) \/ r \in stranded
    /\ provision => \A r \in Registrations : reg[r].step \in {"cut", "ready"} => r \in databases

Taken == { n \in Names : tenant[n] # None }

CountHolds ==
    /\ IsFiniteSet(Taken)
    /\ ~crowded =>
         /\ Cardinality(Taken) <= MaxTenants
         /\ \A r \in Registrations : reg[r].step \in Crowding => Cardinality(Taken) < MaxTenants
         /\ \A r, s \in Registrations : reg[r].step \in Crowding /\ reg[s].step \in Crowding => r = s

WritersName ==
    \A w \in Writers : write[w] = T!NoWrite \/
        (write[w].step # "idle" /\ write[w].name \in Names /\ tenant[write[w].name] # None /\ tenant[write[w].name].id \in admins)

RegInv == T!TypeOK /\ NamesGiven /\ RowsOwned /\ DatabasesKept /\ CountHolds /\ WritersName

\* A request holds a row of the company it names, and the one in the directory
\* unless a write has overtaken it.
LooksKnow ==
    \A q \in Lookups : look[q] = T!NoLook \/
        /\ look[q].step # "idle" /\ look[q].name \in Names /\ look[q].row \in T!Rows
        /\ reg[look[q].row.id].name = look[q].name
        /\ T!Writing(look[q].name) => look[q].late
        /\ look[q].late \/ look[q].row = tenant[look[q].name]

CacheKnows ==
    \A n \in Names : cache[n] # None =>
        /\ reg[cache[n].id].name = n
        /\ n \in stale \/ cache[n] = tenant[n] \/ \E w \in Writers : write[w].step = "updated" /\ write[w].name = n
        /\ \A r \in Registrations : reg[r].name = n /\ reg[r].step \in {"evict", "delete"} => n \in stale

PoolsKnow ==
    \A r \in pools :
        /\ reg[r].name \in Names
        /\ r \notin lingering =>
             /\ reg[r].step # "delete" /\ tenant[reg[r].name] # None /\ tenant[reg[r].name].id = r
             /\ tenant[reg[r].name].active \/ \E w \in Writers : write[w].name = reg[r].name /\ write[w].evicts

ServeInv == LooksKnow /\ CacheKnows /\ PoolsKnow

TenancyInv == RegInv /\ ServeInv

tenancyVars == << provision, databases, tenant, admins, reg, cache, pools, look, write, stale, lingering, stranded, crowded, faults >>

RegRow == [step : T!Underway \cup {"idle", "done", "refused"}, name : Names \cup {None}]
LookRow == [step : {"idle", "read", "resolved"}, name : Names \cup {None}, row : T!Rows \cup {None}, late : BOOLEAN]
WriteRow == [step : {"idle", "updated", "evict"}, name : Names \cup {None}, evicts : BOOLEAN]

LEMMA TenancyTypes ==
    T!TypeOK <=>
        /\ provision \in BOOLEAN /\ crowded \in BOOLEAN
        /\ databases \subseteq Registrations /\ admins \subseteq Registrations
        /\ pools \subseteq Registrations /\ stranded \subseteq Registrations /\ stale \subseteq Names /\ lingering \subseteq Registrations
        /\ tenant \in [Names -> T!Rows \cup {None}] /\ cache \in [Names -> T!Rows \cup {None}]
        /\ reg \in [Registrations -> RegRow] /\ look \in [Lookups -> LookRow] /\ write \in [Writers -> WriteRow]
        /\ faults \in 0..MaxFaults
BY DEF T!TypeOK, RegRow, LookRow, WriteRow

LEMMA TenantIds == ASSUME T!TypeOK, NEW n \in Names, tenant[n] # None PROVE tenant[n] \in T!Rows /\ tenant[n].id \in Registrations
BY TenancyTypes DEF T!Rows

\* A registration goes on to a step.
LEMMA RegGoes ==
    ASSUME T!TypeOK, NEW r \in Registrations, NEW step \in T!Underway \cup {"idle", "done", "refused"}, T!Goes(r, step)
    PROVE  /\ reg'[r].step = step /\ reg'[r].name = reg[r].name
           /\ \A x \in Registrations \ {r} : reg'[x] = reg[x]
           /\ reg' \in [Registrations -> RegRow]
<1>1. reg \in [Registrations -> RegRow] /\ reg' = [reg EXCEPT ![r] = [reg[r] EXCEPT !.step = step]]
  BY TenancyTypes DEF T!Goes
<1>2. [reg[r] EXCEPT !.step = step] \in RegRow /\ [reg[r] EXCEPT !.step = step].step = step /\ [reg[r] EXCEPT !.step = step].name = reg[r].name
  BY <1>1 DEF RegRow
<1> QED BY <1>1, <1>2

\* What a step of one registration keeps, the directory left as it is.
LEMMA StepKeeps ==
    ASSUME RegInv, NEW r \in Registrations, T!TypeOK', tenant' = tenant, write' = write, provision' = provision,
           \A x \in Registrations \ {r} : reg'[x] = reg[x] /\ (x \in databases' <=> x \in databases) /\ (x \in admins' <=> x \in admins),
           IF reg'[r].step = "idle" THEN reg'[r].name = None ELSE reg'[r].name \in Names,
           reg[r].step # "idle" => reg'[r].name = reg[r].name,
           stranded \subseteq stranded', crowded => crowded',
           r \in admins' <=> reg'[r].step = "done",
           r \in admins => r \in admins',
           \/ /\ reg[r].step \in Holding /\ databases' = databases
              /\ reg'[r].step \in Holding \cup {"done"} \/ (reg'[r].step = "refused" /\ r \in stranded')
           \/ /\ reg[r].step \notin Holding \cup {"done", "refused"} /\ reg'[r].step \notin Holding \cup {"done"}
              /\ r \in databases' => provision /\ reg'[r].step \notin {"idle", "checked", "counted"}
              /\ r \in databases' /\ reg'[r].step = "refused" => r \in stranded'
              /\ provision /\ reg'[r].step \in {"cut", "ready"} => r \in databases',
           ~crowded' /\ reg'[r].step \in Crowding =>
              \/ reg[r].step \in Crowding
              \/ Cardinality(Taken) < MaxTenants /\ \A x \in Registrations : reg[x].step \notin Crowding
    PROVE  RegInv'
<1> USE IdentityAssumption
<1>1. NamesGiven'
  BY DEF RegInv, NamesGiven
<1>2. RowsOwned'
  <2>1. ASSUME NEW n \in Names, tenant'[n] # None
        PROVE  /\ reg'[tenant'[n].id].name = n /\ reg'[tenant'[n].id].step \in Holding \cup {"done", "refused"}
               /\ reg'[tenant'[n].id].step = "refused" => tenant'[n].id \in stranded'
               /\ provision' => tenant'[n].id \in databases'
    <3>1. tenant[n].id \in Registrations
      BY <2>1, TenantIds DEF RegInv
    <3>2. /\ reg[tenant[n].id].name = n /\ reg[tenant[n].id].step \in Holding \cup {"done", "refused"}
          /\ reg[tenant[n].id].step = "refused" => tenant[n].id \in stranded
          /\ provision => tenant[n].id \in databases
      BY <2>1 DEF RegInv, RowsOwned
    <3>3. CASE tenant[n].id = r
      BY <3>1, <3>2, <3>3 DEF Holding
    <3>4. CASE tenant[n].id # r
      BY <3>1, <3>2, <3>4
    <3> QED BY <3>3, <3>4
  <2>2. ASSUME NEW x \in Registrations, reg'[x].step \in Holding \cup {"done"}
        PROVE  /\ tenant'[reg'[x].name] # None /\ tenant'[reg'[x].name].id = x
               /\ reg'[x].step \in Holding => tenant'[reg'[x].name].active
    <3>1. reg[x].step \in Holding \cup {"done"} /\ reg'[x].name = reg[x].name /\ (reg'[x].step \in Holding => reg[x].step \in Holding)
      BY <2>2 DEF Holding
    <3> QED BY <3>1 DEF RegInv, RowsOwned
  <2>3. \A x \in Registrations : x \in admins' <=> reg'[x].step = "done"
    BY DEF RegInv, RowsOwned
  <2> QED BY <2>1, <2>2, <2>3 DEF RowsOwned
<1>3. DatabasesKept'
  <2>0. \A x \in Registrations : T!Recorded(x)' <=> T!Recorded(x)
    BY DEF T!Recorded
  <2>1. ASSUME reg[r].step \in Holding PROVE T!Recorded(r) /\ provision => r \in databases
    BY <2>1, TenancyTypes DEF RegInv, RowsOwned, NamesGiven, T!Recorded, Holding
  <2>2. databases' \subseteq Registrations
    BY DEF T!TypeOK
  <2>3. \A x \in databases' : provision' /\ reg'[x].step \notin {"idle", "checked", "counted"}
    BY <2>2 DEF RegInv, DatabasesKept, Holding
  <2>4. ASSUME NEW x \in databases', reg'[x].step \in {"done", "refused"} PROVE T!Recorded(x)' \/ x \in stranded'
    <3>1. CASE x = r
      <4>1. CASE reg[r].step \in Holding
        <5>1. T!Recorded(r)
          BY <4>1, TenancyTypes DEF RegInv, RowsOwned, NamesGiven, T!Recorded, Holding
        <5> QED BY <2>0, <3>1, <5>1
      <4>2. CASE reg[r].step \notin Holding
        BY <2>4, <3>1, <4>2
      <4> QED BY <4>1, <4>2
    <3>2. CASE x # r
      BY <2>0, <2>2, <2>4, <3>2 DEF RegInv, DatabasesKept
    <3> QED BY <3>1, <3>2
  <2>5. provision' => \A x \in Registrations : reg'[x].step \in {"cut", "ready"} => x \in databases'
    BY DEF RegInv, DatabasesKept, Holding
  <2> QED BY <2>3, <2>4, <2>5 DEF DatabasesKept
<1>4. CountHolds'
  <2>1. Taken' = Taken
    BY DEF Taken
  <2>2. ~crowded' => \A x \in Registrations : reg'[x].step \in Crowding =>
                        Cardinality(Taken) < MaxTenants
    BY DEF RegInv, CountHolds
  <2>3. ~crowded' => \A x, y \in Registrations : reg'[x].step \in Crowding /\ reg'[y].step \in Crowding => x = y
    BY DEF RegInv, CountHolds
  <2> QED BY <2>1, <2>2, <2>3 DEF RegInv, CountHolds
<1>5. WritersName'
  <2>1. admins \subseteq admins'
    BY TenancyTypes DEF RegInv
  <2> QED BY <2>1 DEF RegInv, WritersName
<1> QED BY <1>1, <1>2, <1>3, <1>4, <1>5 DEF RegInv

\* And what it keeps of the cache and the pools, when it writes no row.
LEMMA ServeKeeps ==
    ASSUME TenancyInv, T!TypeOK', NEW r \in Registrations, UNCHANGED << tenant, write, cache, look, stale, lingering >>,
           \A x \in Registrations \ {r} : reg'[x] = reg[x],
           reg[r].step # "idle" => reg'[r].name = reg[r].name,
           reg'[r].step \notin {"evict", "delete"},
           pools' = pools \/ (pools' = pools \cup {r} /\ reg[r].step \in Holding)
    PROVE  ServeInv'
<1> USE IdentityAssumption
<1>1. \A x \in Registrations : reg[x].name # None => reg'[x].name = reg[x].name
  BY DEF TenancyInv, RegInv, NamesGiven
<1>2. \A x \in Registrations : reg'[x].step \in {"evict", "delete"} => reg'[x] = reg[x]
  OBVIOUS
<1>3. LooksKnow'
  <2> SUFFICES ASSUME NEW q \in Lookups, look[q] # T!NoLook
               PROVE  /\ look[q].step # "idle" /\ look[q].name \in Names /\ look[q].row \in T!Rows
                      /\ reg'[look[q].row.id].name = look[q].name
                      /\ T!Writing(look[q].name)' => look[q].late
                      /\ look[q].late \/ look[q].row = tenant[look[q].name]
    BY DEF LooksKnow
  <2>1. /\ look[q].step # "idle" /\ look[q].name \in Names /\ look[q].row \in T!Rows
        /\ reg[look[q].row.id].name = look[q].name
        /\ T!Writing(look[q].name) => look[q].late
        /\ look[q].late \/ look[q].row = tenant[look[q].name]
    BY DEF TenancyInv, ServeInv, LooksKnow
  <2>2. look[q].row.id \in Registrations
    BY <2>1 DEF T!Rows
  <2>3. T!Writing(look[q].name)' => T!Writing(look[q].name)
    BY <1>2 DEF T!Writing
  <2> QED BY <1>1, <2>1, <2>2, <2>3
<1>4. CacheKnows'
  <2>1. \A n \in Names : cache[n] # None => cache[n].id \in Registrations
    BY TenancyTypes DEF TenancyInv, RegInv, T!Rows
  <2> QED BY <1>1, <1>2, <2>1 DEF TenancyInv, ServeInv, CacheKnows
<1>5. PoolsKnow'
  <2> SUFFICES ASSUME NEW x \in pools'
               PROVE  /\ reg'[x].name \in Names
                      /\ x \notin lingering =>
                           /\ reg'[x].step # "delete" /\ tenant[reg'[x].name] # None /\ tenant[reg'[x].name].id = x
                           /\ tenant[reg'[x].name].active \/ \E w \in Writers : write[w].name = reg'[x].name /\ write[w].evicts
    BY DEF PoolsKnow
  <2>1. x \in Registrations
    BY DEF T!TypeOK
  <2>2. CASE x \in pools
    <3>1. /\ reg[x].name \in Names
          /\ x \notin lingering =>
               /\ reg[x].step # "delete" /\ tenant[reg[x].name] # None /\ tenant[reg[x].name].id = x
               /\ tenant[reg[x].name].active \/ \E w \in Writers : write[w].name = reg[x].name /\ write[w].evicts
      BY <2>2 DEF TenancyInv, ServeInv, PoolsKnow
    <3>2. reg'[x].name = reg[x].name
      BY <1>1, <2>1, <3>1
    <3>3. reg'[x].step = "delete" => reg[x].step = "delete"
      BY <1>2, <2>1
    <3> QED BY <3>1, <3>2, <3>3
  <2>3. CASE x = r /\ reg[r].step \in Holding
    <3>1. reg[r].name \in Names /\ reg'[r].name = reg[r].name
      BY <2>3 DEF TenancyInv, RegInv, NamesGiven, Holding
    <3>2. tenant[reg[r].name] # None /\ tenant[reg[r].name].id = r /\ tenant[reg[r].name].active
      BY <2>3 DEF TenancyInv, RegInv, RowsOwned
    <3> QED BY <2>3, <3>1, <3>2
  <2> QED BY <2>2, <2>3
<1> QED BY <1>3, <1>4, <1>5 DEF ServeInv

LEMMA FaultCounted == ASSUME T!TypeOK, T!Fault PROVE faults' \in 0..MaxFaults
BY IdentityAssumption, TenancyTypes DEF T!Fault

LEMMA Check == ASSUME TenancyInv, NEW r \in Registrations, NEW n \in Names, T!check(r, n) PROVE TenancyInv'
<1> USE IdentityAssumption
<1> DEFINE given == [step |-> IF tenant[n] = None THEN "checked" ELSE "refused", name |-> n]
<1>1. /\ reg[r].step = "idle" /\ reg' = [reg EXCEPT ![r] = given]
      /\ UNCHANGED << provision, databases, admins, write, stranded, crowded, faults, tenant, cache, pools, look, stale, lingering >>
  BY DEF T!check, T!directory, T!marks
<1>2. reg \in [Registrations -> RegRow] /\ given \in RegRow /\ given.name = n /\ given.step \in {"checked", "refused"}
  BY TenancyTypes DEF TenancyInv, RegInv, RegRow, T!Underway
<1> HIDE DEF given
<1>3. /\ reg'[r].step \in {"checked", "refused"} /\ reg'[r].name = n /\ \A x \in Registrations \ {r} : reg'[x] = reg[x]
      /\ reg' \in [Registrations -> RegRow]
  BY <1>1, <1>2
<1>4. T!TypeOK'
  BY <1>1, <1>3 DEF TenancyInv, RegInv, T!TypeOK, RegRow
<1>5. r \notin databases /\ r \notin admins
  BY <1>1 DEF TenancyInv, RegInv, DatabasesKept, RowsOwned
<1>6. RegInv'
  BY <1>1, <1>3, <1>4, <1>5, StepKeeps DEF TenancyInv, Holding, Crowding
<1>7. ServeInv'
  BY <1>1, <1>3, <1>4, ServeKeeps
<1> QED BY <1>6, <1>7 DEF TenancyInv

LEMMA CountTenants == ASSUME TenancyInv, NEW r \in Registrations, T!count_tenants(r) PROVE TenancyInv'
<1> USE IdentityAssumption
<1>0. T!count = Cardinality(Taken)
  BY Zenon DEF T!count, Taken, T!Cardinality, Cardinality
<1>1. /\ reg[r].step = "checked" /\ T!Goes(r, IF Cardinality(Taken) < MaxTenants THEN "counted" ELSE "refused")
      /\ crowded' = (crowded \/ \E s \in Registrations : reg[s].step \in Crowding)
      /\ UNCHANGED << provision, databases, admins, write, stranded, faults, tenant, cache, pools, look, stale, lingering >>
  BY <1>0 DEF T!count_tenants, T!directory, T!marks, Crowding
<1>2. /\ reg'[r].step = (IF Cardinality(Taken) < MaxTenants THEN "counted" ELSE "refused") /\ reg'[r].name = reg[r].name
      /\ \A x \in Registrations \ {r} : reg'[x] = reg[x]
      /\ reg' \in [Registrations -> RegRow]
  BY <1>1, RegGoes DEF TenancyInv, RegInv, T!Underway
<1>3. T!TypeOK'
  BY <1>1, <1>2 DEF TenancyInv, RegInv, T!TypeOK, RegRow
<1>4. r \notin databases /\ r \notin admins /\ reg[r].name \in Names
  BY <1>1 DEF TenancyInv, RegInv, DatabasesKept, RowsOwned, NamesGiven
<1>6. RegInv'
  <2>1. ~crowded' /\ reg'[r].step \in Crowding => Cardinality(Taken) < MaxTenants /\ \A x \in Registrations : reg[x].step \notin Crowding
    BY <1>1, <1>2 DEF Crowding
  <2>2. reg'[r].step \in {"counted", "refused"} /\ (crowded => crowded')
    BY <1>1, <1>2
  <2> QED BY <1>1, <1>2, <1>3, <1>4, <2>1, <2>2, StepKeeps DEF TenancyInv, Holding
<1>7. ServeInv'
  <2>1. reg'[r].step \in {"counted", "refused"}
    BY <1>1, <1>2
  <2> QED BY <1>1, <1>2, <1>3, <2>1, ServeKeeps
<1> QED BY <1>6, <1>7 DEF TenancyInv

LEMMA CreateDatabase == ASSUME TenancyInv, NEW r \in Registrations, T!create_database(r) PROVE TenancyInv'
<1> USE IdentityAssumption
<1>1. /\ reg[r].step = "counted" /\ T!Goes(r, IF provision THEN "cut" ELSE "ready")
      /\ databases' = IF provision THEN databases \cup {r} ELSE databases
      /\ UNCHANGED << provision, admins, write, stranded, crowded, faults, tenant, cache, pools, look, stale, lingering >>
  BY DEF T!create_database, T!directory, T!marks
<1>2. /\ reg'[r].step = (IF provision THEN "cut" ELSE "ready") /\ reg'[r].name = reg[r].name
      /\ \A x \in Registrations \ {r} : reg'[x] = reg[x]
      /\ reg' \in [Registrations -> RegRow]
  BY <1>1, RegGoes DEF TenancyInv, RegInv, T!Underway
<1>3. T!TypeOK'
  BY <1>1, <1>2 DEF TenancyInv, RegInv, T!TypeOK, RegRow
<1>4. r \notin databases /\ r \notin admins /\ reg[r].name \in Names
  BY <1>1 DEF TenancyInv, RegInv, DatabasesKept, RowsOwned, NamesGiven
<1>5. reg'[r].step \in {"cut", "ready"}
  BY <1>2
<1>6. RegInv'
  <2>1. r \in databases' <=> provision
    BY <1>1, <1>4
  <2>2. \A x \in Registrations \ {r} : x \in databases' <=> x \in databases
    BY <1>1
  <2> QED BY <1>1, <1>2, <1>3, <1>4, <1>5, <2>1, <2>2, StepKeeps DEF TenancyInv, Holding, Crowding
<1>7. ServeInv'
  BY <1>1, <1>2, <1>3, <1>5, ServeKeeps
<1> QED BY <1>6, <1>7 DEF TenancyInv

LEMMA MigrateFresh == ASSUME TenancyInv, NEW r \in Registrations, T!migrate_fresh(r) PROVE TenancyInv'
<1> USE IdentityAssumption
<1>1. PICK step \in {"ready", "drop"} : T!Goes(r, step) /\ (UNCHANGED faults \/ T!Fault)
  BY DEF T!migrate_fresh
<1>10. /\ reg[r].step = "cut"
       /\ UNCHANGED << provision, databases, admins, write, stranded, crowded, tenant, cache, pools, look, stale, lingering >>
  BY DEF T!migrate_fresh, T!directory, T!marks
<1>2. /\ reg'[r].step = step /\ reg'[r].name = reg[r].name
      /\ \A x \in Registrations \ {r} : reg'[x] = reg[x]
      /\ reg' \in [Registrations -> RegRow]
  BY <1>1, RegGoes DEF TenancyInv, RegInv, T!Underway
<1>3. T!TypeOK'
  <2>1. faults' \in 0..MaxFaults
    BY <1>1, FaultCounted, TenancyTypes DEF TenancyInv, RegInv
  <2> QED BY <1>10, <1>2, <2>1 DEF TenancyInv, RegInv, T!TypeOK, RegRow
<1>4. (r \in databases => provision) /\ (provision => r \in databases) /\ r \notin admins /\ reg[r].name \in Names
  BY <1>10 DEF TenancyInv, RegInv, DatabasesKept, RowsOwned, NamesGiven
<1>6. RegInv'
  BY <1>10, <1>2, <1>3, <1>4, StepKeeps DEF TenancyInv, Holding, Crowding
<1>7. ServeInv'
  BY <1>10, <1>2, <1>3, ServeKeeps
<1> QED BY <1>6, <1>7 DEF TenancyInv

LEMMA DropDatabase == ASSUME TenancyInv, NEW r \in Registrations, T!drop_database(r) PROVE TenancyInv'
<1> USE IdentityAssumption
<1>1. /\ \/ databases' = databases \ {r} /\ stranded' = stranded /\ faults' = faults
         \/ databases' = databases /\ stranded' = stranded \cup {r} /\ T!Fault
      /\ reg[r].step = "drop" /\ T!Goes(r, "refused")
      /\ UNCHANGED << provision, admins, write, crowded, tenant, cache, pools, look, stale, lingering >>
  BY DEF T!drop_database, T!directory, T!marks
<1>2. /\ reg'[r].step = "refused" /\ reg'[r].name = reg[r].name
      /\ \A x \in Registrations \ {r} : reg'[x] = reg[x]
      /\ reg' \in [Registrations -> RegRow]
  BY <1>1, RegGoes DEF TenancyInv, RegInv, T!Underway
<1>3. T!TypeOK'
  <2>1. faults' \in 0..MaxFaults
    BY <1>1, FaultCounted, TenancyTypes DEF TenancyInv, RegInv
  <2>2. databases' \subseteq Registrations /\ stranded' \subseteq Registrations
    BY <1>1, TenancyTypes DEF TenancyInv, RegInv
  <2> QED BY <1>1, <1>2, <2>1, <2>2 DEF TenancyInv, RegInv, T!TypeOK, RegRow
<1>4. (r \in databases => provision) /\ r \notin admins /\ reg[r].name \in Names
  BY <1>1 DEF TenancyInv, RegInv, DatabasesKept, RowsOwned, NamesGiven
<1>5. /\ \A x \in Registrations \ {r} : x \in databases' <=> x \in databases
      /\ stranded \subseteq stranded' /\ (r \in databases' => r \in stranded' /\ r \in databases)
  BY <1>1
<1>6. RegInv'
  BY <1>1, <1>2, <1>3, <1>4, <1>5, StepKeeps DEF TenancyInv, Holding, Crowding
<1>7. ServeInv'
  BY <1>1, <1>2, <1>3, ServeKeeps
<1> QED BY <1>6, <1>7 DEF TenancyInv

LEMMA Connect == ASSUME TenancyInv, NEW r \in Registrations, T!connect(r) PROVE TenancyInv'
<1> USE IdentityAssumption
<1>1. PICK step \in {"connected", "refused"} :
        /\ T!Goes(r, step) /\ (pools' = pools \/ pools' = pools \cup {r}) /\ (faults' = faults \/ T!Fault)
        /\ \/ stranded' = stranded /\ step = "connected"
           \/ stranded' = stranded \cup {r}
  BY DEF T!connect, T!marks, T!Uncache, T!Evict
<1>10. reg[r].step = "recorded" /\ UNCHANGED << provision, databases, admins, write, crowded, tenant, cache, look, stale, lingering >>
  BY DEF T!connect, T!marks, T!Uncache, T!Evict
<1>2. /\ reg'[r].step = step /\ reg'[r].name = reg[r].name
      /\ \A x \in Registrations \ {r} : reg'[x] = reg[x]
      /\ reg' \in [Registrations -> RegRow]
  BY <1>1, RegGoes DEF TenancyInv, RegInv, T!Underway
<1>3. T!TypeOK'
  <2>1. faults' \in 0..MaxFaults
    BY <1>1, FaultCounted, TenancyTypes DEF TenancyInv, RegInv
  <2>2. pools' \subseteq Registrations /\ stranded' \subseteq Registrations
    BY <1>1, TenancyTypes DEF TenancyInv, RegInv
  <2> QED BY <1>10, <1>2, <2>1, <2>2 DEF TenancyInv, RegInv, T!TypeOK, RegRow
<1>4. r \notin admins /\ reg[r].name \in Names
  BY <1>10 DEF TenancyInv, RegInv, RowsOwned, NamesGiven
<1>5. stranded \subseteq stranded' /\ (step = "connected" \/ r \in stranded')
  BY <1>1
<1>6. RegInv'
  BY <1>10, <1>2, <1>3, <1>4, <1>5, StepKeeps DEF TenancyInv, Holding, Crowding
<1>7. ServeInv'
  BY <1>1, <1>10, <1>2, <1>3, ServeKeeps DEF Holding
<1> QED BY <1>6, <1>7 DEF TenancyInv

LEMMA CreateUser == ASSUME TenancyInv, NEW r \in Registrations, T!create_user(r) PROVE TenancyInv'
<1> USE IdentityAssumption
<1>1. PICK step \in {"user", "invalidate"} : T!Goes(r, step) /\ (faults' = faults \/ T!Fault)
  BY DEF T!create_user
<1>10. /\ reg[r].step = "connected"
       /\ UNCHANGED << provision, databases, admins, write, stranded, crowded, tenant, cache, pools, look, stale, lingering >>
  BY DEF T!create_user, T!directory, T!marks
<1>2. /\ reg'[r].step = step /\ reg'[r].name = reg[r].name
      /\ \A x \in Registrations \ {r} : reg'[x] = reg[x]
      /\ reg' \in [Registrations -> RegRow]
  BY <1>1, RegGoes DEF TenancyInv, RegInv, T!Underway
<1>3. T!TypeOK'
  <2>1. faults' \in 0..MaxFaults
    BY <1>1, FaultCounted, TenancyTypes DEF TenancyInv, RegInv
  <2> QED BY <1>10, <1>2, <2>1 DEF TenancyInv, RegInv, T!TypeOK, RegRow
<1>4. r \notin admins /\ reg[r].name \in Names
  BY <1>10 DEF TenancyInv, RegInv, RowsOwned, NamesGiven
<1>6. RegInv'
  BY <1>10, <1>2, <1>3, <1>4, StepKeeps DEF TenancyInv, Holding, Crowding
<1>7. ServeInv'
  BY <1>10, <1>2, <1>3, ServeKeeps
<1> QED BY <1>6, <1>7 DEF TenancyInv

LEMMA SeedAdmin == ASSUME TenancyInv, NEW r \in Registrations, T!seed_admin(r) PROVE TenancyInv'
<1> USE IdentityAssumption
<1>1. PICK step \in {"done", "invalidate"} :
        /\ T!Goes(r, step) /\ (faults' = faults \/ T!Fault)
        /\ admins' = IF step = "done" THEN admins \cup {r} ELSE admins
  BY DEF T!seed_admin
<1>10. /\ reg[r].step = "user"
       /\ UNCHANGED << provision, databases, write, stranded, crowded, tenant, cache, pools, look, stale, lingering >>
  BY DEF T!seed_admin, T!directory, T!marks
<1>2. /\ reg'[r].step = step /\ reg'[r].name = reg[r].name
      /\ \A x \in Registrations \ {r} : reg'[x] = reg[x]
      /\ reg' \in [Registrations -> RegRow]
  BY <1>1, RegGoes DEF TenancyInv, RegInv, T!Underway
<1>3. T!TypeOK'
  <2>1. faults' \in 0..MaxFaults
    BY <1>1, FaultCounted, TenancyTypes DEF TenancyInv, RegInv
  <2>2. admins' \subseteq Registrations
    BY <1>1, TenancyTypes DEF TenancyInv, RegInv
  <2> QED BY <1>10, <1>2, <2>1, <2>2 DEF TenancyInv, RegInv, T!TypeOK, RegRow
<1>4. r \notin admins /\ reg[r].name \in Names
  BY <1>10 DEF TenancyInv, RegInv, RowsOwned, NamesGiven
<1>5. (r \in admins' <=> step = "done") /\ \A x \in Registrations \ {r} : x \in admins' <=> x \in admins
  BY <1>1, <1>4
<1>6. RegInv'
  BY <1>10, <1>2, <1>3, <1>4, <1>5, StepKeeps DEF TenancyInv, Holding, Crowding
<1>7. ServeInv'
  BY <1>10, <1>2, <1>3, ServeKeeps
<1> QED BY <1>6, <1>7 DEF TenancyInv

LEMMA Overtaken ==
    ASSUME T!TypeOK, NEW n \in Names, T!Overtake(n)
    PROVE  /\ look' \in [Lookups -> LookRow]
           /\ \A q \in Lookups :
                /\ look[q].name # n => look'[q] = look[q]
                /\ look[q].name = n => look'[q].late
                /\ look'[q].step = look[q].step /\ look'[q].name = look[q].name /\ look'[q].row = look[q].row
<1>1. look \in [Lookups -> LookRow]
  BY TenancyTypes
<1>2. \A q \in Lookups : look'[q] = IF look[q].name = n THEN [look[q] EXCEPT !.late = TRUE] ELSE look[q]
  BY DEF T!Overtake
<1>3. \A q \in Lookups : LET l == [look[q] EXCEPT !.late = TRUE] IN
         l \in LookRow /\ l.late /\ l.step = look[q].step /\ l.name = look[q].name /\ l.row = look[q].row
  BY <1>1 DEF LookRow
<1>4. look' = [q \in Lookups |-> look'[q]]
  BY DEF T!Overtake
<1> QED BY <1>1, <1>2, <1>3, <1>4

\* A step that overtakes the requests for n, or none.
LEMMA LooksKeep ==
    ASSUME TenancyInv, NEW n \in Names, T!Overtake(n),
           \A m \in Names \ {n} : tenant'[m] = tenant[m] /\ (T!Writing(m)' => T!Writing(m)),
           \A x \in Registrations : reg[x].name # None => reg'[x].name = reg[x].name
    PROVE  LooksKnow'
<1> USE IdentityAssumption
<1>1. T!TypeOK
  BY DEF TenancyInv, RegInv
<1> SUFFICES ASSUME NEW q \in Lookups, look'[q] # T!NoLook
             PROVE  /\ look'[q].step # "idle" /\ look'[q].name \in Names /\ look'[q].row \in T!Rows
                    /\ reg'[look'[q].row.id].name = look'[q].name
                    /\ T!Writing(look[q].name)' => look'[q].late
                    /\ look'[q].late \/ look'[q].row = tenant'[look'[q].name]
  BY DEF LooksKnow
<1>2. look[q] # T!NoLook
  <2>1. T!NoLook.name # n
    BY DEF T!NoLook
  <2> QED BY <1>1, <2>1, Overtaken
<1>3. /\ look[q].step # "idle" /\ look[q].name \in Names /\ look[q].row \in T!Rows
      /\ reg[look[q].row.id].name = look[q].name
      /\ T!Writing(look[q].name) => look[q].late
      /\ look[q].late \/ look[q].row = tenant[look[q].name]
  BY <1>2 DEF TenancyInv, ServeInv, LooksKnow
<1>4. look[q].row.id \in Registrations
  BY <1>3 DEF T!Rows
<1>5. look'[q].step = look[q].step /\ look'[q].name = look[q].name /\ look'[q].row = look[q].row
  BY <1>1, Overtaken
<1>6. reg'[look[q].row.id].name = look[q].name
  BY <1>3, <1>4
<1>7. CASE look[q].name = n
  <2>1. look'[q].late
    BY <1>1, <1>7, Overtaken
  <2> QED BY <1>3, <1>5, <1>6, <2>1
<1>8. CASE look[q].name # n
  <2>1. look'[q] = look[q]
    BY <1>1, <1>8, Overtaken
  <2> QED BY <1>3, <1>6, <1>8, <2>1
<1> QED BY <1>7, <1>8

LEMMA InsertRow == ASSUME TenancyInv, NEW r \in Registrations, reg[r].step = "ready",
                          tenant[reg[r].name] = None, tenant' = [tenant EXCEPT ![reg[r].name] = T!Row(r)], T!Goes(r, "recorded"),
                          UNCHANGED << provision, databases, admins, write, stranded, crowded, faults, cache, pools, look, stale, lingering >>
                   PROVE  TenancyInv'
<1> USE IdentityAssumption
<1>1. PICK n \in Names : n = reg[r].name
  BY DEF TenancyInv, RegInv, NamesGiven
<1>2. /\ reg'[r].step = "recorded" /\ reg'[r].name = n
      /\ \A x \in Registrations \ {r} : reg'[x] = reg[x]
      /\ reg' \in [Registrations -> RegRow]
  BY <1>1, RegGoes DEF TenancyInv, RegInv, T!Underway
<1>3. /\ T!Row(r) \in T!Rows /\ T!Row(r).id = r /\ T!Row(r).active /\ T!Row(r) # None
      /\ tenant \in [Names -> T!Rows \cup {None}]
  <2>1. T!Row(r) \in T!Rows /\ T!Row(r).id = r /\ T!Row(r).active
    BY DEF T!Row, T!Rows
  <2> QED BY <2>1, TenancyTypes DEF TenancyInv, RegInv
<1>4. tenant' \in [Names -> T!Rows \cup {None}] /\ tenant'[n] = T!Row(r) /\ tenant[n] = None /\ \A m \in Names \ {n} : tenant'[m] = tenant[m]
  BY <1>1, <1>3
<1>5. T!TypeOK'
  BY <1>2, <1>4 DEF TenancyInv, RegInv, T!TypeOK, RegRow
<1>6. \A x \in Registrations : reg[x].name # None => reg'[x].name = reg[x].name
  BY <1>1, <1>2
<1>7. NamesGiven'
  BY <1>2 DEF TenancyInv, RegInv, NamesGiven
<1>8. RowsOwned'
  <2>1. ASSUME NEW m \in Names, tenant'[m] # None
        PROVE  /\ reg'[tenant'[m].id].name = m /\ reg'[tenant'[m].id].step \in Holding \cup {"done", "refused"}
               /\ reg'[tenant'[m].id].step = "refused" => tenant'[m].id \in stranded'
               /\ provision' => tenant'[m].id \in databases'
    <3>1. CASE m = n
      <4>1. provision => r \in databases
        BY DEF TenancyInv, RegInv, DatabasesKept
      <4> QED BY <1>2, <1>3, <1>4, <3>1, <4>1 DEF Holding
    <3>2. CASE m # n
      <4>1. tenant[m] # None /\ tenant'[m] = tenant[m]
        BY <1>4, <2>1, <3>2
      <4>2. tenant[m].id \in Registrations
        BY <4>1, TenantIds DEF TenancyInv, RegInv
      <4>3. /\ reg[tenant[m].id].name = m /\ reg[tenant[m].id].step \in Holding \cup {"done", "refused"}
            /\ reg[tenant[m].id].step = "refused" => tenant[m].id \in stranded
            /\ provision => tenant[m].id \in databases
        BY <4>1 DEF TenancyInv, RegInv, RowsOwned
      <4>4. tenant[m].id # r
        BY <4>3 DEF Holding
      <4> QED BY <1>2, <4>1, <4>2, <4>3, <4>4
    <3> QED BY <3>1, <3>2
  <2>2. ASSUME NEW x \in Registrations, reg'[x].step \in Holding \cup {"done"}
        PROVE  /\ tenant'[reg'[x].name] # None /\ tenant'[reg'[x].name].id = x
               /\ reg'[x].step \in Holding => tenant'[reg'[x].name].active
    <3>1. CASE x = r
      BY <1>2, <1>3, <1>4, <3>1
    <3>2. CASE x # r
      <4>1. reg'[x] = reg[x] /\ reg[x].name \in Names
        BY <1>2, <2>2, <3>2 DEF TenancyInv, RegInv, NamesGiven, Holding
      <4>2. /\ tenant[reg[x].name] # None /\ tenant[reg[x].name].id = x
            /\ reg[x].step \in Holding => tenant[reg[x].name].active
        BY <2>2, <4>1 DEF TenancyInv, RegInv, RowsOwned
      <4> QED BY <1>4, <4>1, <4>2
    <3> QED BY <3>1, <3>2
  <2>3. \A x \in Registrations : x \in admins' <=> reg'[x].step = "done"
    BY <1>2 DEF TenancyInv, RegInv, RowsOwned
  <2> QED BY <2>1, <2>2, <2>3 DEF RowsOwned
<1>9. DatabasesKept'
  <2>1. \A x \in Registrations : T!Recorded(x) => T!Recorded(x)'
    BY <1>4 DEF T!Recorded
  <2>2. databases \subseteq Registrations
    BY TenancyTypes DEF TenancyInv, RegInv
  <2>3. r \in databases => provision
    BY DEF TenancyInv, RegInv, DatabasesKept
  <2> QED BY <1>2, <2>1, <2>2, <2>3 DEF TenancyInv, RegInv, DatabasesKept
<1>10. CountHolds'
  <2>1. Taken' = Taken \cup {n} /\ n \notin Taken
    BY <1>3, <1>4 DEF Taken
  <2>2. IsFiniteSet(Taken') /\ Cardinality(Taken') = Cardinality(Taken) + 1 /\ Cardinality(Taken) \in Nat
    BY <2>1, FS_AddElement, FS_CardinalityType DEF TenancyInv, RegInv, CountHolds
  <2>3. ~crowded => Cardinality(Taken) < MaxTenants /\ \A x \in Registrations : reg[x].step \in Crowding => x = r
    BY DEF TenancyInv, RegInv, CountHolds, Crowding
  <2>4. ~crowded => \A x \in Registrations : reg'[x].step \notin Crowding
    BY <1>2, <2>3 DEF Crowding
  <2> HIDE DEF Taken
  <2>5. ~crowded => Cardinality(Taken') <= MaxTenants
    BY <2>2, <2>3
  <2> QED BY <2>2, <2>4, <2>5 DEF CountHolds
<1>11. WritersName'
  BY <1>4 DEF TenancyInv, RegInv, WritersName
<1>12. \A m : T!Writing(m)' => T!Writing(m)
  <2>1. \A x \in Registrations : reg'[x].step \in {"evict", "delete"} => reg'[x] = reg[x]
    BY <1>2
  <2> QED BY <2>1 DEF T!Writing
<1>13. LooksKnow'
  <2> SUFFICES ASSUME NEW q \in Lookups, look[q] # T!NoLook
               PROVE  /\ look[q].step # "idle" /\ look[q].name \in Names /\ look[q].row \in T!Rows
                      /\ reg'[look[q].row.id].name = look[q].name
                      /\ T!Writing(look[q].name)' => look[q].late
                      /\ look[q].late \/ look[q].row = tenant'[look[q].name]
    BY DEF LooksKnow
  <2>1. /\ look[q].step # "idle" /\ look[q].name \in Names /\ look[q].row \in T!Rows
        /\ reg[look[q].row.id].name = look[q].name
        /\ T!Writing(look[q].name) => look[q].late
        /\ look[q].late \/ look[q].row = tenant[look[q].name]
    BY DEF TenancyInv, ServeInv, LooksKnow
  <2>2. look[q].row.id \in Registrations /\ look[q].row # None
    BY <2>1 DEF T!Rows
  <2>3. look[q].late \/ look[q].row = tenant'[look[q].name]
    BY <1>4, <2>1, <2>2
  <2> QED BY <1>6, <1>12, <2>1, <2>2, <2>3
<1>14. CacheKnows'
  <2> SUFFICES ASSUME NEW m \in Names, cache[m] # None
               PROVE  /\ reg'[cache[m].id].name = m
                      /\ m \in stale \/ cache[m] = tenant'[m] \/ \E w \in Writers : write[w].step = "updated" /\ write[w].name = m
                      /\ \A x \in Registrations : reg'[x].name = m /\ reg'[x].step \in {"evict", "delete"} => m \in stale
    BY DEF CacheKnows
  <2>1. /\ reg[cache[m].id].name = m
        /\ m \in stale \/ cache[m] = tenant[m] \/ \E w \in Writers : write[w].step = "updated" /\ write[w].name = m
        /\ \A x \in Registrations : reg[x].name = m /\ reg[x].step \in {"evict", "delete"} => m \in stale
    BY DEF TenancyInv, ServeInv, CacheKnows
  <2>2. cache[m].id \in Registrations
    BY TenancyTypes DEF TenancyInv, RegInv, T!Rows
  <2>3. CASE m = n
    <3>1. \A w \in Writers : write[w].name = n => FALSE
      BY <1>4 DEF TenancyInv, RegInv, WritersName, T!NoWrite
    <3> QED BY <1>2, <1>4, <1>6, <2>1, <2>2, <2>3, <3>1
  <2>4. CASE m # n
    BY <1>2, <1>4, <1>6, <2>1, <2>2, <2>4
  <2> QED BY <2>3, <2>4
<1>15. PoolsKnow'
  <2> SUFFICES ASSUME NEW x \in pools
               PROVE  /\ reg'[x].name \in Names
                      /\ x \notin lingering =>
                           /\ reg'[x].step # "delete" /\ tenant'[reg'[x].name] # None /\ tenant'[reg'[x].name].id = x
                           /\ tenant'[reg'[x].name].active \/ \E w \in Writers : write[w].name = reg'[x].name /\ write[w].evicts
    BY DEF PoolsKnow
  <2>1. /\ reg[x].name \in Names
        /\ x \notin lingering =>
             /\ reg[x].step # "delete" /\ tenant[reg[x].name] # None /\ tenant[reg[x].name].id = x
             /\ tenant[reg[x].name].active \/ \E w \in Writers : write[w].name = reg[x].name /\ write[w].evicts
    BY DEF TenancyInv, ServeInv, PoolsKnow
  <2>2. x \in Registrations
    BY TenancyTypes DEF TenancyInv, RegInv
  <2>3. reg'[x].name = reg[x].name /\ (reg'[x].step = "delete" => reg[x].step = "delete")
    BY <1>2, <1>6, <2>1, <2>2
  <2> QED BY <1>4, <2>1, <2>2, <2>3
<1> QED BY <1>5, <1>7, <1>8, <1>9, <1>10, <1>11, <1>13, <1>14, <1>15 DEF TenancyInv, RegInv, ServeInv

LEMMA Insert == ASSUME TenancyInv, NEW r \in Registrations, T!insert(r) PROVE TenancyInv'
<1> USE IdentityAssumption
<1>1. /\ reg[r].step = "ready"
      /\ UNCHANGED << provision, databases, admins, write, stranded, crowded, cache, pools, look, stale, lingering >>
  BY DEF T!insert, T!marks, T!Uncache, T!Evict
<1>2. CASE /\ tenant[reg[r].name] = None /\ tenant' = [tenant EXCEPT ![reg[r].name] = T!Row(r)]
           /\ T!Goes(r, "recorded") /\ UNCHANGED faults
  BY <1>1, <1>2, InsertRow
<1>3. CASE tenant' = tenant /\ T!Goes(r, IF provision THEN "drop" ELSE "refused") /\ (faults' = faults \/ T!Fault)
  <2>1. /\ reg'[r].step = (IF provision THEN "drop" ELSE "refused") /\ reg'[r].name = reg[r].name
        /\ \A x \in Registrations \ {r} : reg'[x] = reg[x]
        /\ reg' \in [Registrations -> RegRow]
    BY <1>1, <1>3, RegGoes DEF TenancyInv, RegInv, T!Underway
  <2>2. reg'[r].step \in {"drop", "refused"}
    BY <2>1
  <2>3. T!TypeOK'
    <3>1. faults' \in 0..MaxFaults
      BY <1>3, FaultCounted, TenancyTypes DEF TenancyInv, RegInv
    <3> QED BY <1>1, <1>3, <2>1, <3>1 DEF TenancyInv, RegInv, T!TypeOK, RegRow
  <2>4. r \notin admins /\ reg[r].name \in Names /\ (r \in databases => provision)
    BY <1>1 DEF TenancyInv, RegInv, RowsOwned, NamesGiven, DatabasesKept
  <2>5. RegInv'
    BY <1>1, <1>3, <2>1, <2>2, <2>3, <2>4, StepKeeps DEF TenancyInv, Holding, Crowding
  <2>6. ServeInv'
    BY <1>1, <1>3, <2>1, <2>2, <2>3, ServeKeeps
  <2> QED BY <2>5, <2>6 DEF TenancyInv
<1> QED BY <1>2, <1>3 DEF T!insert, T!marks, T!Uncache, T!Evict

LEMMA RemoveInvalidate == ASSUME TenancyInv, NEW r \in Registrations, T!remove_invalidate(r) PROVE TenancyInv'
<1> USE IdentityAssumption
<1>0. reg[r].step = "invalidate" /\ T!TypeOK
  BY DEF T!remove_invalidate, TenancyInv, RegInv
<1>1. PICK n \in Names : n = reg[r].name
  BY <1>0 DEF TenancyInv, RegInv, NamesGiven
<1>2. /\ cache' = [cache EXCEPT ![n] = None] /\ T!Overtake(n) /\ T!Goes(r, "evict")
      /\ UNCHANGED << provision, databases, admins, write, stranded, crowded, faults, tenant, pools, lingering >>
      /\ stale' = stale \ {n}
  BY <1>1 DEF T!remove_invalidate, T!marks, T!Uncache, T!Evict
<1>3. /\ reg'[r].step = "evict" /\ reg'[r].name = n
      /\ \A x \in Registrations \ {r} : reg'[x] = reg[x]
      /\ reg' \in [Registrations -> RegRow]
  BY <1>0, <1>1, <1>2, RegGoes DEF T!Underway
<1>4. /\ cache \in [Names -> T!Rows \cup {None}] /\ cache' \in [Names -> T!Rows \cup {None}]
      /\ cache'[n] = None /\ \A m \in Names \ {n} : cache'[m] = cache[m]
  BY <1>0, <1>2, TenancyTypes
<1>5. T!TypeOK'
  <2>1. look' \in [Lookups -> LookRow] /\ stale' \subseteq Names
    BY <1>0, <1>2, Overtaken, TenancyTypes
  <2> QED BY <1>0, <1>2, <1>3, <1>4, <2>1 DEF T!TypeOK, RegRow, LookRow
<1>6. RegInv'
  <2>1. r \notin admins /\ reg[r].name \in Names
    BY <1>0, <1>1 DEF TenancyInv, RegInv, RowsOwned
  <2> QED BY <1>0, <1>1, <1>2, <1>3, <1>5, <2>1, StepKeeps DEF TenancyInv, Holding, Crowding
<1>7. \A x \in Registrations : reg[x].name # None => reg'[x].name = reg[x].name
  BY <1>1, <1>3
<1>70. stale' \subseteq Names /\ \A m \in Names \ {n} : m \in stale' <=> m \in stale
  BY <1>0, <1>2, TenancyTypes
<1>8. LooksKnow'
  <2>1. \A m \in Names \ {n} : tenant'[m] = tenant[m] /\ (T!Writing(m)' => T!Writing(m))
    BY <1>2, <1>3 DEF T!Writing
  <2> QED BY <1>2, <1>7, <2>1, LooksKeep
<1>9. CacheKnows'
  <2>1. \A m \in Names : cache[m] # None => cache[m].id \in Registrations
    BY <1>4 DEF T!Rows
  <2> QED BY <1>2, <1>3, <1>4, <1>7, <1>70, <2>1 DEF TenancyInv, ServeInv, CacheKnows
<1>10. PoolsKnow'
  <2>1. pools \subseteq Registrations
    BY <1>0, TenancyTypes
  <2> QED BY <1>2, <1>3, <1>7, <2>1 DEF TenancyInv, ServeInv, PoolsKnow
<1> QED BY <1>6, <1>8, <1>9, <1>10 DEF TenancyInv, ServeInv

LEMMA RemoveEvict == ASSUME TenancyInv, NEW r \in Registrations, T!remove_evict(r) PROVE TenancyInv'
<1> USE IdentityAssumption
<1>0. reg[r].step = "evict" /\ T!TypeOK
  BY DEF T!remove_evict, TenancyInv, RegInv
<1>1. PICK n \in Names : n = reg[r].name
  BY <1>0 DEF TenancyInv, RegInv, NamesGiven
<1>2. /\ pools' = pools \ {r} /\ lingering' = lingering \ {r} /\ T!Goes(r, "delete")
      /\ UNCHANGED << provision, databases, admins, write, stranded, crowded, faults, tenant, cache, look, stale >>
  BY DEF T!remove_evict, T!marks, T!Uncache, T!Evict
<1>3. /\ reg'[r].step = "delete" /\ reg'[r].name = n
      /\ \A x \in Registrations \ {r} : reg'[x] = reg[x]
      /\ reg' \in [Registrations -> RegRow]
  BY <1>0, <1>1, <1>2, RegGoes DEF T!Underway
<1>5. T!TypeOK'
  BY <1>0, <1>2, <1>3 DEF T!TypeOK, RegRow
<1>6. RegInv'
  <2>1. r \notin admins /\ reg[r].name \in Names
    BY <1>0, <1>1 DEF TenancyInv, RegInv, RowsOwned
  <2> QED BY <1>0, <1>1, <1>2, <1>3, <1>5, <2>1, StepKeeps DEF TenancyInv, Holding, Crowding
<1>7. \A x \in Registrations : reg[x].name # None => reg'[x].name = reg[x].name
  BY <1>1, <1>3
<1>70. \A m : T!Writing(m)' => T!Writing(m)
  BY <1>0, <1>1, <1>2, <1>3 DEF T!Writing
<1>8. LooksKnow'
  <2>1. \A q \in Lookups : look[q].row \in T!Rows => look[q].row.id \in Registrations
    BY DEF T!Rows
  <2>2. \A q \in Lookups : T!Writing(look[q].name)' => T!Writing(look[q].name)
    BY <1>2, <1>70
  <2> QED BY <1>2, <1>7, <2>1, <2>2 DEF TenancyInv, ServeInv, LooksKnow
<1>9. CacheKnows'
  <2>1. \A m \in Names : cache[m] # None => cache[m].id \in Registrations
    BY <1>0, TenancyTypes DEF T!Rows
  <2> QED BY <1>0, <1>1, <1>2, <1>3, <1>7, <2>1 DEF TenancyInv, ServeInv, CacheKnows
<1>10. PoolsKnow'
  <2>1. pools \subseteq Registrations
    BY <1>0, TenancyTypes
  <2> QED BY <1>2, <1>3, <1>7, <2>1 DEF TenancyInv, ServeInv, PoolsKnow
<1> QED BY <1>6, <1>8, <1>9, <1>10 DEF TenancyInv, ServeInv

LEMMA DeleteRow == ASSUME TenancyInv, NEW r \in Registrations, reg[r].step = "delete",
                          NEW step \in {"drop", "refused"}, step = (IF provision THEN "drop" ELSE "refused"),
                          tenant' = [tenant EXCEPT ![reg[r].name] = None], T!Overtake(reg[r].name), T!Goes(r, step),
                          UNCHANGED << provision, databases, admins, write, stranded, crowded, faults, cache, pools, stale, lingering >>
                   PROVE  TenancyInv'
<1> USE IdentityAssumption
<1>1. PICK n \in Names : n = reg[r].name
  BY DEF TenancyInv, RegInv, NamesGiven
<1>2. /\ reg'[r].step = step /\ reg'[r].name = n
      /\ \A x \in Registrations \ {r} : reg'[x] = reg[x]
      /\ reg' \in [Registrations -> RegRow]
  BY <1>1, RegGoes DEF TenancyInv, RegInv, T!Underway
<1>3. tenant \in [Names -> T!Rows \cup {None}] /\ tenant[n] # None /\ tenant[n].id = r
  BY <1>1, TenancyTypes DEF TenancyInv, RegInv, RowsOwned, Holding
<1>4. tenant' \in [Names -> T!Rows \cup {None}] /\ tenant'[n] = None /\ \A m \in Names \ {n} : tenant'[m] = tenant[m]
  BY <1>1, <1>3
<1>5. T!TypeOK'
  <2>1. look' \in [Lookups -> LookRow]
    BY <1>1, Overtaken DEF TenancyInv, RegInv
  <2> QED BY <1>2, <1>4, <2>1 DEF TenancyInv, RegInv, T!TypeOK, RegRow, LookRow
<1>6. \A x \in Registrations : reg[x].name # None => reg'[x].name = reg[x].name
  BY <1>1, <1>2
<1>60. r \notin admins
  BY DEF TenancyInv, RegInv, RowsOwned
<1>7. NamesGiven'
  BY <1>2 DEF TenancyInv, RegInv, NamesGiven
<1>8. RowsOwned'
  <2>1. ASSUME NEW m \in Names, tenant'[m] # None
        PROVE  /\ reg'[tenant'[m].id].name = m /\ reg'[tenant'[m].id].step \in Holding \cup {"done", "refused"}
               /\ reg'[tenant'[m].id].step = "refused" => tenant'[m].id \in stranded'
               /\ provision' => tenant'[m].id \in databases'
    <3>1. m # n /\ tenant[m] # None /\ tenant'[m] = tenant[m]
      BY <1>4, <2>1
    <3>2. tenant[m].id \in Registrations
      BY <3>1, TenantIds DEF TenancyInv, RegInv
    <3>3. /\ reg[tenant[m].id].name = m /\ reg[tenant[m].id].step \in Holding \cup {"done", "refused"}
          /\ reg[tenant[m].id].step = "refused" => tenant[m].id \in stranded
          /\ provision => tenant[m].id \in databases
      BY <3>1 DEF TenancyInv, RegInv, RowsOwned
    <3>4. tenant[m].id # r
      BY <1>1, <3>1, <3>3
    <3> QED BY <1>2, <3>1, <3>2, <3>3, <3>4
  <2>2. ASSUME NEW x \in Registrations, reg'[x].step \in Holding \cup {"done"}
        PROVE  /\ tenant'[reg'[x].name] # None /\ tenant'[reg'[x].name].id = x
               /\ reg'[x].step \in Holding => tenant'[reg'[x].name].active
    <3>1. x # r
      BY <1>2, <2>2 DEF Holding
    <3>2. reg'[x] = reg[x] /\ reg[x].name \in Names
      BY <1>2, <2>2, <3>1 DEF TenancyInv, RegInv, NamesGiven, Holding
    <3>3. /\ tenant[reg[x].name] # None /\ tenant[reg[x].name].id = x
          /\ reg[x].step \in Holding => tenant[reg[x].name].active
      BY <2>2, <3>2 DEF TenancyInv, RegInv, RowsOwned
    <3>4. reg[x].name # n
      BY <1>3, <3>1, <3>3
    <3> QED BY <1>4, <3>2, <3>3, <3>4
  <2>3. \A x \in Registrations : x \in admins' <=> reg'[x].step = "done"
    BY <1>2, <1>60 DEF TenancyInv, RegInv, RowsOwned
  <2> QED BY <2>1, <2>2, <2>3 DEF RowsOwned
<1>9. DatabasesKept'
  <2>1. \A x \in Registrations \ {r} : T!Recorded(x) => T!Recorded(x)'
    BY <1>3, <1>4 DEF T!Recorded
  <2>2. databases \subseteq Registrations
    BY TenancyTypes DEF TenancyInv, RegInv
  <2>3. r \in databases => provision
    BY DEF TenancyInv, RegInv, DatabasesKept
  <2>4. \A x \in databases' : provision' /\ reg'[x].step \notin {"idle", "checked", "counted"}
    BY <1>2, <2>2, <2>3 DEF TenancyInv, RegInv, DatabasesKept
  <2>5. ASSUME NEW x \in databases', reg'[x].step \in {"done", "refused"} PROVE T!Recorded(x)' \/ x \in stranded'
    BY <1>2, <2>1, <2>2, <2>3, <2>5 DEF TenancyInv, RegInv, DatabasesKept
  <2>6. provision' => \A x \in Registrations : reg'[x].step \in {"cut", "ready"} => x \in databases'
    BY <1>2 DEF TenancyInv, RegInv, DatabasesKept
  <2> QED BY <2>4, <2>5, <2>6 DEF DatabasesKept
<1>10. CountHolds'
  <2>1. Taken' = Taken \ {n} /\ n \in Taken
    BY <1>3, <1>4 DEF Taken
  <2>2. IsFiniteSet(Taken') /\ Cardinality(Taken') = Cardinality(Taken) - 1 /\ Cardinality(Taken) \in Nat
    BY <2>1, FS_RemoveElement, FS_CardinalityType DEF TenancyInv, RegInv, CountHolds
  <2>4. \A x \in Registrations : reg'[x].step \in Crowding => reg[x].step \in Crowding
    BY <1>2 DEF Crowding
  <2>5. ~crowded => Cardinality(Taken) <= MaxTenants /\ (\A x \in Registrations : reg[x].step \in Crowding => Cardinality(Taken) < MaxTenants)
                     /\ \A x, y \in Registrations : reg[x].step \in Crowding /\ reg[y].step \in Crowding => x = y
    BY DEF TenancyInv, RegInv, CountHolds
  <2> HIDE DEF Taken
  <2>6. ~crowded => Cardinality(Taken') <= MaxTenants /\ (\A x \in Registrations : reg'[x].step \in Crowding => Cardinality(Taken') < MaxTenants)
    BY <2>2, <2>4, <2>5
  <2>7. ~crowded => \A x, y \in Registrations : reg'[x].step \in Crowding /\ reg'[y].step \in Crowding => x = y
    BY <2>4, <2>5
  <2> QED BY <2>2, <2>6, <2>7 DEF CountHolds
<1>11. WritersName'
  <2>1. \A w \in Writers : write[w] # T!NoWrite => write[w].name # n
    BY <1>3, <1>60 DEF TenancyInv, RegInv, WritersName
  <2> QED BY <1>4, <2>1 DEF TenancyInv, RegInv, WritersName
<1>12. \A m : T!Writing(m)' => T!Writing(m)
  <2>1. \A x \in Registrations : reg'[x].step \in {"evict", "delete"} => reg'[x] = reg[x]
    BY <1>2
  <2> QED BY <2>1 DEF T!Writing
<1>13. LooksKnow'
  BY <1>1, <1>4, <1>6, <1>12, LooksKeep
<1>14. CacheKnows'
  <2> SUFFICES ASSUME NEW m \in Names, cache[m] # None
               PROVE  /\ reg'[cache[m].id].name = m
                      /\ m \in stale \/ cache[m] = tenant'[m] \/ \E w \in Writers : write[w].step = "updated" /\ write[w].name = m
                      /\ \A x \in Registrations : reg'[x].name = m /\ reg'[x].step \in {"evict", "delete"} => m \in stale
    BY DEF CacheKnows
  <2>1. /\ reg[cache[m].id].name = m
        /\ m \in stale \/ cache[m] = tenant[m] \/ \E w \in Writers : write[w].step = "updated" /\ write[w].name = m
        /\ \A x \in Registrations : reg[x].name = m /\ reg[x].step \in {"evict", "delete"} => m \in stale
    BY DEF TenancyInv, ServeInv, CacheKnows
  <2>2. cache[m].id \in Registrations
    BY TenancyTypes DEF TenancyInv, RegInv, T!Rows
  <2> QED BY <1>1, <1>2, <1>4, <1>6, <2>1, <2>2
<1>15. PoolsKnow'
  <2> SUFFICES ASSUME NEW x \in pools
               PROVE  /\ reg'[x].name \in Names
                      /\ x \notin lingering =>
                           /\ reg'[x].step # "delete" /\ tenant'[reg'[x].name] # None /\ tenant'[reg'[x].name].id = x
                           /\ tenant'[reg'[x].name].active \/ \E w \in Writers : write[w].name = reg'[x].name /\ write[w].evicts
    BY DEF PoolsKnow
  <2>1. /\ reg[x].name \in Names
        /\ x \notin lingering =>
             /\ reg[x].step # "delete" /\ tenant[reg[x].name] # None /\ tenant[reg[x].name].id = x
             /\ tenant[reg[x].name].active \/ \E w \in Writers : write[w].name = reg[x].name /\ write[w].evicts
    BY DEF TenancyInv, ServeInv, PoolsKnow
  <2>2. x \in Registrations
    BY TenancyTypes DEF TenancyInv, RegInv
  <2>3. reg'[x].name = reg[x].name /\ (reg'[x].step = "delete" => reg[x].step = "delete")
    BY <1>2, <1>6, <2>1, <2>2
  <2>4. reg[x].name = n => x \in lingering
    BY <1>3, <2>1
  <2> QED BY <1>4, <2>1, <2>2, <2>3, <2>4
<1> QED BY <1>5, <1>7, <1>8, <1>9, <1>10, <1>11, <1>13, <1>14, <1>15 DEF TenancyInv, RegInv, ServeInv

LEMMA RemoveDelete == ASSUME TenancyInv, NEW r \in Registrations, T!remove_delete(r) PROVE TenancyInv'
<1> USE IdentityAssumption
<1>1. /\ reg[r].step = "delete"
      /\ UNCHANGED << provision, databases, admins, write, crowded, cache, pools, stale, lingering >>
  BY DEF T!remove_delete, T!marks, T!Uncache, T!Evict
<1>2. tenant[reg[r].name] # None /\ tenant[reg[r].name].id = r /\ reg[r].name \in Names
  BY <1>1 DEF TenancyInv, RegInv, RowsOwned, NamesGiven, Holding
<1>3. CASE /\ tenant' = [tenant EXCEPT ![reg[r].name] = None] /\ T!Overtake(reg[r].name)
           /\ T!Goes(r, IF provision THEN "drop" ELSE "refused") /\ UNCHANGED << stranded, faults >>
  <2>1. PICK step \in {"drop", "refused"} : step = (IF provision THEN "drop" ELSE "refused")
    BY DEF TenancyInv, RegInv, T!TypeOK
  <2>2. T!Goes(r, step)
    BY <1>3, <2>1
  <2> QED BY <1>1, <1>3, <2>1, <2>2, DeleteRow
<1>4. CASE T!Goes(r, "refused") /\ stranded' = stranded \cup {r} /\ T!Fault /\ tenant' = tenant /\ look' = look
  <2>1. /\ reg'[r].step = "refused" /\ reg'[r].name = reg[r].name
        /\ \A x \in Registrations \ {r} : reg'[x] = reg[x]
        /\ reg' \in [Registrations -> RegRow]
    BY <1>1, <1>4, RegGoes DEF TenancyInv, RegInv, T!Underway
  <2>3. T!TypeOK'
    <3>1. faults' \in 0..MaxFaults
      BY <1>4, FaultCounted DEF TenancyInv, RegInv
    <3>2. stranded' \subseteq Registrations
      BY <1>4, TenancyTypes DEF TenancyInv, RegInv
    <3> QED BY <1>1, <1>4, <2>1, <3>1, <3>2 DEF TenancyInv, RegInv, T!TypeOK, RegRow
  <2>4. r \notin admins /\ stranded \subseteq stranded' /\ r \in stranded'
    BY <1>1, <1>4 DEF TenancyInv, RegInv, RowsOwned
  <2>5. RegInv'
    BY <1>1, <1>2, <1>4, <2>1, <2>3, <2>4, StepKeeps DEF TenancyInv, Holding, Crowding
  <2>6. ServeInv'
    BY <1>1, <1>4, <2>1, <2>3, ServeKeeps
  <2> QED BY <2>5, <2>6 DEF TenancyInv
<1> QED BY <1>2, <1>3, <1>4 DEF T!remove_delete, T!marks, T!Uncache, T!Evict

LEMMA RegSame ==
    ASSUME RegInv, T!TypeOK', UNCHANGED << provision, databases, tenant, admins, reg, write, stranded, crowded >>
    PROVE  RegInv'
<1>1. NamesGiven' /\ RowsOwned' /\ WritersName'
  BY DEF RegInv, NamesGiven, RowsOwned, WritersName
<1>2. DatabasesKept'
  BY DEF RegInv, DatabasesKept, T!Recorded
<1>3. CountHolds'
  <2>1. Taken' = Taken
    BY DEF Taken
  <2> QED BY <2>1 DEF RegInv, CountHolds
<1> QED BY <1>1, <1>2, <1>3 DEF RegInv

LEMMA WritingSame == ASSUME reg' = reg, write' = write, NEW n PROVE T!Writing(n)' <=> T!Writing(n)
BY DEF T!Writing

LEMMA Taking ==
    ASSUME TenancyInv, NEW q \in Lookups, NEW n \in Names, look[q] = T!NoLook, NEW step \in {"read", "resolved"}, NEW given \in T!Rows,
           NEW late \in BOOLEAN, T!Takes(q, n, step, given, late), reg[given.id].name = n, ~late /\ ~T!Writing(n) => given = tenant[n],
           UNCHANGED << provision, databases, tenant, admins, reg, write, stranded, crowded, faults, cache, pools, stale, lingering >>
    PROVE  TenancyInv'
<1> USE IdentityAssumption
<1> DEFINE l == [step |-> step, name |-> n, row |-> given, late |-> late \/ T!Writing(n)]
<1>1. look \in [Lookups -> LookRow] /\ look' = [look EXCEPT ![q] = l]
  BY TenancyTypes DEF TenancyInv, RegInv, T!Takes
<1>2. T!Writing(n) \in BOOLEAN
  BY DEF T!Writing
<1>3. l \in LookRow /\ l.step = step /\ l.name = n /\ l.row = given /\ (l.late <=> late \/ T!Writing(n))
  BY <1>2 DEF LookRow
<1> HIDE DEF l
<1>4. look' \in [Lookups -> LookRow] /\ look'[q] = l /\ \A p \in Lookups \ {q} : look'[p] = look[p]
  BY <1>1, <1>3
<1>5. T!TypeOK'
  BY <1>4 DEF TenancyInv, RegInv, T!TypeOK, LookRow
<1>6. RegInv'
  BY <1>5, RegSame DEF TenancyInv
<1>7. LooksKnow'
  <2>1. \A p \in Lookups : T!Writing(look[p].name)' <=> T!Writing(look'[p].name)
    BY DEF T!Writing
  <2> SUFFICES ASSUME NEW p \in Lookups, look'[p] # T!NoLook
               PROVE  /\ look'[p].step # "idle" /\ look'[p].name \in Names /\ look'[p].row \in T!Rows
                      /\ reg[look'[p].row.id].name = look'[p].name
                      /\ T!Writing(look'[p].name) => look'[p].late
                      /\ look'[p].late \/ look'[p].row = tenant[look'[p].name]
    BY <2>1 DEF LooksKnow
  <2>2. CASE p = q
    BY <1>3, <1>4, <2>2
  <2>3. CASE p # q
    BY <1>4, <2>3 DEF TenancyInv, ServeInv, LooksKnow
  <2> QED BY <2>2, <2>3
<1>8. CacheKnows' /\ PoolsKnow'
  BY DEF TenancyInv, ServeInv, CacheKnows, PoolsKnow
<1> QED BY <1>6, <1>7, <1>8 DEF TenancyInv, ServeInv

LEMMA ResolveCached == ASSUME TenancyInv, NEW q \in Lookups, NEW n \in Names, T!resolve_cached(q, n) PROVE TenancyInv'
<1> USE IdentityAssumption
<1>1. /\ look[q] = T!NoLook /\ cache[n] # None /\ T!Takes(q, n, "resolved", cache[n], n \in stale)
      /\ UNCHANGED << provision, databases, tenant, admins, reg, write, stranded, crowded, faults, cache, pools, stale, lingering >>
  BY DEF T!resolve_cached, T!marks, T!Uncache, T!Evict
<1>2. cache[n] \in T!Rows
  BY <1>1, TenancyTypes DEF TenancyInv, RegInv
<1>3. reg[cache[n].id].name = n /\ (n \notin stale /\ ~T!Writing(n) => cache[n] = tenant[n])
  BY <1>1 DEF TenancyInv, ServeInv, CacheKnows, T!Writing
<1>4. PICK late \in BOOLEAN : late = (n \in stale)
  <2>1. CASE n \in stale
    <3>1. TRUE \in BOOLEAN /\ TRUE = (n \in stale)
      BY <2>1
    <3> QED BY <3>1
  <2>2. CASE n \notin stale
    <3>1. FALSE \in BOOLEAN /\ FALSE = (n \in stale)
      BY <2>2
    <3> QED BY <3>1
  <2> QED BY <2>1, <2>2
<1>5. PICK given \in T!Rows : given = cache[n]
  BY <1>2
<1>6. T!Takes(q, n, "resolved", given, late)
  BY <1>1, <1>4, <1>5
<1> QED BY <1>1, <1>3, <1>4, <1>5, <1>6, Taking

LEMMA FindByName == ASSUME TenancyInv, NEW q \in Lookups, NEW n \in Names, T!find_by_name(q, n) PROVE TenancyInv'
<1> USE IdentityAssumption
<1>1. /\ look[q] = T!NoLook /\ tenant[n] # None /\ T!Takes(q, n, "read", tenant[n], FALSE)
      /\ UNCHANGED << provision, databases, tenant, admins, reg, write, stranded, crowded, faults, cache, pools, stale, lingering >>
  BY DEF T!find_by_name, T!marks, T!Uncache, T!Evict
<1>2. tenant[n] \in T!Rows /\ reg[tenant[n].id].name = n
  BY <1>1, TenantIds DEF TenancyInv, RegInv, RowsOwned
<1> QED BY <1>1, <1>2, Taking

\* What a request leaves when it is through with a statement or dropped.
LEMMA LooksGo ==
    ASSUME TenancyInv, NEW q \in Lookups, look' \in [Lookups -> LookRow], \A p \in Lookups \ {q} : look'[p] = look[p],
           \/ look'[q] = T!NoLook
           \/ look[q] # T!NoLook /\ look'[q].step = "resolved" /\ look'[q].name = look[q].name /\ look'[q].row = look[q].row
              /\ look'[q].late = look[q].late,
           UNCHANGED << tenant, reg, write >>
    PROVE  LooksKnow'
<1>1. \A p \in Lookups : T!Writing(look[p].name)' <=> T!Writing(look'[p].name)
  BY DEF T!Writing
<1> SUFFICES ASSUME NEW p \in Lookups, look'[p] # T!NoLook
             PROVE  /\ look'[p].step # "idle" /\ look'[p].name \in Names /\ look'[p].row \in T!Rows
                    /\ reg[look'[p].row.id].name = look'[p].name
                    /\ T!Writing(look'[p].name) => look'[p].late
                    /\ look'[p].late \/ look'[p].row = tenant[look'[p].name]
  BY <1>1 DEF LooksKnow
<1>2. CASE p = q
  BY <1>2 DEF TenancyInv, ServeInv, LooksKnow
<1>3. CASE p # q
  BY <1>3 DEF TenancyInv, ServeInv, LooksKnow
<1> QED BY <1>2, <1>3

LEMMA ResolveInsert == ASSUME TenancyInv, NEW q \in Lookups, T!resolve_insert(q) PROVE TenancyInv'
<1> USE IdentityAssumption
<1> DEFINE n == look[q].name
<1>1. /\ look[q].step = "read" /\ cache' = [cache EXCEPT ![n] = look[q].row]
      /\ look' = [look EXCEPT ![q] = [look[q] EXCEPT !.step = "resolved"]]
      /\ stale' = IF look[q].late THEN stale \cup {n} ELSE stale
      /\ UNCHANGED << provision, databases, admins, reg, write, stranded, crowded, faults, tenant, pools, lingering >>
  BY DEF T!resolve_insert
<1>2. look[q] # T!NoLook
  BY <1>1 DEF T!NoLook
<1>3. /\ n \in Names /\ look[q].row \in T!Rows /\ reg[look[q].row.id].name = n
      /\ T!Writing(n) => look[q].late
      /\ look[q].late \/ look[q].row = tenant[n]
  BY <1>2 DEF TenancyInv, ServeInv, LooksKnow
<1>4. look \in [Lookups -> LookRow] /\ cache \in [Names -> T!Rows \cup {None}] /\ stale \subseteq Names
  BY TenancyTypes DEF TenancyInv, RegInv
<1>5. LET l == [look[q] EXCEPT !.step = "resolved"] IN
        l \in LookRow /\ l.step = "resolved" /\ l.name = n /\ l.row = look[q].row /\ l.late = look[q].late
  BY <1>4 DEF LookRow
<1>6. /\ look' \in [Lookups -> LookRow] /\ (\A p \in Lookups \ {q} : look'[p] = look[p])
      /\ look'[q].step = "resolved" /\ look'[q].name = n /\ look'[q].row = look[q].row /\ look'[q].late = look[q].late
  BY <1>1, <1>4, <1>5
<1> HIDE DEF n
<1>7. cache' \in [Names -> T!Rows \cup {None}] /\ cache'[n] = look[q].row /\ \A m \in Names \ {n} : cache'[m] = cache[m]
  BY <1>1, <1>3, <1>4
<1>8. stale' \subseteq Names /\ stale \subseteq stale' /\ (look[q].late => n \in stale')
  BY <1>1, <1>3, <1>4
<1>9. T!TypeOK'
  BY <1>1, <1>6, <1>7, <1>8 DEF TenancyInv, RegInv, T!TypeOK, LookRow
<1>10. RegInv'
  BY <1>1, <1>9, RegSame DEF TenancyInv
<1>11. LooksKnow'
  BY <1>1, <1>2, <1>6, <1>8, LooksGo DEF n
<1>12. CacheKnows'
  <2> SUFFICES ASSUME NEW m \in Names, cache'[m] # None
               PROVE  /\ reg[cache'[m].id].name = m
                      /\ m \in stale' \/ cache'[m] = tenant[m] \/ \E w \in Writers : write[w].step = "updated" /\ write[w].name = m
                      /\ \A x \in Registrations : reg[x].name = m /\ reg[x].step \in {"evict", "delete"} => m \in stale'
    BY <1>1 DEF CacheKnows
  <2>1. CASE m = n
    <3>1. (\E x \in Registrations : reg[x].name = n /\ reg[x].step \in {"evict", "delete"}) => look[q].late
      BY <1>3 DEF T!Writing
    <3> QED BY <1>3, <1>7, <1>8, <2>1, <3>1
  <2>2. CASE m # n
    BY <1>7, <1>8, <2>2 DEF TenancyInv, ServeInv, CacheKnows
  <2> QED BY <2>1, <2>2
<1>13. PoolsKnow'
  BY <1>1, <1>8 DEF TenancyInv, ServeInv, PoolsKnow
<1> QED BY <1>10, <1>11, <1>12, <1>13 DEF TenancyInv, ServeInv

LEMMA ConnectionFor == ASSUME TenancyInv, NEW q \in Lookups, T!connection_for(q) PROVE TenancyInv'
<1> USE IdentityAssumption
<1> DEFINE n == look[q].name
           id == look[q].row.id
<1>1. /\ look[q].step = "resolved" /\ look' = [look EXCEPT ![q] = T!NoLook]
      /\ UNCHANGED << provision, databases, admins, reg, write, stranded, crowded, faults, tenant, cache, stale >>
      /\ \/ pools' = pools /\ lingering' = lingering
         \/ /\ look[q].row.active /\ pools' = pools \cup {id}
            /\ lingering' = IF look[q].late THEN lingering \cup {id} ELSE lingering
  BY DEF T!connection_for
<1>2. look[q] # T!NoLook
  BY <1>1 DEF T!NoLook
<1>3. /\ n \in Names /\ look[q].row \in T!Rows /\ reg[id].name = n
      /\ T!Writing(n) => look[q].late
      /\ look[q].late \/ look[q].row = tenant[n]
  BY <1>2 DEF TenancyInv, ServeInv, LooksKnow
<1>4. look \in [Lookups -> LookRow] /\ lingering \subseteq Registrations /\ pools \subseteq Registrations
  BY TenancyTypes DEF TenancyInv, RegInv
<1>5. T!NoLook \in LookRow
  BY DEF T!NoLook, LookRow
<1>6. look' \in [Lookups -> LookRow] /\ look'[q] = T!NoLook /\ \A p \in Lookups \ {q} : look'[p] = look[p]
  BY <1>1, <1>4, <1>5
<1>7. id \in Registrations
  BY <1>3 DEF T!Rows
<1> HIDE DEF n, id
<1>8. lingering' \subseteq Registrations /\ lingering \subseteq lingering' /\ pools' \subseteq Registrations
  BY <1>1, <1>3, <1>4, <1>7
<1>9. T!TypeOK'
  BY <1>1, <1>6, <1>8 DEF TenancyInv, RegInv, T!TypeOK, LookRow
<1>10. RegInv'
  BY <1>1, <1>9, RegSame DEF TenancyInv
<1>11. LooksKnow'
  BY <1>1, <1>6, <1>8, LooksGo
<1>12. CacheKnows'
  BY <1>1, <1>8 DEF TenancyInv, ServeInv, CacheKnows
<1>13. PoolsKnow'
  <2> SUFFICES ASSUME NEW x \in pools'
               PROVE  /\ reg[x].name \in Names
                      /\ x \notin lingering' =>
                           /\ reg[x].step # "delete" /\ tenant[reg[x].name] # None /\ tenant[reg[x].name].id = x
                           /\ tenant[reg[x].name].active \/ \E w \in Writers : write[w].name = reg[x].name /\ write[w].evicts
    BY <1>1 DEF PoolsKnow
  <2>1. CASE x \in pools
    BY <1>8, <2>1 DEF TenancyInv, ServeInv, PoolsKnow
  <2>2. CASE x \notin pools
    <3>1. x = id /\ look[q].row.active /\ lingering' = IF look[q].late THEN lingering \cup {id} ELSE lingering
      BY <1>1, <2>2
    <3>2. reg[id].name = n /\ n \in Names
      BY <1>3
    <3>3. ASSUME id \notin lingering' PROVE ~T!Writing(n) /\ look[q].row = tenant[n]
      BY <1>3, <3>1, <3>3
    <3>4. ASSUME id \notin lingering' PROVE reg[id].step # "delete" /\ tenant[n] # None /\ tenant[n].id = id /\ tenant[n].active
      BY <1>3, <1>7, <3>1, <3>2, <3>3, <3>4 DEF T!Writing, id
    <3> QED BY <3>1, <3>2, <3>4
  <2> QED BY <2>1, <2>2
<1> QED BY <1>10, <1>11, <1>12, <1>13 DEF TenancyInv, ServeInv

LEMMA CacheExpires == ASSUME TenancyInv, NEW n \in Names, T!cache_expires(n) PROVE TenancyInv'
<1> USE IdentityAssumption
<1>1. /\ cache' = [cache EXCEPT ![n] = None]
      /\ UNCHANGED << provision, databases, admins, reg, write, stranded, crowded, faults, tenant, pools, look, lingering >>
      /\ stale' = stale \ {n}
  BY DEF T!cache_expires, T!marks, T!Uncache, T!Evict
<1>2. cache \in [Names -> T!Rows \cup {None}]
  BY TenancyTypes DEF TenancyInv, RegInv
<1>3. cache' \in [Names -> T!Rows \cup {None}] /\ \A m \in Names : cache'[m] # None => cache'[m] = cache[m] /\ (m \in stale' <=> m \in stale)
  BY <1>1, <1>2
<1>4. T!TypeOK'
  BY <1>1, <1>3 DEF TenancyInv, RegInv, T!TypeOK
<1>5. RegInv'
  BY <1>1, <1>4, RegSame DEF TenancyInv
<1>6. LooksKnow'
  <2>1. \A q \in Lookups : T!Writing(look[q].name)' <=> T!Writing(look[q].name)
    BY <1>1 DEF T!Writing
  <2> QED BY <1>1, <2>1 DEF TenancyInv, ServeInv, LooksKnow
<1>7. CacheKnows' /\ PoolsKnow'
  BY <1>1, <1>3 DEF TenancyInv, ServeInv, CacheKnows, PoolsKnow
<1> QED BY <1>5, <1>6, <1>7 DEF TenancyInv, ServeInv

LEMMA WriterGoes ==
    ASSUME T!TypeOK, NEW w \in Writers, NEW given \in WriteRow, write' = [write EXCEPT ![w] = given]
    PROVE  write' \in [Writers -> WriteRow] /\ write'[w] = given /\ \A v \in Writers \ {w} : write'[v] = write[v]
BY TenancyTypes

LEMMA WriteRows ==
    ASSUME TenancyInv, NEW w \in Writers, NEW n \in Names, tenant[n] # None, NEW given \in T!Rows, given.id = tenant[n].id, NEW evicts \in BOOLEAN,
           given.active \/ evicts \/ ~tenant[n].active, T!Writes(w, n, given, evicts)
    PROVE  TenancyInv'
<1> USE IdentityAssumption
<1>1. /\ write[w] = T!NoWrite /\ tenant[n].id \in admins /\ tenant' = [tenant EXCEPT ![n] = given]
      /\ write' = [write EXCEPT ![w] = [step |-> "updated", name |-> n, evicts |-> evicts]] /\ T!Overtake(n)
      /\ UNCHANGED << provision, databases, admins, reg, stranded, crowded, faults, cache, pools, stale, lingering >>
  BY DEF T!Writes, T!marks, T!Uncache, T!Evict
<1>2. /\ write' \in [Writers -> WriteRow] /\ write'[w].step = "updated" /\ write'[w].name = n /\ write'[w].evicts = evicts
      /\ \A v \in Writers \ {w} : write'[v] = write[v]
  <2>1. [step |-> "updated", name |-> n, evicts |-> evicts] \in WriteRow
    BY DEF WriteRow
  <2> QED BY <1>1, <2>1, WriterGoes DEF TenancyInv, RegInv
<1>3. tenant \in [Names -> T!Rows \cup {None}] /\ given # None
  BY TenancyTypes DEF TenancyInv, RegInv
<1>4. tenant' \in [Names -> T!Rows \cup {None}] /\ tenant'[n] = given /\ \A m \in Names \ {n} : tenant'[m] = tenant[m]
  BY <1>1, <1>3
<1>40. /\ \A m \in Names : tenant'[m] # None <=> tenant[m] # None
       /\ \A m \in Names : tenant[m] # None => tenant'[m].id = tenant[m].id
  BY <1>3, <1>4
<1>5. T!TypeOK'
  <2>1. look' \in [Lookups -> LookRow]
    BY <1>1, Overtaken DEF TenancyInv, RegInv
  <2> QED BY <1>1, <1>2, <1>4, <2>1 DEF TenancyInv, RegInv, T!TypeOK, LookRow, WriteRow
<1>6. NamesGiven'
  BY <1>1 DEF TenancyInv, RegInv, NamesGiven
<1>7. RowsOwned'
  <2>1. \A m \in Names : tenant'[m] # None =>
           /\ reg'[tenant'[m].id].name = m /\ reg'[tenant'[m].id].step \in Holding \cup {"done", "refused"}
           /\ reg'[tenant'[m].id].step = "refused" => tenant'[m].id \in stranded'
           /\ provision' => tenant'[m].id \in databases'
    BY <1>1, <1>40 DEF TenancyInv, RegInv, RowsOwned
  <2>2. ASSUME NEW x \in Registrations, reg[x].step \in Holding \cup {"done"}
        PROVE  /\ tenant'[reg[x].name] # None /\ tenant'[reg[x].name].id = x
               /\ reg[x].step \in Holding => tenant'[reg[x].name].active
    <3>1. /\ tenant[reg[x].name] # None /\ tenant[reg[x].name].id = x /\ reg[x].name \in Names
          /\ reg[x].step \in Holding => tenant[reg[x].name].active
      BY <2>2 DEF TenancyInv, RegInv, RowsOwned, NamesGiven, Holding
    <3>2. reg[x].step \in Holding => reg[x].name # n
      BY <1>1, <3>1 DEF TenancyInv, RegInv, RowsOwned, Holding
    <3> QED BY <1>4, <1>40, <3>1, <3>2
  <2>3. \A x \in Registrations : x \in admins' <=> reg'[x].step = "done"
    BY <1>1 DEF TenancyInv, RegInv, RowsOwned
  <2> QED BY <1>1, <2>1, <2>2, <2>3 DEF RowsOwned
<1>8. DatabasesKept'
  <2>1. \A x \in Registrations : T!Recorded(x)' <=> T!Recorded(x)
    BY <1>40 DEF T!Recorded
  <2>2. databases \subseteq Registrations
    BY TenancyTypes DEF TenancyInv, RegInv
  <2> QED BY <1>1, <2>1, <2>2 DEF TenancyInv, RegInv, DatabasesKept
<1>9. CountHolds'
  <2>1. Taken' = Taken
    BY <1>40 DEF Taken
  <2> QED BY <1>1, <2>1 DEF TenancyInv, RegInv, CountHolds
<1>10. WritersName'
  <2> SUFFICES ASSUME NEW v \in Writers, write'[v] # T!NoWrite
               PROVE  write'[v].step # "idle" /\ write'[v].name \in Names /\ tenant'[write'[v].name] # None
                      /\ tenant'[write'[v].name].id \in admins'
    BY DEF WritersName
  <2>1. CASE v = w
    BY <1>1, <1>2, <1>40, <2>1
  <2>2. CASE v # w
    <3>1. write[v].step # "idle" /\ write[v].name \in Names /\ tenant[write[v].name] # None /\ tenant[write[v].name].id \in admins
          /\ write'[v] = write[v]
      BY <1>2, <2>2 DEF TenancyInv, RegInv, WritersName
    <3> QED BY <1>1, <1>40, <3>1
  <2> QED BY <2>1, <2>2
<1>11. LooksKnow'
  <2>1. \A m \in Names \ {n} : tenant'[m] = tenant[m] /\ (T!Writing(m)' => T!Writing(m))
    BY <1>1, <1>2, <1>4 DEF T!Writing
  <2> QED BY <1>1, <2>1, LooksKeep
<1>12. CacheKnows'
  <2> SUFFICES ASSUME NEW m \in Names, cache[m] # None
               PROVE  /\ reg[cache[m].id].name = m
                      /\ m \in stale \/ cache[m] = tenant'[m] \/ \E v \in Writers : write'[v].step = "updated" /\ write'[v].name = m
                      /\ \A x \in Registrations : reg[x].name = m /\ reg[x].step \in {"evict", "delete"} => m \in stale
    BY <1>1 DEF CacheKnows
  <2>1. /\ reg[cache[m].id].name = m
        /\ m \in stale \/ cache[m] = tenant[m] \/ \E v \in Writers : write[v].step = "updated" /\ write[v].name = m
        /\ \A x \in Registrations : reg[x].name = m /\ reg[x].step \in {"evict", "delete"} => m \in stale
    BY DEF TenancyInv, ServeInv, CacheKnows
  <2>2. \A v \in Writers : write[v].step = "updated" => write'[v] = write[v]
    BY <1>1, <1>2 DEF T!NoWrite
  <2> QED BY <1>2, <1>4, <2>1, <2>2
<1>13. PoolsKnow'
  <2> SUFFICES ASSUME NEW x \in pools
               PROVE  /\ reg[x].name \in Names
                      /\ x \notin lingering =>
                           /\ reg[x].step # "delete" /\ tenant'[reg[x].name] # None /\ tenant'[reg[x].name].id = x
                           /\ tenant'[reg[x].name].active \/ \E v \in Writers : write'[v].name = reg[x].name /\ write'[v].evicts
    BY <1>1 DEF PoolsKnow
  <2>1. /\ reg[x].name \in Names
        /\ x \notin lingering =>
             /\ reg[x].step # "delete" /\ tenant[reg[x].name] # None /\ tenant[reg[x].name].id = x
             /\ tenant[reg[x].name].active \/ \E v \in Writers : write[v].name = reg[x].name /\ write[v].evicts
    BY DEF TenancyInv, ServeInv, PoolsKnow
  <2>2. \A v \in Writers : write[v].name = reg[x].name => write'[v] = write[v]
    BY <1>1, <1>2, <2>1 DEF T!NoWrite
  <2> QED BY <1>2, <1>4, <1>40, <2>1, <2>2
<1> QED BY <1>5, <1>6, <1>7, <1>8, <1>9, <1>10, <1>11, <1>12, <1>13 DEF TenancyInv, RegInv, ServeInv

LEMMA SetActive == ASSUME TenancyInv, NEW w \in Writers, NEW n \in Names, NEW yes \in BOOLEAN, T!set_active(w, n, yes) PROVE TenancyInv'
<1>1. PICK old : old = tenant[n]
  OBVIOUS
<1>2. old # None /\ T!Writes(w, n, [old EXCEPT !.active = yes], ~yes)
  BY <1>1 DEF T!set_active
<1>3. old \in T!Rows
  BY <1>1, <1>2, TenantIds DEF TenancyInv, RegInv
<1>4. PICK given \in T!Rows : given = [old EXCEPT !.active = yes]
  BY <1>3 DEF T!Rows
<1>5. given.id = old.id /\ given.active = yes
  BY <1>3, <1>4 DEF T!Rows
<1>6. PICK evicts \in BOOLEAN : evicts = ~yes
  OBVIOUS
<1>7. T!Writes(w, n, given, evicts)
  BY <1>2, <1>4, <1>6
<1>8. given.active \/ evicts \/ ~tenant[n].active
  BY <1>5, <1>6
<1> QED BY <1>1, <1>2, <1>5, <1>7, <1>8, WriteRows

LEMMA SetSettings == ASSUME TenancyInv, NEW w \in Writers, NEW n \in Names, T!set_settings(w, n) PROVE TenancyInv'
<1>1. PICK old : old = tenant[n]
  OBVIOUS
<1>2. old # None /\ T!Writes(w, n, [old EXCEPT !.settings = 1 - old.settings], FALSE)
  BY <1>1 DEF T!set_settings
<1>3. old \in T!Rows
  BY <1>1, <1>2, TenantIds DEF TenancyInv, RegInv
<1>4. \A k \in {0, 1} : [old EXCEPT !.settings = k] \in T!Rows /\ [old EXCEPT !.settings = k].id = old.id /\ [old EXCEPT !.settings = k].active = old.active
  BY <1>3 DEF T!Rows
<1>5. 1 - old.settings \in {0, 1}
  <2>1. old.settings \in {0, 1}
    BY <1>3 DEF T!Rows
  <2> QED BY <2>1
<1>6. PICK given \in T!Rows : given = [old EXCEPT !.settings = 1 - old.settings] /\ given.id = old.id /\ given.active = old.active
  BY <1>4, <1>5
<1>7. T!Writes(w, n, given, FALSE)
  BY <1>2, <1>6
<1>8. given.active \/ FALSE \/ ~old.active
  <2>1. old.active \in BOOLEAN
    BY <1>3 DEF T!Rows
  <2> QED BY <1>6, <2>1
<1> QED BY <1>1, <1>2, <1>6, <1>7, <1>8, WriteRows

\* A writer goes on, or is done with the write.
LEMMA WriterKeeps ==
    ASSUME RegInv, T!TypeOK', NEW w \in Writers, write[w] # T!NoWrite,
           \A v \in Writers \ {w} : write'[v] = write[v],
           \/ write'[w] = T!NoWrite
           \/ write'[w].step # "idle" /\ write'[w].name = write[w].name,
           UNCHANGED << provision, databases, tenant, admins, reg, stranded, crowded >>
    PROVE  RegInv'
<1>1. NamesGiven' /\ RowsOwned'
  BY DEF RegInv, NamesGiven, RowsOwned
<1>2. DatabasesKept'
  BY DEF RegInv, DatabasesKept, T!Recorded
<1>3. CountHolds'
  <2>1. Taken' = Taken
    BY DEF Taken
  <2> QED BY <2>1 DEF RegInv, CountHolds
<1>4. WritersName'
  BY DEF RegInv, WritersName
<1> QED BY <1>1, <1>2, <1>3, <1>4 DEF RegInv

LEMMA Saved == ASSUME TenancyInv, NEW w \in Writers, T!saved(w) PROVE TenancyInv'
<1> USE IdentityAssumption
<1>0. write[w].step = "updated" /\ write[w] # T!NoWrite /\ T!TypeOK
  BY DEF T!saved, T!NoWrite, TenancyInv, RegInv
<1>1. PICK n \in Names : n = write[w].name
  BY <1>0 DEF TenancyInv, RegInv, WritersName
<1>2. /\ cache' = [cache EXCEPT ![n] = None] /\ stale' = stale \ {n} /\ T!Overtake(n)
      /\ write' = [write EXCEPT ![w] = IF write[w].evicts THEN [write[w] EXCEPT !.step = "evict"] ELSE T!NoWrite]
      /\ UNCHANGED << provision, databases, admins, reg, stranded, crowded, faults, tenant, pools, lingering >>
  BY <1>1 DEF T!saved, T!Uncache
<1>3. /\ write' \in [Writers -> WriteRow]
      /\ write'[w] = T!NoWrite \/ (write'[w].step = "evict" /\ write'[w].name = n)
      /\ write[w].evicts => write'[w].name = n /\ write'[w].evicts
      /\ \A v \in Writers \ {w} : write'[v] = write[v]
  <2>1. write[w] \in WriteRow
    BY <1>0, TenancyTypes
  <2>2. PICK x : x = [write[w] EXCEPT !.step = "evict"]
    OBVIOUS
  <2>3. x \in WriteRow /\ x.step = "evict" /\ x.name = n /\ x.evicts = write[w].evicts
    BY <1>1, <2>1, <2>2 DEF WriteRow
  <2>4. T!NoWrite \in WriteRow
    BY DEF T!NoWrite, WriteRow
  <2>5. PICK y \in WriteRow : y = IF write[w].evicts THEN x ELSE T!NoWrite
    BY <2>3, <2>4
  <2>6. write' = [write EXCEPT ![w] = y]
    BY <1>2, <2>2, <2>5
  <2>7. write' \in [Writers -> WriteRow] /\ write'[w] = y /\ \A v \in Writers \ {w} : write'[v] = write[v]
    BY <1>0, <2>6, WriterGoes
  <2> QED BY <2>3, <2>5, <2>7
<1>4. /\ cache' \in [Names -> T!Rows \cup {None}]
      /\ cache'[n] = None /\ \A m \in Names \ {n} : cache'[m] = cache[m] /\ (m \in stale' <=> m \in stale)
  BY <1>0, <1>2, TenancyTypes
<1>5. T!TypeOK'
  <2>1. look' \in [Lookups -> LookRow] /\ stale' \subseteq Names
    BY <1>0, <1>2, Overtaken, TenancyTypes
  <2> QED BY <1>0, <1>2, <1>3, <1>4, <2>1 DEF T!TypeOK, LookRow, WriteRow
<1>6. RegInv'
  <2>1. write'[w] = T!NoWrite \/ (write'[w].step # "idle" /\ write'[w].name = write[w].name)
    BY <1>1, <1>3
  <2> QED BY <1>0, <1>2, <1>3, <1>5, <2>1, WriterKeeps DEF TenancyInv
<1>60. T!NoWrite.name = None
  BY DEF T!NoWrite
<1>7. LooksKnow'
  <2>1. \A m \in Names \ {n} : tenant'[m] = tenant[m] /\ (T!Writing(m)' => T!Writing(m))
    BY <1>2, <1>3, <1>60 DEF T!Writing
  <2> QED BY <1>2, <2>1, LooksKeep
<1>8. CacheKnows'
  <2> SUFFICES ASSUME NEW m \in Names, cache'[m] # None
               PROVE  /\ reg[cache'[m].id].name = m
                      /\ m \in stale' \/ cache'[m] = tenant[m] \/ \E v \in Writers : write'[v].step = "updated" /\ write'[v].name = m
                      /\ \A x \in Registrations : reg[x].name = m /\ reg[x].step \in {"evict", "delete"} => m \in stale'
    BY <1>2 DEF CacheKnows
  <2>1. m # n /\ cache'[m] = cache[m] /\ (m \in stale' <=> m \in stale)
    BY <1>4
  <2>2. \A v \in Writers : write[v].name = m => write'[v] = write[v]
    BY <1>1, <1>3, <2>1
  <2> QED BY <2>1, <2>2 DEF TenancyInv, ServeInv, CacheKnows
<1>9. PoolsKnow'
  <2>1. \A v \in Writers : write[v].evicts => write'[v].name = write[v].name /\ write'[v].evicts
    BY <1>1, <1>3
  <2> QED BY <1>2, <2>1 DEF TenancyInv, ServeInv, PoolsKnow
<1> QED BY <1>6, <1>7, <1>8, <1>9 DEF TenancyInv, ServeInv

\* The pool that is looked for goes, and nothing else does.
LEMMA Evicts ==
    ASSUME T!TypeOK, NEW r, T!Evict(r)
    PROVE  /\ pools' \subseteq pools /\ lingering' \subseteq lingering /\ r \notin pools'
           /\ \A x \in pools' : x \in lingering' <=> x \in lingering
BY DEF T!Evict

LEMMA EvictPool == ASSUME TenancyInv, NEW w \in Writers, T!evict_pool(w) PROVE TenancyInv'
<1> USE IdentityAssumption
<1>0. write[w].step = "evict" /\ write[w] # T!NoWrite /\ T!TypeOK
  BY DEF T!evict_pool, T!NoWrite, TenancyInv, RegInv
<1>1. PICK n \in Names : n = write[w].name
  BY <1>0 DEF TenancyInv, RegInv, WritersName
<1>2. /\ T!Evict(tenant[n].id) /\ T!Overtake(n) /\ write' = [write EXCEPT ![w] = T!NoWrite]
      /\ UNCHANGED << provision, databases, admins, reg, stranded, crowded, faults, tenant, cache, stale >>
  BY <1>1 DEF T!evict_pool
<1>3. write' \in [Writers -> WriteRow] /\ write'[w] = T!NoWrite /\ \A v \in Writers \ {w} : write'[v] = write[v]
  <2>1. T!NoWrite \in WriteRow
    BY DEF T!NoWrite, WriteRow
  <2> QED BY <1>0, <1>2, <2>1, WriterGoes
<1>4. /\ pools' \subseteq pools /\ lingering' \subseteq lingering /\ tenant[n].id \notin pools'
      /\ \A x \in pools' : x \in lingering' <=> x \in lingering
  BY <1>0, <1>2, Evicts
<1>5. T!TypeOK'
  <2>1. look' \in [Lookups -> LookRow]
    BY <1>0, <1>2, Overtaken
  <2> QED BY <1>0, <1>2, <1>3, <1>4, <2>1 DEF T!TypeOK, LookRow, WriteRow
<1>6. RegInv'
  BY <1>0, <1>2, <1>3, <1>5, WriterKeeps DEF TenancyInv
<1>60. T!NoWrite.name = None /\ T!NoWrite.step = "idle"
  BY DEF T!NoWrite
<1>7. LooksKnow'
  <2>1. \A m \in Names \ {n} : tenant'[m] = tenant[m] /\ (T!Writing(m)' => T!Writing(m))
    BY <1>2, <1>3, <1>60 DEF T!Writing
  <2> QED BY <1>2, <2>1, LooksKeep
<1>8. CacheKnows'
  <2>1. \A v \in Writers : write[v].step = "updated" => write'[v] = write[v]
    BY <1>0, <1>3
  <2> QED BY <1>2, <2>1 DEF TenancyInv, ServeInv, CacheKnows
<1>9. PoolsKnow'
  <2> SUFFICES ASSUME NEW x \in pools'
               PROVE  /\ reg[x].name \in Names
                      /\ x \notin lingering' =>
                           /\ reg[x].step # "delete" /\ tenant[reg[x].name] # None /\ tenant[reg[x].name].id = x
                           /\ tenant[reg[x].name].active \/ \E v \in Writers : write'[v].name = reg[x].name /\ write'[v].evicts
    BY <1>2 DEF PoolsKnow
  <2>1. /\ reg[x].name \in Names
        /\ x \notin lingering' =>
             /\ reg[x].step # "delete" /\ tenant[reg[x].name] # None /\ tenant[reg[x].name].id = x
             /\ tenant[reg[x].name].active \/ \E v \in Writers : write[v].name = reg[x].name /\ write[v].evicts
    BY <1>4 DEF TenancyInv, ServeInv, PoolsKnow
  <2>2. CASE reg[x].name = n
    BY <1>4, <2>1, <2>2
  <2>3. CASE reg[x].name # n
    <3>1. \A v \in Writers : write[v].name = reg[x].name => write'[v] = write[v]
      BY <1>1, <1>3, <2>3
    <3> QED BY <2>1, <3>1
  <2> QED BY <2>2, <2>3
<1> QED BY <1>6, <1>7, <1>8, <1>9 DEF TenancyInv, ServeInv

LEMMA DropWrite == ASSUME TenancyInv, NEW w \in Writers, T!drop_write(w) PROVE TenancyInv'
<1> USE IdentityAssumption
<1>0. write[w] # T!NoWrite /\ T!TypeOK
  BY DEF T!drop_write, TenancyInv, RegInv
<1>1. PICK n \in Names : n = write[w].name
  BY <1>0 DEF TenancyInv, RegInv, WritersName
<1>2. /\ stale' = IF write[w].step = "updated" /\ cache[n] # None THEN stale \cup {n} ELSE stale
      /\ lingering' = IF write[w].evicts THEN lingering \cup (pools \cap {tenant[n].id}) ELSE lingering
      /\ write' = [write EXCEPT ![w] = T!NoWrite]
      /\ UNCHANGED << provision, databases, admins, reg, stranded, crowded, faults, tenant, cache, pools, look >>
  BY <1>1 DEF T!drop_write
<1>3. write' \in [Writers -> WriteRow] /\ write'[w] = T!NoWrite /\ \A v \in Writers \ {w} : write'[v] = write[v]
  <2>1. T!NoWrite \in WriteRow
    BY DEF T!NoWrite, WriteRow
  <2> QED BY <1>0, <1>2, <2>1, WriterGoes
<1>4. /\ stale \subseteq stale' /\ stale' \subseteq Names
      /\ write[w].step = "updated" /\ cache[n] # None => n \in stale'
  BY <1>0, <1>2, TenancyTypes
<1>40. /\ lingering \subseteq lingering' /\ lingering' \subseteq Registrations
       /\ write[w].evicts => \A x \in pools : x = tenant[n].id => x \in lingering'
  BY <1>0, <1>2, TenancyTypes
<1>5. T!TypeOK'
  BY <1>0, <1>2, <1>3, <1>4, <1>40 DEF T!TypeOK, WriteRow
<1>6. RegInv'
  BY <1>0, <1>2, <1>3, <1>5, WriterKeeps DEF TenancyInv
<1>60. T!NoWrite.name = None /\ T!NoWrite.step = "idle"
  BY DEF T!NoWrite
<1>7. LooksKnow'
  <2>1. \A q \in Lookups : look[q] # T!NoLook => look[q].name \in Names
    BY DEF TenancyInv, ServeInv, LooksKnow
  <2>2. \A m \in Names : T!Writing(m)' => T!Writing(m)
    BY <1>2, <1>3, <1>60 DEF T!Writing
  <2>4. \A q \in Lookups : look[q] # T!NoLook => (T!Writing(look[q].name)' => T!Writing(look[q].name))
    <3> SUFFICES ASSUME NEW q \in Lookups, look[q] # T!NoLook, T!Writing(look[q].name)' PROVE T!Writing(look[q].name)
      OBVIOUS
    <3>1. PICK m \in Names : m = look[q].name
      BY <2>1
    <3>2. T!Writing(m)'
      BY <1>2, <3>1 DEF T!Writing
    <3>3. T!Writing(m)
      BY <2>2, <3>2
    <3> QED BY <3>1, <3>3
  <2> QED BY <1>2, <2>4 DEF TenancyInv, ServeInv, LooksKnow
<1>8. CacheKnows'
  <2> SUFFICES ASSUME NEW m \in Names, cache[m] # None
               PROVE  /\ reg[cache[m].id].name = m
                      /\ m \in stale' \/ cache[m] = tenant[m] \/ \E v \in Writers : write'[v].step = "updated" /\ write'[v].name = m
                      /\ \A x \in Registrations : reg[x].name = m /\ reg[x].step \in {"evict", "delete"} => m \in stale'
    BY <1>2 DEF CacheKnows
  <2>1. /\ reg[cache[m].id].name = m
        /\ m \in stale \/ cache[m] = tenant[m] \/ \E v \in Writers : write[v].step = "updated" /\ write[v].name = m
        /\ \A x \in Registrations : reg[x].name = m /\ reg[x].step \in {"evict", "delete"} => m \in stale
    BY DEF TenancyInv, ServeInv, CacheKnows
  <2>2. ASSUME NEW v \in Writers, write[v].step = "updated", write[v].name = m
        PROVE  m \in stale' \/ (write'[v].step = "updated" /\ write'[v].name = m)
    BY <1>1, <1>3, <1>4, <2>2
  <2> QED BY <1>4, <2>1, <2>2
<1>9. PoolsKnow'
  <2> SUFFICES ASSUME NEW x \in pools
               PROVE  /\ reg[x].name \in Names
                      /\ x \notin lingering' =>
                           /\ reg[x].step # "delete" /\ tenant[reg[x].name] # None /\ tenant[reg[x].name].id = x
                           /\ tenant[reg[x].name].active \/ \E v \in Writers : write'[v].name = reg[x].name /\ write'[v].evicts
    BY <1>2 DEF PoolsKnow
  <2>1. /\ reg[x].name \in Names
        /\ x \notin lingering' =>
             /\ reg[x].step # "delete" /\ tenant[reg[x].name] # None /\ tenant[reg[x].name].id = x
             /\ tenant[reg[x].name].active \/ \E v \in Writers : write[v].name = reg[x].name /\ write[v].evicts
    BY <1>40 DEF TenancyInv, ServeInv, PoolsKnow
  <2>2. ASSUME x \notin lingering', NEW v \in Writers, write[v].name = reg[x].name, write[v].evicts
        PROVE  write'[v].name = reg[x].name /\ write'[v].evicts
    BY <1>1, <1>3, <1>40, <2>1, <2>2
  <2> QED BY <2>1, <2>2
<1> QED BY <1>6, <1>7, <1>8, <1>9 DEF TenancyInv, ServeInv

LEMMA DropLookup == ASSUME TenancyInv, NEW q \in Lookups, T!drop_lookup(q) PROVE TenancyInv'
<1> USE IdentityAssumption
<1>1. /\ look' = [look EXCEPT ![q] = T!NoLook]
      /\ UNCHANGED << provision, databases, admins, reg, write, stranded, crowded, faults, tenant, cache, pools, stale, lingering >>
  BY DEF T!drop_lookup, T!marks
<1>2. look' \in [Lookups -> LookRow] /\ look'[q] = T!NoLook /\ \A p \in Lookups \ {q} : look'[p] = look[p]
  <2>1. T!NoLook \in LookRow /\ look \in [Lookups -> LookRow]
    BY TenancyTypes DEF T!NoLook, LookRow, TenancyInv, RegInv
  <2> QED BY <1>1, <2>1
<1>3. T!TypeOK'
  BY <1>1, <1>2 DEF TenancyInv, RegInv, T!TypeOK, LookRow
<1>4. RegInv'
  BY <1>1, <1>3, RegSame DEF TenancyInv
<1>5. LooksKnow'
  BY <1>1, <1>2, LooksGo
<1>6. CacheKnows' /\ PoolsKnow'
  BY <1>1 DEF TenancyInv, ServeInv, CacheKnows, PoolsKnow
<1> QED BY <1>4, <1>5, <1>6 DEF TenancyInv, ServeInv

LEMMA DropRegistration == ASSUME TenancyInv, NEW r \in Registrations, T!drop_registration(r) PROVE TenancyInv'
<1> USE IdentityAssumption
<1>1. /\ reg[r].step \in T!Underway /\ T!Fault /\ T!Goes(r, "refused") /\ stranded' = stranded \cup {r}
      /\ UNCHANGED << provision, databases, admins, write, crowded, tenant, cache, pools, look, stale, lingering >>
  BY DEF T!drop_registration, T!directory, T!marks
<1>2. /\ reg'[r].step = "refused" /\ reg'[r].name = reg[r].name
      /\ \A x \in Registrations \ {r} : reg'[x] = reg[x]
      /\ reg' \in [Registrations -> RegRow]
  BY <1>1, RegGoes DEF TenancyInv, RegInv
<1>3. T!TypeOK'
  <2>1. faults' \in 0..MaxFaults
    BY <1>1, FaultCounted DEF TenancyInv, RegInv
  <2>2. stranded' \subseteq Registrations
    BY <1>1, TenancyTypes DEF TenancyInv, RegInv
  <2> QED BY <1>1, <1>2, <2>1, <2>2 DEF TenancyInv, RegInv, T!TypeOK, RegRow
<1>4. /\ r \notin admins /\ reg[r].name \in Names /\ (r \in databases => provision)
      /\ stranded \subseteq stranded' /\ r \in stranded' /\ reg[r].step \notin {"idle", "done", "refused"}
  BY <1>1 DEF TenancyInv, RegInv, RowsOwned, NamesGiven, DatabasesKept, T!Underway
<1>5. RegInv'
  BY <1>1, <1>2, <1>3, <1>4, StepKeeps DEF TenancyInv, Holding, Crowding
<1>6. ServeInv'
  BY <1>1, <1>2, <1>3, ServeKeeps
<1> QED BY <1>5, <1>6 DEF TenancyInv

LEMMA Crash == ASSUME TenancyInv, T!crash PROVE TenancyInv'
<1> USE IdentityAssumption
<1>1. /\ T!Fault /\ stranded' = stranded \cup { r \in Registrations : reg[r].step \in T!Underway }
      /\ reg' = [r \in Registrations |-> IF reg[r].step \in T!Underway THEN [reg[r] EXCEPT !.step = "refused"] ELSE reg[r]]
      /\ cache' = [n \in Names |-> None] /\ pools' = {} /\ stale' = {} /\ lingering' = {}
      /\ look' = [q \in Lookups |-> T!NoLook] /\ write' = [w \in Writers |-> T!NoWrite]
      /\ UNCHANGED << provision, databases, tenant, admins, crowded >>
  BY DEF T!crash, T!marks, T!Uncache, T!Evict
<1>2. reg \in [Registrations -> RegRow]
  BY TenancyTypes DEF TenancyInv, RegInv
<1>3. \A r \in Registrations :
        /\ reg[r].step \in T!Underway => reg'[r].step = "refused" /\ reg'[r].name = reg[r].name /\ reg'[r] \in RegRow /\ r \in stranded'
        /\ reg[r].step \notin T!Underway => reg'[r] = reg[r]
  <2>1. \A r \in Registrations : LET x == [reg[r] EXCEPT !.step = "refused"] IN x \in RegRow /\ x.step = "refused" /\ x.name = reg[r].name
    BY <1>2 DEF RegRow
  <2> QED BY <1>1, <2>1
<1>30. \A r \in Registrations : reg'[r].name = reg[r].name /\ reg'[r].step \in {"idle", "done", "refused"}
  BY <1>2, <1>3 DEF RegRow
<1>4. T!TypeOK'
  <2>1. faults' \in 0..MaxFaults
    BY <1>1, FaultCounted DEF TenancyInv, RegInv
  <2>2. reg' \in [Registrations -> RegRow]
    BY <1>1, <1>2, <1>3
  <2>3. look' \in [Lookups -> LookRow] /\ write' \in [Writers -> WriteRow] /\ cache' \in [Names -> T!Rows \cup {None}]
    BY <1>1 DEF T!NoLook, T!NoWrite, LookRow, WriteRow
  <2>4. stranded' \subseteq Registrations
    BY <1>1, TenancyTypes DEF TenancyInv, RegInv
  <2> QED BY <1>1, <2>1, <2>2, <2>3, <2>4 DEF TenancyInv, RegInv, T!TypeOK, RegRow, LookRow, WriteRow
<1>5. NamesGiven'
  BY <1>3, <1>30 DEF TenancyInv, RegInv, NamesGiven, T!Underway
<1>6. RowsOwned'
  <2>1. ASSUME NEW m \in Names, tenant[m] # None
        PROVE  /\ reg'[tenant[m].id].name = m /\ reg'[tenant[m].id].step \in Holding \cup {"done", "refused"}
               /\ reg'[tenant[m].id].step = "refused" => tenant[m].id \in stranded'
               /\ provision' => tenant[m].id \in databases'
    <3>1. tenant[m].id \in Registrations
      BY <2>1, TenantIds DEF TenancyInv, RegInv
    <3>2. /\ reg[tenant[m].id].name = m /\ reg[tenant[m].id].step \in Holding \cup {"done", "refused"}
          /\ reg[tenant[m].id].step = "refused" => tenant[m].id \in stranded
          /\ provision => tenant[m].id \in databases
      BY <2>1 DEF TenancyInv, RegInv, RowsOwned
    <3> QED BY <1>1, <1>3, <3>1, <3>2 DEF Holding, T!Underway
  <2>2. ASSUME NEW x \in Registrations, reg'[x].step \in Holding \cup {"done"}
        PROVE  reg'[x] = reg[x] /\ reg[x].step = "done"
    BY <1>3, <1>30, <2>2 DEF Holding
  <2>3. \A x \in Registrations : x \in admins' <=> reg'[x].step = "done"
    BY <1>1, <1>3 DEF TenancyInv, RegInv, RowsOwned, T!Underway
  <2>4. \A x \in Registrations : reg'[x].step \in Holding \cup {"done"} =>
         /\ tenant'[reg'[x].name] # None /\ tenant'[reg'[x].name].id = x
         /\ reg'[x].step \in Holding => tenant'[reg'[x].name].active
    BY <1>1, <2>2 DEF TenancyInv, RegInv, RowsOwned, Holding
  <2> QED BY <1>1, <2>1, <2>3, <2>4 DEF RowsOwned
<1>7. DatabasesKept'
  <2>1. databases \subseteq Registrations
    BY TenancyTypes DEF TenancyInv, RegInv
  <2>2. \A x \in Registrations : T!Recorded(x)' <=> T!Recorded(x)
    BY <1>1 DEF T!Recorded
  <2>3. stranded \subseteq stranded'
    BY <1>1
  <2>4. \A x \in databases' : provision' /\ reg'[x].step \notin {"idle", "checked", "counted"}
    BY <1>1, <1>3, <1>30, <2>1 DEF TenancyInv, RegInv, DatabasesKept
  <2>5. \A x \in databases' : reg'[x].step \in {"done", "refused"} => T!Recorded(x)' \/ x \in stranded'
    BY <1>1, <1>3, <2>1, <2>2, <2>3 DEF TenancyInv, RegInv, DatabasesKept
  <2> QED BY <1>30, <2>4, <2>5 DEF DatabasesKept
<1>8. CountHolds'
  <2>1. Taken' = Taken
    BY <1>1 DEF Taken
  <2>2. \A x \in Registrations : reg'[x].step \notin Crowding
    BY <1>30 DEF Crowding
  <2> QED BY <1>1, <2>1, <2>2 DEF TenancyInv, RegInv, CountHolds
<1>9. WritersName' /\ LooksKnow' /\ CacheKnows' /\ PoolsKnow'
  BY <1>1 DEF WritersName, LooksKnow, CacheKnows, PoolsKnow
<1> QED BY <1>4, <1>5, <1>6, <1>7, <1>8, <1>9 DEF TenancyInv, RegInv, ServeInv

LEMMA TenancyStep == TenancyInv /\ [T!Next]_tenancyVars => TenancyInv'
<1> SUFFICES ASSUME TenancyInv, [T!Next]_tenancyVars PROVE TenancyInv'
  OBVIOUS
<1>1. ASSUME NEW r \in Registrations, T!register(r) \/ T!remove(r) PROVE TenancyInv'
  BY <1>1, Check, CountTenants, CreateDatabase, MigrateFresh, Insert, DropDatabase, Connect, CreateUser, SeedAdmin,
     RemoveInvalidate, RemoveEvict, RemoveDelete DEF T!register, T!create, T!remove
<1>2. ASSUME NEW q \in Lookups, T!resolve_tenant(q) PROVE TenancyInv'
  BY <1>2, ResolveCached, FindByName, ResolveInsert, ConnectionFor DEF T!resolve_tenant
<1>3. ASSUME NEW w \in Writers, T!administer(w) PROVE TenancyInv'
  BY <1>3, SetActive, SetSettings, Saved, EvictPool DEF T!administer
<1>4. CASE UNCHANGED tenancyVars
  <2>1. T!TypeOK'
    BY <1>4 DEF tenancyVars, TenancyInv, RegInv, T!TypeOK
  <2>2. RegInv'
    BY <1>4, <2>1, RegSame DEF tenancyVars, TenancyInv
  <2>3. \A q \in Lookups : T!Writing(look[q].name)' <=> T!Writing(look[q].name)
    BY <1>4 DEF tenancyVars, T!Writing
  <2>4. LooksKnow'
    BY <1>4, <2>3 DEF tenancyVars, TenancyInv, ServeInv, LooksKnow
  <2>5. CacheKnows' /\ PoolsKnow'
    BY <1>4 DEF tenancyVars, TenancyInv, ServeInv, CacheKnows, PoolsKnow
  <2> QED BY <2>2, <2>4, <2>5 DEF TenancyInv, ServeInv
<1>5. CASE T!drop
  BY <1>5, DropWrite, DropLookup, DropRegistration DEF T!drop
<1> QED BY <1>1, <1>2, <1>3, <1>4, <1>5, CacheExpires, Crash DEF T!Next

LEMMA TenancyStart == T!Init => TenancyInv
<1> SUFFICES ASSUME T!Init PROVE TenancyInv
  OBVIOUS
<1> USE IdentityAssumption
<1>1. /\ provision \in BOOLEAN /\ crowded = FALSE /\ faults = 0
      /\ databases = {} /\ admins = {} /\ pools = {} /\ stranded = {} /\ stale = {} /\ lingering = {}
      /\ tenant = [n \in Names |-> None] /\ cache = [n \in Names |-> None]
      /\ reg = [r \in Registrations |-> [step |-> "idle", name |-> None]]
      /\ look = [q \in Lookups |-> T!NoLook] /\ write = [w \in Writers |-> T!NoWrite]
  BY DEF T!Init
<1>2. T!TypeOK
  <2>1. reg \in [Registrations -> RegRow]
    BY <1>1 DEF RegRow
  <2>2. look \in [Lookups -> LookRow] /\ write \in [Writers -> WriteRow]
    BY <1>1 DEF T!NoLook, T!NoWrite, LookRow, WriteRow
  <2>3. faults \in 0..MaxFaults
    BY <1>1
  <2> QED BY <1>1, <2>1, <2>2, <2>3 DEF T!TypeOK, RegRow, LookRow, WriteRow
<1>3. NamesGiven /\ RowsOwned /\ DatabasesKept
  BY <1>1 DEF NamesGiven, RowsOwned, DatabasesKept, Holding
<1>4. CountHolds
  <2>1. Taken = {}
    BY <1>1 DEF Taken
  <2>2. IsFiniteSet(Taken) /\ Cardinality(Taken) = 0
    BY <2>1, FS_EmptySet
  <2>3. \A r \in Registrations : reg[r].step \notin Crowding
    BY <1>1 DEF Crowding
  <2> QED BY <2>2, <2>3 DEF CountHolds
<1>5. WritersName /\ LooksKnow /\ CacheKnows /\ PoolsKnow
  BY <1>1 DEF WritersName, LooksKnow, CacheKnows, PoolsKnow
<1> QED BY <1>2, <1>3, <1>4, <1>5 DEF TenancyInv, RegInv, ServeInv

LEMMA TenancySafe == TenancyInv => TenanciesSound
<1> SUFFICES ASSUME TenancyInv PROVE TenanciesSound
  OBVIOUS
<1> USE IdentityAssumption
<1>1. NothingStranded
  <2>0. T!count = Cardinality(Taken)
    BY Zenon DEF T!count, Taken, T!Cardinality, Cardinality
  <2>1. \A r \in databases : T!Recorded(r) \/ r \in stranded \/ reg[r].step \in T!Underway
    <3>1. \A r \in databases : reg[r].step \in T!Underway \cup {"done", "refused"}
      BY TenancyTypes DEF TenancyInv, RegInv, DatabasesKept, RegRow
    <3> QED BY <3>1 DEF TenancyInv, RegInv, DatabasesKept
  <2>2. \A r \in Registrations : T!Recorded(r) =>
         /\ provision => r \in databases
         /\ r \in admins \/ r \in stranded \/ reg[r].step \in T!Underway
    BY DEF TenancyInv, RegInv, RowsOwned, T!Recorded, Holding, T!Underway
  <2>3. \A r \in admins : T!Recorded(r)
    <3>1. \A r \in admins : r \in Registrations /\ reg[r].step = "done" /\ reg[r].name \in Names
      BY TenancyTypes DEF TenancyInv, RegInv, RowsOwned, NamesGiven
    <3> QED BY <3>1 DEF TenancyInv, RegInv, RowsOwned, T!Recorded
  <2> QED BY <2>0, <2>1, <2>2, <2>3 DEF TenancyInv, RegInv, CountHolds, NothingStranded, T!NothingStranded
<1>2. ServesWhatIsWritten
  <2> SUFFICES ASSUME NEW n \in Names, ~T!Writing(n)
               PROVE  /\ cache[n] # None => n \in stale \/ cache[n] = tenant[n]
                      /\ \A r \in pools \ lingering : reg[r].name = n => tenant[n] # None /\ tenant[n].id = r /\ tenant[n].active
    BY DEF ServesWhatIsWritten, T!ServesWhatIsWritten
  <2> QED BY DEF TenancyInv, ServeInv, CacheKnows, PoolsKnow, T!Writing
<1> QED BY <1>1, <1>2 DEF TenancyInv, RegInv, TenanciesSound

LEMMA TenancySpec == T!Init /\ [][T!Next]_tenancyVars => []TenancyInv
BY TenancyStart, TenancyStep, PTL

\* However many companies are registered, looked up, switched and edited at
\* once, and wherever one of these requests is dropped or the server stops: a
\* company is left whole or not at all but for what was stranded, and a request
\* is answered by its row as it was last written but for what a write overlapped
\* or left behind when it was dropped (register, saved, set_active,
\* connection_for).
THEOREM TenanciesStaySound == MCSpec => []TenanciesSound
<1>1. MCInit => T!Init
  BY DEF MCInit
<1>2. [MCNext]_<< side, tenants, permissions, account, rest >> => [T!Next]_tenancyVars
  BY DEF MCNext, tenants, tenancyVars
<1> QED BY <1>1, <1>2, TenancySpec, TenancySafe, PTL DEF MCSpec

----------------------------------------------------------------------------
(* Roles and permissions.                                                  *)

Targets(a, h) == change[a].target = h

\* Two tasks on one user or role are on record, and so are two that take the
\* administrators' role away.
TasksApart ==
    \A a, b \in Users : a # b =>
        /\ Targets(a, change[b].target) /\ change[b].target # None => change[b].target \in crossed
        /\ Admin \in change[a].unassign /\ Admin \in change[b].unassign => Admin \in crossed

\* A replacement writes rows of one holder, one row at most, and has seen every
\* row of the holder.
ReplacementsKnow ==
    \A a \in Users : change[a].step = "replace" =>
        /\ change[a].target # None
        /\ \A g \in change[a].seen \cup change[a].rows : g.holder = change[a].target
        /\ \A g, h \in change[a].rows : g = h
        /\ change[a].target \in crossed \/ R!user_overrides(change[a].target) \subseteq change[a].seen

OneOverride ==
    \A u \in Users \ crossed : \A g, h \in R!user_overrides(u) : g = h

\* Whoever takes the administrators' role from another is an administrator
\* while the request lasts.
TakersKeep ==
    \A a \in Users : Admin \in change[a].unassign =>
        Admin \in crossed \/ lent \/ (<< a, Admin >> \in members /\ ~Targets(a, a))

\* What a request that makes or unmakes an administrator has still to do.
MembersMade ==
    \A a \in Users : change[a].step = "member" =>
        /\ change[a].target \in Users
        /\ change[a].assign \subseteq {Admin} /\ change[a].unassign \subseteq {Admin}
        /\ change[a].flag =>
              /\ change[a].unassign = {}
              /\ change[a].assign = {} => change[a].target \in crossed \/ << change[a].target, Admin >> \in members
        /\ ~change[a].flag =>
              /\ change[a].assign = {}
              /\ change[a].unassign = {} => change[a].target \in crossed \/ << change[a].target, Admin >> \notin members

ListsDrift == \A a \in Users : change[a].step = "roles" => change[a].target \in Users /\ change[a].target \in crossed \cup drifted

\* The flag of a user follows the role between the statements of a request.
FlagFollows ==
    \A u \in Users \ (crossed \cup drifted) :
        (\A a \in Users : Targets(a, u) => change[a].step = "replace") =>
            (u \in flag <=> << u, Admin >> \in members)

AdminStays == Admin \in crossed \/ lent \/ \E u \in Users : << u, Admin >> \in members

RolesInv ==
    /\ R!TypeOK /\ Admin \in roles
    /\ TasksApart /\ ReplacementsKnow /\ OneOverride
    /\ TakersKeep /\ MembersMade /\ ListsDrift /\ FlagFollows /\ AdminStays


rolesVars == << known, roles, members, grants, flag, change, crossed, drifted, lent, changes >>

RolesTask == [step : {"idle", "member", "roles", "replace"}, target : Users \cup Custom \cup {None},
              unassign : SUBSET (Custom \cup {Admin}), assign : SUBSET (Custom \cup {Admin}), flag : BOOLEAN,
              seen : SUBSET R!Grants, rows : SUBSET R!Grants]

LEMMA RolesTypes ==
    ASSUME R!TypeOK
    PROVE  /\ known \subseteq Users /\ roles \subseteq Custom \cup {Admin} /\ members \subseteq Users \X (Custom \cup {Admin})
           /\ grants \subseteq R!Grants /\ flag \subseteq Users /\ drifted \subseteq Users
           /\ lent \in BOOLEAN /\ changes \in Nat
           /\ change \in [Users -> RolesTask]
BY IdentityAssumption DEF R!TypeOK, RolesTask, R!Holders

LEMMA RolesIdle == R!Idle \in RolesTask
BY DEF R!Idle, RolesTask

\* What a request that starts does.
LEMMA RolesStart ==
    ASSUME R!TypeOK, RolesInv, NEW a \in Users, NEW t \in RolesTask, R!Starts(a, t),
           t.step # "idle", t.target \in Users \cup Custom,
           t.step = "member" \/ t.step = "roles" => t.target \in Users,
           Admin \in t.unassign => t.target # a,
           t.step = "member" =>
              /\ t.assign = (IF t.flag THEN {Admin} ELSE {})
              /\ t.unassign = (IF t.flag THEN {} ELSE {Admin}),
           drifted' = IF t.step = "roles" THEN drifted \cup {t.target} ELSE drifted,
           t.step = "replace" =>
              /\ t.seen = R!user_overrides(t.target)
              /\ \A g \in t.rows : g.holder = t.target
              /\ \A g, h \in t.rows : g = h
    PROVE  RolesInv'
<1> USE IdentityAssumption
<1>1. /\ change[a] = R!Idle /\ changes < MaxChanges /\ changes' = changes + 1
      /\ change' = [change EXCEPT ![a] = t]
      /\ crossed' = crossed \cup UNION { R!Keys(t) \cap R!Keys(change[b]) : b \in Users \ {a} }
      /\ lent' = (lent \/ (Admin \in t.unassign /\ Admin \notin R!roles_of(a)))
      /\ known' = known /\ roles' = roles /\ members' = members /\ grants' = grants /\ flag' = flag
  BY DEF R!Starts, R!Administers, R!Acts
<1>2. change \in [Users -> RolesTask] /\ change' \in [Users -> RolesTask]
  BY <1>1, RolesTypes
<1>3. change'[a] = t /\ \A b \in Users \ {a} : change'[b] = change[b]
  BY <1>1, <1>2
<1>4. crossed \subseteq crossed'
  BY <1>1
<1>5. \A b \in Users \ {a} : R!Keys(t) \cap R!Keys(change[b]) \subseteq crossed'
  BY <1>1
<1>6. R!TypeOK'
  <2>1. crossed' \subseteq R!Holders \cup {Admin}
    <3>1. R!Keys(t) \subseteq R!Holders \cup {Admin}
      BY DEF R!Keys, RolesTask, R!Holders
    <3> QED BY <1>1, <3>1 DEF R!TypeOK
  <2>2. drifted' \subseteq Users
    BY DEF R!TypeOK
  <2>3. changes' \in 0..MaxChanges /\ lent' \in BOOLEAN
    BY <1>1 DEF R!TypeOK
  <2> QED BY <1>1, <1>2, <2>1, <2>2, <2>3 DEF R!TypeOK, RolesTask, R!Holders
<1>7. TasksApart'
  <2> SUFFICES ASSUME NEW b \in Users, NEW c \in Users, b # c
               PROVE  /\ Targets(b, change[c].target)' /\ change'[c].target # None => change'[c].target \in crossed'
                      /\ Admin \in change'[b].unassign /\ Admin \in change'[c].unassign => Admin \in crossed'
    BY DEF TasksApart
  <2>1. CASE b # a /\ c # a
    BY <1>3, <1>4, <2>1 DEF RolesInv, TasksApart, Targets
  <2>2. CASE b = a
    BY <1>3, <1>5, <2>2 DEF R!Keys, Targets
  <2>3. CASE c = a
    BY <1>3, <1>5, <2>3 DEF R!Keys, Targets
  <2> QED BY <2>1, <2>2, <2>3
<1>8. ReplacementsKnow'
  <2> SUFFICES ASSUME NEW b \in Users, change'[b].step = "replace"
               PROVE  /\ change'[b].target # None
                      /\ \A g \in change'[b].seen \cup change'[b].rows : g.holder = change'[b].target
                      /\ \A g, h \in change'[b].rows : g = h
                      /\ change'[b].target \in crossed' \/ R!user_overrides(change[b].target)' \subseteq change'[b].seen
    BY DEF ReplacementsKnow
  <2>1. CASE b # a
    BY <1>1, <1>3, <1>4, <2>1 DEF RolesInv, ReplacementsKnow, R!user_overrides
  <2>2. CASE b = a
    BY <1>1, <1>3, <2>2 DEF R!user_overrides
  <2> QED BY <2>1, <2>2
<1>9. OneOverride'
  BY <1>1, <1>4 DEF RolesInv, OneOverride, R!user_overrides
<1>10. TakersKeep'
  <2> SUFFICES ASSUME NEW b \in Users, Admin \in change'[b].unassign
               PROVE  Admin \in crossed' \/ lent' \/ (<< b, Admin >> \in members' /\ ~Targets(b, b)')
    BY DEF TakersKeep
  <2>1. CASE b # a
    BY <1>1, <1>3, <1>4, <2>1 DEF RolesInv, TakersKeep, Targets
  <2>2. CASE b = a
    BY <1>1, <1>3, <2>2 DEF R!roles_of, Targets
  <2> QED BY <2>1, <2>2
<1>11. MembersMade'
  <2> SUFFICES ASSUME NEW b \in Users, change'[b].step = "member"
        PROVE /\ change'[b].target \in Users
              /\ change'[b].assign \subseteq {Admin} /\ change'[b].unassign \subseteq {Admin}
              /\ change'[b].flag =>
                   /\ change'[b].unassign = {}
                   /\ change'[b].assign = {} => change'[b].target \in crossed' \/ << change'[b].target, Admin >> \in members'
              /\ ~change'[b].flag =>
                   /\ change'[b].assign = {}
                   /\ change'[b].unassign = {} => change'[b].target \in crossed' \/ << change'[b].target, Admin >> \notin members'
    BY DEF MembersMade
  <2>1. CASE b # a
    BY <1>1, <1>3, <1>4, <2>1 DEF RolesInv, MembersMade
  <2>2. CASE b = a
    BY <1>1, <1>3, <2>2
  <2> QED BY <2>1, <2>2
<1>12. ListsDrift'
  BY <1>3, <1>4 DEF RolesInv, ListsDrift
<1>13. FlagFollows'
  <2> SUFFICES ASSUME NEW u \in Users, u \notin crossed', u \notin drifted',
                      \A b \in Users : Targets(b, u)' => change'[b].step = "replace"
               PROVE  u \in flag' <=> << u, Admin >> \in members'
    BY DEF FlagFollows
  <2>1. u \notin crossed /\ u \notin drifted
    BY <1>4
  <2>2. \A b \in Users : Targets(b, u) => change[b].step = "replace"
    BY <1>1, <1>3 DEF Targets, R!Idle
  <2> QED BY <1>1, <2>1, <2>2 DEF RolesInv, FlagFollows
<1>14. AdminStays'
  BY <1>1, <1>4 DEF RolesInv, AdminStays
<1> QED
  BY <1>1, <1>6, <1>7, <1>8, <1>9, <1>10, <1>11, <1>12, <1>13, <1>14 DEF RolesInv

\* A request that ends leaves nothing to do.
LEMMA RolesEnds ==
    ASSUME RolesInv, NEW a \in Users, change' = [change EXCEPT ![a] = R!Idle]
    PROVE  /\ change' \in [Users -> RolesTask] /\ change'[a] = R!Idle
           /\ \A b \in Users \ {a} : change'[b] = change[b]
BY RolesTypes, RolesIdle DEF RolesInv

LEMMA UnassignStep ==
    ASSUME RolesInv, NEW a \in Users, R!unassign_role(a)
    PROVE  RolesInv'
<1> USE IdentityAssumption
<1>1. PICK r \in change[a].unassign :
         /\ members' = members \ { << change[a].target, r >> }
         /\ change' = [change EXCEPT ![a].unassign = @ \ {r}]
  BY DEF R!unassign_role
<1>2. /\ change[a].step \in {"member", "roles"}
      /\ known' = known /\ roles' = roles /\ grants' = grants /\ flag' = flag /\ crossed' = crossed
      /\ drifted' = drifted /\ lent' = lent /\ changes' = changes
  BY DEF R!unassign_role
<1>3. /\ change \in [Users -> RolesTask] /\ members \subseteq Users \X (Custom \cup {Admin})
  BY RolesTypes DEF RolesInv
<1>4. change' \in [Users -> RolesTask]
  BY <1>1, <1>3 DEF RolesTask
<1>5. /\ change'[a].unassign = change[a].unassign \ {r} /\ change'[a].step = change[a].step
      /\ change'[a].target = change[a].target /\ change'[a].assign = change[a].assign
      /\ change'[a].flag = change[a].flag
      /\ \A b \in Users \ {a} : change'[b] = change[b]
  BY <1>1, <1>3 DEF RolesTask
<1>6. R!TypeOK'
  BY <1>1, <1>2, <1>3, <1>4 DEF RolesInv, R!TypeOK, RolesTask, R!Holders
<1>7. \A b \in Users : /\ change'[b].target = change[b].target /\ change'[b].step = change[b].step
                       /\ change'[b].unassign \subseteq change[b].unassign
  BY <1>5
<1>8. TasksApart'
  BY <1>2, <1>7 DEF RolesInv, TasksApart, Targets
<1>9. ReplacementsKnow'
  BY <1>2, <1>5, <1>7 DEF RolesInv, ReplacementsKnow, R!user_overrides
<1>10. OneOverride'
  BY <1>2 DEF RolesInv, OneOverride, R!user_overrides
<1>11. TakersKeep'
  <2> SUFFICES ASSUME NEW b \in Users, Admin \in change'[b].unassign, Admin \notin crossed, ~lent
               PROVE  << b, Admin >> \in members' /\ ~Targets(b, b)'
    BY <1>2 DEF TakersKeep
  <2>1. Admin \in change[b].unassign /\ << b, Admin >> \in members /\ ~Targets(b, b)
    BY <1>7 DEF RolesInv, TakersKeep
  <2>2. CASE b = a
    BY <1>1, <1>5, <2>1, <2>2 DEF Targets
  <2>3. CASE b # a
    <3>1. r # Admin
      BY <2>1, <2>3 DEF RolesInv, TasksApart
    <3> QED BY <1>1, <1>7, <2>1, <3>1 DEF Targets
  <2> QED BY <2>2, <2>3
<1>12. MembersMade'
  <2> SUFFICES ASSUME NEW b \in Users, change'[b].step = "member"
        PROVE /\ change'[b].target \in Users
              /\ change'[b].assign \subseteq {Admin} /\ change'[b].unassign \subseteq {Admin}
              /\ change'[b].flag =>
                   /\ change'[b].unassign = {}
                   /\ change'[b].assign = {} => change'[b].target \in crossed' \/ << change'[b].target, Admin >> \in members'
              /\ ~change'[b].flag =>
                   /\ change'[b].assign = {}
                   /\ change'[b].unassign = {} => change'[b].target \in crossed' \/ << change'[b].target, Admin >> \notin members'
    BY DEF MembersMade
  <2>1. CASE b = a
    BY <1>1, <1>2, <1>5, <2>1 DEF RolesInv, MembersMade
  <2>2. CASE b # a
    <3>1. change'[b] = change[b]
      BY <1>5, <2>2
    <3>2. change[b].target \in crossed \/ change[b].target # change[a].target
      BY <2>2, <3>1 DEF RolesInv, TasksApart, Targets, MembersMade
    <3> QED BY <1>1, <1>2, <3>1, <3>2 DEF RolesInv, MembersMade
  <2> QED BY <2>1, <2>2
<1>13. ListsDrift'
  BY <1>2, <1>7 DEF RolesInv, ListsDrift
<1>14. FlagFollows'
  <2> SUFFICES ASSUME NEW u \in Users, u \notin crossed, u \notin drifted,
                      \A b \in Users : Targets(b, u)' => change'[b].step = "replace"
               PROVE  u \in flag' <=> << u, Admin >> \in members'
    BY <1>2 DEF FlagFollows
  <2>1. \A b \in Users : Targets(b, u) => change[b].step = "replace"
    BY <1>7 DEF Targets
  <2>2. u # change[a].target
    BY <1>2, <2>1 DEF Targets
  <2> QED BY <1>1, <1>2, <2>1, <2>2 DEF RolesInv, FlagFollows
<1>15. AdminStays'
  <2>1. CASE r # Admin
    BY <1>1, <1>2, <2>1 DEF RolesInv, AdminStays
  <2>2. CASE r = Admin
    BY <1>1, <1>2, <2>2 DEF RolesInv, AdminStays, TakersKeep, Targets
  <2> QED BY <2>1, <2>2
<1> QED
  BY <1>2, <1>6, <1>8, <1>9, <1>10, <1>11, <1>12, <1>13, <1>14, <1>15 DEF RolesInv

\* A request that ends and leaves roles, rows and members as they were: it is
\* not one that makes a member, or the roles of its user have drifted.
LEMMA EndStep ==
    ASSUME RolesInv, NEW a \in Users, change' = [change EXCEPT ![a] = R!Idle],
           known' = known, roles' = roles, members' = members, grants' = grants, crossed' = crossed, lent' = lent, changes' = changes,
           \A u \in Users \ {change[a].target} : u \in drifted => u \in drifted', drifted' \subseteq Users,
           \A u \in Users \ {change[a].target} : u \in flag' <=> u \in flag, flag' \subseteq Users,
           \/ change[a].step = "replace" /\ flag' = flag /\ drifted' = drifted
           \/ change[a].step \in {"member", "roles"} /\ change[a].target \in crossed \cup drifted'
           \/ /\ change[a].step = "member"
              /\ change[a].target \in crossed
                 \/ (change[a].target \in flag' <=> << change[a].target, Admin >> \in members)
    PROVE  RolesInv'
<1> USE IdentityAssumption
<1>1. /\ change' \in [Users -> RolesTask] /\ change'[a] = R!Idle
      /\ \A b \in Users \ {a} : change'[b] = change[b]
  BY RolesEnds
<1>2. R!Idle.step = "idle" /\ R!Idle.target = None /\ R!Idle.unassign = {}
  BY DEF R!Idle
<1>3. R!TypeOK'
  BY <1>1 DEF RolesInv, R!TypeOK, RolesTask, R!Holders
<1>4. TasksApart'
  BY <1>1, <1>2 DEF RolesInv, TasksApart, Targets
<1>5. ReplacementsKnow' /\ OneOverride'
  BY <1>1, <1>2 DEF RolesInv, ReplacementsKnow, OneOverride, R!user_overrides
<1>6. TakersKeep' /\ AdminStays'
  BY <1>1, <1>2 DEF RolesInv, TakersKeep, AdminStays, Targets
<1>7. MembersMade'
  BY <1>1, <1>2 DEF RolesInv, MembersMade
<1>70. ListsDrift'
  <2> SUFFICES ASSUME NEW b \in Users, change'[b].step = "roles" PROVE change'[b].target \in Users /\ change'[b].target \in crossed' \cup drifted'
    BY DEF ListsDrift
  <2>1. b # a /\ change'[b] = change[b]
    BY <1>1, <1>2
  <2>2. change[b].target \in Users /\ change[b].target \in crossed \cup drifted
    BY <2>1 DEF RolesInv, ListsDrift
  <2>3. change[b].target = change[a].target => change[b].target \in crossed
    <3>1. change[b].target # None
      BY <2>2
    <3> QED BY <2>1, <3>1 DEF RolesInv, TasksApart, Targets
  <2> QED BY <2>1, <2>2, <2>3
<1>8. FlagFollows'
  <2> SUFFICES ASSUME NEW u \in Users, u \notin crossed, u \notin drifted',
                      \A b \in Users : Targets(b, u)' => change'[b].step = "replace"
               PROVE  u \in flag' <=> << u, Admin >> \in members
    BY DEF FlagFollows
  <2>1. CASE change[a].target # u
    <3>1. \A b \in Users : Targets(b, u) => change[b].step = "replace"
      BY <1>1, <2>1 DEF Targets
    <3> QED BY <2>1, <3>1 DEF RolesInv, FlagFollows
  <2>2. CASE change[a].target = u
    <3>1. CASE change[a].step = "replace"
      <4>1. \A b \in Users : Targets(b, u) => change[b].step = "replace"
        BY <1>1, <3>1 DEF Targets
      <4> QED BY <3>1, <4>1 DEF RolesInv, FlagFollows
    <3> QED BY <2>2, <3>1
  <2> QED BY <2>1, <2>2
<1> QED
  BY <1>3, <1>4, <1>5, <1>6, <1>7, <1>70, <1>8 DEF RolesInv

LEMMA AssignStep ==
    ASSUME RolesInv, NEW a \in Users, R!assign_role(a)
    PROVE  RolesInv'
<1> USE IdentityAssumption
<1>1. /\ change[a].step \in {"member", "roles"} /\ change[a].unassign = {}
      /\ known' = known /\ roles' = roles /\ grants' = grants /\ flag' = flag /\ crossed' = crossed
      /\ drifted' = drifted /\ lent' = lent /\ changes' = changes
  BY DEF R!assign_role
<1>2. PICK r \in change[a].assign :
         IF r \in roles
         THEN /\ members' = members \cup { << change[a].target, r >> }
              /\ change' = [change EXCEPT ![a].assign = @ \ {r}]
         ELSE UNCHANGED members /\ change' = [change EXCEPT ![a] = R!Idle]
  BY DEF R!assign_role
<1>3. change \in [Users -> RolesTask] /\ members \subseteq Users \X (Custom \cup {Admin}) /\ change[a] \in RolesTask
  BY RolesTypes DEF RolesInv
<1>4. CASE r \notin roles
  <2>1. change[a].step = "roles"
    <3>1. change[a].step = "member" => r = Admin
      BY DEF RolesInv, MembersMade
    <3> QED BY <1>1, <1>4, <3>1 DEF RolesInv
  <2>2. change[a].target \in crossed \cup drifted
    BY <2>1 DEF RolesInv, ListsDrift
  <2>3. change' = [change EXCEPT ![a] = R!Idle] /\ members' = members
    BY <1>2, <1>4
  <2>4. drifted \subseteq Users /\ flag \subseteq Users
    BY RolesTypes DEF RolesInv
  <2> QED BY <1>1, <2>1, <2>2, <2>3, <2>4, EndStep
<1>5. CASE r \in roles
  <2>1. /\ members' = members \cup { << change[a].target, r >> }
        /\ change' = [change EXCEPT ![a].assign = @ \ {r}]
    BY <1>2, <1>5
  <2>2. /\ change'[a].unassign = change[a].unassign /\ change'[a].step = change[a].step
        /\ change'[a].target = change[a].target /\ change'[a].assign = change[a].assign \ {r}
        /\ change'[a].flag = change[a].flag
        /\ \A b \in Users \ {a} : change'[b] = change[b]
    BY <1>3, <2>1 DEF RolesTask
  <2>3. change' \in [Users -> RolesTask]
    BY <1>3, <2>1 DEF RolesTask
  <2>4. \A b \in Users : /\ change'[b].target = change[b].target /\ change'[b].step = change[b].step
                         /\ change'[b].unassign = change[b].unassign
    BY <2>2
  <2>5. change[a].target \in Users
    <3>1. CASE change[a].step = "member"
      BY <3>1 DEF RolesInv, MembersMade
    <3>2. CASE change[a].step = "roles"
      BY <3>2, RolesTypes DEF RolesInv, ListsDrift
    <3> QED BY <1>1, <3>1, <3>2
  <2>6. R!TypeOK'
    <3>1. members' \subseteq Users \X (Custom \cup {Admin})
      BY <1>3, <2>1, <2>5 DEF RolesTask
    <3> QED BY <1>1, <2>3, <3>1 DEF RolesInv, R!TypeOK, RolesTask, R!Holders
  <2>7. TasksApart' /\ ListsDrift'
    BY <1>1, <2>4 DEF RolesInv, TasksApart, ListsDrift, Targets
  <2>8. ReplacementsKnow' /\ OneOverride'
    BY <1>1, <2>2, <2>4 DEF RolesInv, ReplacementsKnow, OneOverride, R!user_overrides
  <2>9. TakersKeep' /\ AdminStays'
    BY <1>1, <2>1, <2>4 DEF RolesInv, TakersKeep, AdminStays, Targets
  <2>10. MembersMade'
    <3> SUFFICES ASSUME NEW b \in Users, change'[b].step = "member"
        PROVE /\ change'[b].target \in Users
              /\ change'[b].assign \subseteq {Admin} /\ change'[b].unassign \subseteq {Admin}
              /\ change'[b].flag =>
                   /\ change'[b].unassign = {}
                   /\ change'[b].assign = {} => change'[b].target \in crossed' \/ << change'[b].target, Admin >> \in members'
              /\ ~change'[b].flag =>
                   /\ change'[b].assign = {}
                   /\ change'[b].unassign = {} => change'[b].target \in crossed' \/ << change'[b].target, Admin >> \notin members'
      BY DEF MembersMade
    <3>1. CASE b = a
      BY <1>1, <2>1, <2>2, <3>1 DEF RolesInv, MembersMade
    <3>2. CASE b # a
      <4>1. change'[b] = change[b]
        BY <2>2, <3>2
      <4>2. change[b].target \in crossed \/ change[b].target # change[a].target
        BY <3>2, <4>1 DEF RolesInv, TasksApart, Targets, MembersMade
      <4> QED BY <1>1, <2>1, <4>1, <4>2 DEF RolesInv, MembersMade
    <3> QED BY <3>1, <3>2
  <2>11. FlagFollows'
    <3> SUFFICES ASSUME NEW u \in Users, u \notin crossed, u \notin drifted,
                        \A b \in Users : Targets(b, u)' => change'[b].step = "replace"
                 PROVE  u \in flag' <=> << u, Admin >> \in members'
      BY <1>1 DEF FlagFollows
    <3>1. \A b \in Users : Targets(b, u) => change[b].step = "replace"
      BY <2>4 DEF Targets
    <3>2. u # change[a].target
      BY <1>1, <3>1 DEF Targets
    <3> QED BY <1>1, <2>1, <3>1, <3>2 DEF RolesInv, FlagFollows
  <2> QED BY <1>1, <2>6, <2>7, <2>8, <2>9, <2>10, <2>11 DEF RolesInv
<1> QED BY <1>4, <1>5

LEMMA EndingStep ==
    ASSUME RolesInv, NEW a \in Users, R!roles_set(a) \/ R!set_tenant_admin(a) \/ R!broken(a)
    PROVE  RolesInv'
<1> USE IdentityAssumption
<1>0. drifted \subseteq Users /\ flag \subseteq Users
  BY RolesTypes DEF RolesInv
<1>1. CASE R!roles_set(a)
  <2>1. change[a].step = "roles" /\ change[a].target \in crossed \cup drifted
    BY <1>1 DEF R!roles_set, RolesInv, ListsDrift
  <2> QED BY <1>0, <1>1, <2>1, EndStep DEF R!roles_set
<1>2. CASE R!set_tenant_admin(a)
  <2>1. /\ change[a].step = "member" /\ change[a].unassign = {} /\ change[a].assign = {}
        /\ flag' = IF change[a].flag THEN flag \cup {change[a].target} ELSE flag \ {change[a].target}
        /\ change' = [change EXCEPT ![a] = R!Idle]
        /\ known' = known /\ roles' = roles /\ members' = members /\ grants' = grants /\ crossed' = crossed
        /\ drifted' = drifted \ {change[a].target} /\ lent' = lent /\ changes' = changes
    BY <1>2 DEF R!set_tenant_admin
  <2>2. change[a].target \in Users
    BY <2>1 DEF RolesInv, MembersMade
  <2>3. change[a].target \in crossed \/ (change[a].target \in flag' <=> << change[a].target, Admin >> \in members)
    BY <2>1 DEF RolesInv, MembersMade
  <2>4. flag' \subseteq Users /\ \A u \in Users \ {change[a].target} : u \in flag' <=> u \in flag
    BY <1>0, <2>1, <2>2
  <2> QED BY <1>0, <2>1, <2>3, <2>4, EndStep
<1>3. CASE R!broken(a)
  <2>1. /\ change[a].step \in {"member", "roles", "replace"}
        /\ change' = [change EXCEPT ![a] = R!Idle]
        /\ drifted' = IF change[a].step = "member" THEN drifted \cup {change[a].target} ELSE drifted
        /\ known' = known /\ roles' = roles /\ members' = members /\ grants' = grants /\ flag' = flag
        /\ crossed' = crossed /\ lent' = lent /\ changes' = changes
    BY <1>3 DEF R!broken
  <2>2. drifted' \subseteq Users /\ (change[a].step \in {"member", "roles"} => change[a].target \in crossed \cup drifted')
    BY <1>0, <2>1 DEF RolesInv, MembersMade, ListsDrift
  <2> QED BY <1>0, <2>1, <2>2, EndStep
<1> QED BY <1>1, <1>2, <1>3

\* The rows of a holder that a replacement does not write stay.
LEMMA CommitStep ==
    ASSUME RolesInv, NEW a \in Users, R!commit_grants(a)
    PROVE  RolesInv'
<1> USE IdentityAssumption
<1>1. /\ change[a].step = "replace"
      /\ grants' = (grants \ change[a].seen) \cup change[a].rows
      /\ change' = [b \in Users |-> IF b = a THEN R!Idle ELSE [change[b] EXCEPT !.seen = @ \ change[a].seen]]
      /\ known' = known /\ roles' = roles /\ members' = members /\ flag' = flag /\ crossed' = crossed
      /\ drifted' = drifted /\ lent' = lent /\ changes' = changes
  BY DEF R!commit_grants
<1>2. change \in [Users -> RolesTask] /\ grants \subseteq R!Grants
  BY RolesTypes DEF RolesInv
<1>3. change'[a] = R!Idle
  BY <1>1
<1>4. ASSUME NEW b \in Users, b # a
      PROVE  /\ change'[b].step = change[b].step /\ change'[b].target = change[b].target
             /\ change'[b].unassign = change[b].unassign /\ change'[b].assign = change[b].assign
             /\ change'[b].flag = change[b].flag /\ change'[b].rows = change[b].rows
             /\ change'[b].seen = change[b].seen \ change[a].seen
             /\ change'[b] \in RolesTask
  BY <1>1, <1>2, <1>4 DEF RolesTask
<1>5. R!Idle.step = "idle" /\ R!Idle.target = None /\ R!Idle.unassign = {}
  BY DEF R!Idle
<1>6. R!TypeOK'
  <2>1. change' \in [Users -> RolesTask]
    <3>1. \A b \in Users : change'[b] \in RolesTask
      BY <1>3, <1>4, RolesIdle
    <3> QED BY <1>1, <3>1
  <2>2. grants' \subseteq R!Grants
    BY <1>1, <1>2 DEF RolesTask
  <2> QED BY <1>1, <2>1, <2>2 DEF RolesInv, R!TypeOK, RolesTask, R!Holders
<1>7. TasksApart'
  BY <1>1, <1>3, <1>4, <1>5 DEF RolesInv, TasksApart, Targets
<1>8. \A g \in change[a].seen \cup change[a].rows : g.holder = change[a].target
  BY <1>1 DEF RolesInv, ReplacementsKnow
<1>9. ReplacementsKnow'
  <2> SUFFICES ASSUME NEW b \in Users, change'[b].step = "replace"
               PROVE  /\ change'[b].target # None
                      /\ \A g \in change'[b].seen \cup change'[b].rows : g.holder = change'[b].target
                      /\ \A g, h \in change'[b].rows : g = h
                      /\ change'[b].target \in crossed' \/ R!user_overrides(change[b].target)' \subseteq change'[b].seen
    BY DEF ReplacementsKnow
  <2>1. b # a
    BY <1>3, <1>5
  <2>2. /\ change[b].step = "replace" /\ change[b].target # None
        /\ \A g \in change[b].seen \cup change[b].rows : g.holder = change[b].target
        /\ \A g, h \in change[b].rows : g = h
        /\ change[b].target \in crossed \/ R!user_overrides(change[b].target) \subseteq change[b].seen
    BY <1>4, <2>1 DEF RolesInv, ReplacementsKnow
  <2>3. change[b].target \in crossed \/ change[b].target # change[a].target
    BY <2>1, <2>2 DEF RolesInv, TasksApart, Targets
  <2>4. change[b].target \in crossed' \/ R!user_overrides(change[b].target)' \subseteq change'[b].seen
    <3> SUFFICES ASSUME change[b].target \notin crossed
                 PROVE  R!user_overrides(change[b].target)' \subseteq change'[b].seen
      BY <1>1
    <3>1. ASSUME NEW g \in grants', g.holder = change[b].target PROVE g \in change'[b].seen
      <4>1. g \notin change[a].rows /\ g \notin change[a].seen
        BY <1>8, <2>3, <3>1
      <4>2. g \in R!user_overrides(change[b].target)
        BY <1>1, <3>1, <4>1 DEF R!user_overrides
      <4> QED BY <1>4, <2>1, <2>2, <4>1, <4>2
    <3>2. change'[b].target = change[b].target
      BY <1>4, <2>1
    <3> QED BY <3>1, <3>2 DEF R!user_overrides
  <2> QED BY <1>1, <1>4, <2>1, <2>2, <2>4
<1>10. OneOverride'
  <2> SUFFICES ASSUME NEW u \in Users, u \notin crossed, NEW g \in grants', NEW h \in grants',
                      g.holder = u, h.holder = u
               PROVE  g = h
    BY <1>1 DEF OneOverride, R!user_overrides
  <2>1. CASE u = change[a].target
    <3>1. R!user_overrides(u) \subseteq change[a].seen
      BY <1>1, <2>1 DEF RolesInv, ReplacementsKnow
    <3>2. g \in change[a].rows /\ h \in change[a].rows
      BY <1>1, <3>1 DEF R!user_overrides
    <3> QED BY <1>1, <3>2 DEF RolesInv, ReplacementsKnow
  <2>2. CASE u # change[a].target
    <3>1. g \in R!user_overrides(u) /\ h \in R!user_overrides(u)
      BY <1>1, <1>8, <2>2 DEF R!user_overrides
    <3> QED BY <3>1 DEF RolesInv, OneOverride
  <2> QED BY <2>1, <2>2
<1>11. TakersKeep' /\ AdminStays'
  BY <1>1, <1>3, <1>4, <1>5, SMTT(20) DEF RolesInv, TakersKeep, AdminStays, Targets
<1>12. MembersMade' /\ ListsDrift'
  BY <1>1, <1>3, <1>4, <1>5 DEF RolesInv, MembersMade, ListsDrift
<1>13. FlagFollows'
  <2> SUFFICES ASSUME NEW u \in Users, u \notin crossed, u \notin drifted,
                      \A b \in Users : Targets(b, u)' => change'[b].step = "replace"
               PROVE  u \in flag <=> << u, Admin >> \in members
    BY <1>1 DEF FlagFollows
  <2>1. \A b \in Users : Targets(b, u) => change[b].step = "replace"
    BY <1>1, <1>4 DEF Targets
  <2> QED BY <2>1 DEF RolesInv, FlagFollows
<1> QED
  BY <1>1, <1>6, <1>7, <1>9, <1>10, <1>11, <1>12, <1>13 DEF RolesInv

\* A role comes or goes, with its rows and its members.
LEMMA RoleStep ==
    ASSUME RolesInv, NEW a \in Users, NEW r \in Custom,
           (\E granted \in BOOLEAN : R!create_role(a, r, granted)) \/ R!delete_role(a, r)
    PROVE  RolesInv'
<1> USE IdentityAssumption
<1>1. /\ roles' = roles \cup {r} \/ roles' = roles \ {r}
      /\ members' = { m \in members : m[2] # r }
      /\ known' = known /\ change' = change /\ flag' = flag /\ crossed' = crossed /\ drifted' = drifted /\ lent' = lent
      /\ changes < MaxChanges /\ changes' = changes + 1
  BY DEF R!create_role, R!delete_role, R!Acts
<1>2. \/ grants' = { g \in grants : g.holder # r }
      \/ /\ grants' = { g \in grants : g.holder # r } \cup {R!Grant(r, TRUE)}
         /\ \A b \in Users : change[b].target # r
  BY DEF R!create_role, R!delete_role
<1>3. R!Grant(r, TRUE) \in R!Grants /\ R!Grant(r, TRUE).holder = r
  BY DEF R!Grant, R!Grants, R!Holders
<1>4. grants' \subseteq R!Grants
  BY <1>2, <1>3, ZenonT(30) DEF RolesInv, R!TypeOK
<1>5. ASSUME NEW u \in Users PROVE << u, Admin >> \in members' <=> << u, Admin >> \in members
  BY <1>1
<1>6. R!TypeOK'
  <2>1. roles' \subseteq Custom \cup {Admin} /\ members' \subseteq Users \X (Custom \cup {Admin}) /\ changes' \in 0..MaxChanges
    BY <1>1 DEF RolesInv, R!TypeOK
  <2> QED BY <1>1, <1>4, <2>1 DEF RolesInv, R!TypeOK
<1>7. TasksApart' /\ ListsDrift'
  BY <1>1 DEF RolesInv, TasksApart, ListsDrift, Targets
<1>8. ReplacementsKnow'
  <2> SUFFICES ASSUME NEW b \in Users, change[b].step = "replace"
               PROVE  /\ change[b].target # None
                      /\ \A g \in change[b].seen \cup change[b].rows : g.holder = change[b].target
                      /\ \A g, h \in change[b].rows : g = h
                      /\ change[b].target \in crossed \/ R!user_overrides(change[b].target)' \subseteq change[b].seen
    BY <1>1 DEF ReplacementsKnow
  <2>1. R!user_overrides(change[b].target)' \subseteq R!user_overrides(change[b].target)
    BY <1>1, <1>2, <1>3 DEF R!user_overrides
  <2> QED BY <2>1 DEF RolesInv, ReplacementsKnow
<1>9. OneOverride'
  BY <1>1, <1>2, <1>3 DEF RolesInv, OneOverride, R!user_overrides
<1>10. TakersKeep' /\ AdminStays'
  BY <1>1, <1>5 DEF RolesInv, TakersKeep, AdminStays, Targets
<1>11. MembersMade'
  BY <1>1, <1>5 DEF RolesInv, MembersMade
<1>12. FlagFollows'
  BY <1>1, <1>5 DEF RolesInv, FlagFollows, Targets
<1>13. Admin \in roles'
  BY <1>1 DEF RolesInv
<1> QED
  BY <1>6, <1>7, <1>8, <1>9, <1>10, <1>11, <1>12, <1>13 DEF RolesInv

\* A teammate is added with the flag as it is asked for, and without a role.
LEMMA CreateStep ==
    ASSUME RolesInv, NEW a \in Users, NEW u \in Users, NEW yes \in BOOLEAN, R!create_user(a, u, yes)
    PROVE  RolesInv'
<1> USE IdentityAssumption
<1>1. /\ changes < MaxChanges /\ changes' = changes + 1 /\ known' = known \cup {u}
      /\ flag' = IF yes THEN flag \cup {u} ELSE flag
      /\ drifted' = IF yes THEN drifted \cup {u} ELSE drifted
      /\ roles' = roles /\ members' = members /\ grants' = grants /\ change' = change /\ crossed' = crossed /\ lent' = lent
  BY DEF R!create_user, R!Acts
<1>2. R!TypeOK'
  <2>1. known' \subseteq Users /\ flag' \subseteq Users /\ drifted' \subseteq Users /\ changes' \in 0..MaxChanges
    BY <1>1 DEF RolesInv, R!TypeOK
  <2> QED BY <1>1, <2>1 DEF RolesInv, R!TypeOK
<1>3. TasksApart' /\ ReplacementsKnow' /\ OneOverride'
  BY <1>1 DEF RolesInv, TasksApart, ReplacementsKnow, OneOverride, R!user_overrides, Targets
<1>4. TakersKeep' /\ MembersMade' /\ AdminStays' /\ Admin \in roles'
  BY <1>1 DEF RolesInv, TakersKeep, MembersMade, AdminStays, Targets
<1>5. ListsDrift'
  BY <1>1 DEF RolesInv, ListsDrift
<1>6. FlagFollows'
  <2> SUFFICES ASSUME NEW v \in Users, v \notin crossed, v \notin drifted',
                      \A b \in Users : Targets(b, v)' => change'[b].step = "replace"
               PROVE  v \in flag' <=> << v, Admin >> \in members
    BY <1>1 DEF FlagFollows
  <2>1. v \notin drifted /\ (v \in flag' <=> v \in flag)
    BY <1>1
  <2>2. \A b \in Users : Targets(b, v) => change[b].step = "replace"
    BY <1>1 DEF Targets
  <2> QED BY <2>1, <2>2 DEF RolesInv, FlagFollows
<1> QED BY <1>2, <1>3, <1>4, <1>5, <1>6 DEF RolesInv

LEMMA StartStep ==
    ASSUME RolesInv, NEW a \in Users,
           \/ \E u \in Users : \/ \E yes \in BOOLEAN : R!set_user_admin(a, u, yes)
                               \/ \E list \in SUBSET roles : R!set_user_roles(a, u, list)
                               \/ \E granted, denied \in BOOLEAN : R!set_user_permissions(a, u, granted, denied)
           \/ \E r \in Custom, granted \in BOOLEAN : R!set_role_permissions(a, r, granted)
    PROVE  RolesInv'
<1> USE IdentityAssumption
<1>0. R!TypeOK /\ R!Idle \in RolesTask /\ roles \subseteq Custom \cup {Admin}
  BY RolesIdle, RolesTypes DEF RolesInv
<1>1. ASSUME NEW u \in Users, NEW yes \in BOOLEAN, R!set_user_admin(a, u, yes) PROVE RolesInv'
  <2> DEFINE t == [R!Idle EXCEPT !.step = "member", !.target = u, !.flag = yes,
                     !.assign = IF yes THEN {Admin} ELSE {}, !.unassign = IF yes THEN {} ELSE {Admin}]
  <2>1. R!Starts(a, t) /\ drifted' = drifted /\ (yes \/ u # a)
    BY <1>1 DEF R!set_user_admin, R!Revocable
  <2>2. /\ t \in RolesTask /\ t.step = "member" /\ t.target = u /\ t.flag = yes
        /\ t.assign = (IF yes THEN {Admin} ELSE {}) /\ t.unassign = (IF yes THEN {} ELSE {Admin})
    BY DEF RolesTask, R!Idle
  <2> HIDE DEF t
  <2> QED BY <1>0, <2>1, <2>2, RolesStart
<1>2. ASSUME NEW u \in Users, NEW list \in SUBSET roles, R!set_user_roles(a, u, list) PROVE RolesInv'
  <2> DEFINE t == [R!Idle EXCEPT !.step = "roles", !.target = u, !.assign = list,
                     !.unassign = R!roles_of(u) \ list]
  <2>1. R!Starts(a, t) /\ drifted' = drifted \cup {u} /\ a # u
    BY <1>2 DEF R!set_user_roles, R!Revocable
  <2>2. /\ t \in RolesTask /\ t.step = "roles" /\ t.target = u
    BY <1>0 DEF RolesTask, R!Idle, R!roles_of
  <2> HIDE DEF t
  <2> QED BY <1>0, <2>1, <2>2, RolesStart
<1>3. ASSUME NEW h \in Users \cup Custom, NEW rows \in SUBSET R!Grants, R!Replaces(a, h, rows),
             \A g \in rows : g.holder = h, \A g, k \in rows : g = k
      PROVE  RolesInv'
  <2> DEFINE t == [R!Idle EXCEPT !.step = "replace", !.target = h, !.rows = rows,
                     !.seen = { g \in grants : g.holder = h }]
  <2>1. R!Starts(a, t) /\ drifted' = drifted
    BY <1>3 DEF R!Replaces
  <2>2. /\ t \in RolesTask /\ t.step = "replace" /\ t.target = h /\ t.unassign = {}
        /\ t.seen = R!user_overrides(h) /\ t.rows = rows
    BY <1>0 DEF RolesTask, R!Idle, R!user_overrides, R!TypeOK
  <2> HIDE DEF t
  <2> QED BY <1>0, <1>3, <2>1, <2>2, RolesStart
<1>4. ASSUME NEW u \in Users, NEW granted \in BOOLEAN, NEW denied \in BOOLEAN,
             R!set_user_permissions(a, u, granted, denied)
      PROVE  RolesInv'
  <2> DEFINE rows == { R!Grant(u, yes) : yes \in (IF granted THEN {TRUE} ELSE {}) \cup (IF denied THEN {FALSE} ELSE {}) }
  <2>1. R!Replaces(a, u, rows) /\ ~(granted /\ denied)
    BY <1>4 DEF R!set_user_permissions
  <2>2. rows \in SUBSET R!Grants /\ (\A g \in rows : g.holder = u) /\ (\A g, k \in rows : g = k)
    <3>1. \A yes \in BOOLEAN : R!Grant(u, yes) \in R!Grants /\ R!Grant(u, yes).holder = u
      BY DEF R!Grant, R!Grants, R!Holders
    <3>2. CASE granted
      BY <2>1, <3>1, <3>2
    <3>3. CASE ~granted
      BY <2>1, <3>1, <3>3
    <3> QED BY <3>2, <3>3
  <2> HIDE DEF rows
  <2> QED BY <1>3, <2>1, <2>2
<1>5. ASSUME NEW r \in Custom, NEW granted \in BOOLEAN, R!set_role_permissions(a, r, granted) PROVE RolesInv'
  <2> DEFINE rows == IF granted THEN {R!Grant(r, TRUE)} ELSE {}
  <2>1. R!Replaces(a, r, rows)
    BY <1>5 DEF R!set_role_permissions
  <2>2. rows \in SUBSET R!Grants /\ (\A g \in rows : g.holder = r) /\ (\A g, k \in rows : g = k)
    <3>1. R!Grant(r, TRUE) \in R!Grants /\ R!Grant(r, TRUE).holder = r
      BY DEF R!Grant, R!Grants, R!Holders
    <3> QED BY <3>1
  <2> HIDE DEF rows
  <2> QED BY <1>3, <2>1, <2>2
<1> QED BY <1>1, <1>2, <1>4, <1>5

LEMMA RolesStep == RolesInv /\ [R!Next]_rolesVars => RolesInv'
<1> SUFFICES ASSUME RolesInv, [R!Next]_rolesVars PROVE RolesInv'
  OBVIOUS
<1>1. CASE UNCHANGED rolesVars
  <2> USE <1>1 DEF rolesVars
  <2>1. R!TypeOK' /\ Admin \in roles' /\ AdminStays'
    BY DEF RolesInv, R!TypeOK, AdminStays
  <2>2. TasksApart' /\ ReplacementsKnow' /\ OneOverride'
    BY DEF RolesInv, TasksApart, ReplacementsKnow, OneOverride, R!user_overrides, Targets
  <2>3. TakersKeep' /\ MembersMade' /\ ListsDrift' /\ FlagFollows'
    BY DEF RolesInv, TakersKeep, MembersMade, ListsDrift, FlagFollows, Targets
  <2> QED BY <2>1, <2>2, <2>3 DEF RolesInv
<1>2. ASSUME NEW a \in Users, R!Statements(a) PROVE RolesInv'
  BY <1>2, UnassignStep, AssignStep, EndingStep, CommitStep DEF R!Statements
<1>3. known \subseteq Users
  BY RolesTypes DEF RolesInv
<1> QED
  BY <1>1, <1>2, <1>3, StartStep, CreateStep, RoleStep DEF R!Next

LEMMA RolesInit == R!Init => RolesInv
<1> SUFFICES ASSUME R!Init PROVE RolesInv
  OBVIOUS
<1> USE IdentityAssumption
<1>1. \A a \in Users : change[a] = R!Idle
  BY DEF R!Init
<1>2. R!Idle.step = "idle" /\ R!Idle.target = None /\ R!Idle.unassign = {}
  BY DEF R!Idle
<1>3. R!TypeOK
  <2>1. change \in [Users -> RolesTask]
    BY RolesIdle DEF R!Init
  <2>2. roles \subseteq Custom \cup {Admin} /\ members \subseteq Users \X (Custom \cup {Admin}) /\ flag \subseteq Users
    BY DEF R!Init
  <2>3. known \subseteq Users /\ grants = {} /\ drifted = {} /\ crossed = {} /\ lent = FALSE /\ changes \in 0..MaxChanges
    BY DEF R!Init
  <2> QED BY <2>1, <2>2, <2>3 DEF R!TypeOK, RolesTask, R!Holders
<1>4. TasksApart /\ ReplacementsKnow /\ TakersKeep /\ MembersMade /\ ListsDrift
  BY <1>1, <1>2 DEF TasksApart, ReplacementsKnow, TakersKeep, MembersMade, ListsDrift, Targets
<1>5. OneOverride /\ FlagFollows /\ AdminStays
  BY DEF R!Init, OneOverride, R!user_overrides, FlagFollows, AdminStays
<1> QED BY <1>3, <1>4, <1>5 DEF R!Init, RolesInv

LEMMA RolesSafe == RolesInv => PermissionsSound
<1> SUFFICES ASSUME RolesInv PROVE PermissionsSound
  OBVIOUS
<1> USE IdentityAssumption
<1>0. \A S : R!Cardinality(S) = Cardinality(S)
  BY Zenon DEF R!Cardinality, Cardinality
<1>1. AsksAgree
  <2> SUFFICES ASSUME NEW u \in Users, u \notin crossed
               PROVE  Cardinality(R!is_granted(u)) = 1 /\ R!is_granted(u) = R!granted_permissions(u)
    BY <1>0 DEF AsksAgree, R!AsksAgree
  <2>1. \E x : R!is_granted(u) = {x}
    <3>1. CASE R!user_overrides(u) = {}
      BY <3>1 DEF R!is_granted
    <3>2. CASE R!user_overrides(u) # {}
      <4>1. PICK g \in R!user_overrides(u) : R!user_overrides(u) = {g}
        BY <3>2 DEF RolesInv, OneOverride
      <4> QED BY <3>2, <4>1 DEF R!is_granted
    <3> QED BY <3>1, <3>2
  <2>2. R!is_granted(u) = R!granted_permissions(u)
    BY DEF R!is_granted, R!granted_permissions
  <2> QED BY <2>1, <2>2, FS_Singleton
<1>2. AdminsRemain
  <2>1. ASSUME NEW u \in Users \ (crossed \cup drifted), \A a \in Users : change[a].target # u
        PROVE  u \in flag <=> << u, Admin >> \in members
    BY <2>1 DEF RolesInv, FlagFollows, Targets
  <2> QED BY <2>1 DEF RolesInv, AdminStays, AdminsRemain, R!AdminsRemain
<1> QED BY <1>1, <1>2 DEF PermissionsSound, RolesInv

LEMMA RolesSpec == R!Init /\ [][R!Next]_rolesVars => []RolesInv
BY RolesInit, RolesStep, PTL

\* However many users are created, with or without the flag, and whatever is
\* assigned, revoked, denied and deleted: the ways of asking for a permission
\* agree unless two changes of one user crossed, an Admin remains, and a
\* set_user_admin that completes leaves the flag as the role is whatever it was
\* before, create_user included (Authz, create_user, set_admin, set_roles,
\* set_permissions).
THEOREM PermissionsStaySound == MCSpec => []PermissionsSound
<1>1. MCInit => R!Init
  BY DEF MCInit
<1>2. [MCNext]_<< side, tenants, permissions, account, rest >> => [R!Next]_rolesVars
  BY DEF MCNext, permissions, rolesVars
<1> QED BY <1>1, <1>2, RolesSpec, RolesSafe, PTL DEF MCSpec

----------------------------------------------------------------------------
(* Accounts and credentials.                                               *)

\* The steps of a request that may still rely on what it has read.
Relying == {"list", "attempt", "code", "session", "rotate", "rotated", "password", "change"}
Closing == {"retire", "revoke", "unlist"}
Whats == {"setup", "confirm", "disable", "activate", "deactivate", "delete"}

Does(q, step) == task[q].step = step

\* A request in hand, and what its argument is.
TaskShape(q) ==
    /\ task[q] = [step |-> task[q].step, arg |-> task[q].arg, read |-> task[q].read, late |-> task[q].late]
    /\ task[q].step \in Relying \cup Closing
    /\ task[q].read \in A!UserRows /\ task[q].read.password \in Passwords /\ task[q].late \subseteq A!Columns
    /\ Does(q, "code") => task[q].arg \in Codes
    /\ Does(q, "rotate") => task[q].arg \in Tokens
    /\ Does(q, "password") => task[q].arg \in Passwords
    /\ Does(q, "change") => task[q].arg \in Whats
    /\ Does(q, "retire") => task[q].arg \in Passwords
    /\ Does(q, "revoke") /\ task[q].arg = "delete" => user.state = "deleted"
    /\ Does(q, "unlist") => user.state = "deleted"

TasksShaped ==
    /\ task = [q \in Requests |-> task[q]]
    /\ \A q \in Requests : task[q] = A!Idle \/ TaskShape(q)

\* Before the user exists there is nothing.
NothingBefore ==
    IF user.state = "none"
    THEN /\ user = A!NoUser /\ history = << >> /\ left = << >> /\ spent = {} /\ wrong = 0 /\ ~listed
         /\ \A t \in Tokens : token[t] = A!NoToken
         /\ \A q \in Requests : task[q] = A!Idle
    ELSE user.password \in Passwords

\* A stamp is changed by requests that have started.
Stamping == { q \in Requests : task[q].step \in {"password", "change"} }
StampsCounted == IsFiniteSet(Stamping) /\ user.stamp + Cardinality(Stamping) <= acts

\* A column that is not known to be overwritten is as it was read.
Fresh(q) ==
    /\ "stamp" \in task[q].late \/ task[q].read.stamp = user.stamp
    /\ "password" \in task[q].late \/ task[q].read.password = user.password
    /\ "codes" \in task[q].late \/ task[q].read.codes = user.codes
    /\ "failed" \in task[q].late \/ task[q].read.failed = user.failed

ReadsFresh == \A q \in Requests : task[q].step \in Relying => Fresh(q)

\* history is the first HistoryCount of s.
Filed(s) ==
    /\ Len(history) = IF Len(s) < HistoryCount THEN Len(s) ELSE HistoryCount
    /\ \A i \in 1..Len(history) : history[i] = s[i]

\* Between the change of a password and the end of its filing the history lacks
\* the first of those left behind; a change that has found its password unused
\* and is not overtaken still does.
Used(p) == HistoryCount > 0 /\ (p = user.password \/ \E i \in 1..Len(left) : i <= HistoryCount - 1 /\ left[i] = p)

HistoryFollows ==
    "password" \notin slips =>
        /\ \A p, q \in Requests : Does(p, "retire") /\ Does(q, "retire") => p = q
        /\ (\A q \in Requests : ~Does(q, "retire")) => Filed(left)
        /\ \A q \in Requests : Does(q, "retire") =>
              left # << >> /\ task[q].read.password = left[1] /\ Filed(Tail(left))
        /\ \A p \in Requests : Does(p, "password") /\ "password" \notin task[p].late =>
              ~Used(task[p].arg) /\ \A q \in Requests : ~Does(q, "retire")
        /\ \A i \in 1..Len(left) : i <= HistoryCount - 1 => left[i] # user.password
        /\ HistoryCount > 0 /\ left # << >> => left[1] # user.password

CodesSpent == "codes" \in slips \/ spent \cap user.codes = {}
AttemptsCounted == "failed" \in slips \/ user.failed = wrong

\* A request on its way to the directory is why it does not follow.
DirectoryWaits ==
    "directory" \notin slips =>
        /\ A!Live /\ ~listed => \E q \in Requests : Does(q, "list")
        /\ ~A!Live /\ listed =>
              \E q \in Requests : Does(q, "unlist") \/ (Does(q, "revoke") /\ task[q].arg = "delete")

AccountInv ==
    /\ A!TypeOK /\ TasksShaped /\ NothingBefore /\ StampsCounted /\ ReadsFresh
    /\ SessionsEnd /\ HistoryFollows /\ CodesSpent /\ AttemptsCounted /\ DirectoryWaits

LEMMA AccountTypes ==
    ASSUME AccountInv
    PROVE  /\ user = [user EXCEPT !.state = user.state] /\ user.state \in {"none", "live", "deleted"} /\ user.active \in BOOLEAN
           /\ user.stamp \in 0..MaxActs /\ user.password \in Passwords \cup {None} /\ user.failed \in 0..MaxFailed
           /\ user.locked \in BOOLEAN /\ user.enabled \in BOOLEAN /\ user.confirmed \in BOOLEAN /\ user.codes \subseteq Codes
           /\ MaxActs \in Nat /\ MaxFailed \in Nat /\ HistoryCount \in Nat /\ acts \in 0..MaxActs /\ wrong \in 0..MaxFailed
BY IdentityAssumption DEF AccountInv, A!TypeOK, A!UserRows

LEMMA StampsLess ==
    ASSUME StampsCounted, Stamping' \subseteq Stamping, user'.stamp = user.stamp, acts' \in Nat, acts \in Nat,
           user.stamp \in Nat, acts <= acts'
    PROVE  StampsCounted'
<1>1. IsFiniteSet(Stamping') /\ Cardinality(Stamping') <= Cardinality(Stamping)
  BY FS_Subset DEF StampsCounted
<1>2. Cardinality(Stamping') \in Nat /\ Cardinality(Stamping) \in Nat
  BY <1>1, FS_CardinalityType DEF StampsCounted
<1> HIDE DEF Stamping
<1> QED BY <1>1, <1>2 DEF StampsCounted

LEMMA StampsMore ==
    ASSUME StampsCounted, NEW q, Stamping' \subseteq Stamping \cup {q}, user'.stamp = user.stamp, acts \in Nat, acts' = acts + 1,
           user.stamp \in Nat
    PROVE  StampsCounted'
<1>1. IsFiniteSet(Stamping \cup {q}) /\ Cardinality(Stamping \cup {q}) <= Cardinality(Stamping) + 1
  <2>1. Cardinality(Stamping) \in Nat
    BY FS_CardinalityType DEF StampsCounted
  <2> QED BY <2>1, FS_AddElement DEF StampsCounted
<1>2. IsFiniteSet(Stamping') /\ Cardinality(Stamping') <= Cardinality(Stamping \cup {q})
  BY <1>1, FS_Subset
<1>3. Cardinality(Stamping') \in Nat /\ Cardinality(Stamping) \in Nat /\ Cardinality(Stamping \cup {q}) \in Nat
  BY <1>1, <1>2, FS_CardinalityType DEF StampsCounted
<1> HIDE DEF Stamping
<1> QED BY <1>1, <1>2, <1>3 DEF StampsCounted

LEMMA StampsUsed ==
    ASSUME StampsCounted, NEW q \in Stamping, Stamping' = Stamping \ {q}, user'.stamp \in Nat, user.stamp \in Nat,
           user'.stamp <= user.stamp + 1, acts \in Nat, acts' = acts
    PROVE  StampsCounted' /\ user.stamp + 1 <= acts
<1>1. IsFiniteSet(Stamping') /\ Cardinality(Stamping') = Cardinality(Stamping) - 1
  BY FS_RemoveElement DEF StampsCounted
<1>2. Cardinality(Stamping') \in Nat /\ Cardinality(Stamping) \in Nat
  BY <1>1, FS_CardinalityType DEF StampsCounted
<1> HIDE DEF Stamping
<1> QED BY <1>1, <1>2 DEF StampsCounted

LEMMA BeginKeeps ==
    ASSUME AccountInv, NEW q \in Requests, NEW step, NEW arg, A!Begins(q, step, arg),
           UNCHANGED << user, history, token, listed, left, spent, wrong, slips >>,
           step \in {"attempt", "code", "rotate", "password", "change", "revoke"},
           user.state # "none",
           step = "code" => arg \in Codes,
           step = "rotate" => arg \in Tokens,
           step = "password" => arg \in Passwords /\ (HistoryCount > 0 => ~A!Reused(arg)),
           step = "change" => arg \in Whats,
           step = "revoke" => arg = None
    PROVE  AccountInv'
<1> USE IdentityAssumption
<1> DEFINE t == [step |-> step, arg |-> arg, read |-> user, late |-> A!Filing(step)]
<1>1. /\ task[q] = A!Idle /\ acts < MaxActs /\ acts' = acts + 1 /\ task' = [task EXCEPT ![q] = t]
      /\ task = [r \in Requests |-> task[r]]
  BY DEF A!Begins, AccountInv, TasksShaped
<1>2. task'[q] = t /\ (\A r \in Requests \ {q} : task'[r] = task[r]) /\ task' = [r \in Requests |-> task'[r]]
  BY <1>1
<1>3. t.step = step /\ t.arg = arg /\ t.read = user /\ t.late = A!Filing(step) /\ A!Filing(step) \subseteq A!Columns
  BY DEF A!Filing, A!Columns
<1>4. A!Idle.step = "idle"
  BY DEF A!Idle
<1>5. user.password \in Passwords /\ user \in A!UserRows
  BY DEF AccountInv, NothingBefore, A!TypeOK
<1> HIDE DEF t
<1>6. TasksShaped'
  <2>1. \A r \in Requests : r # q => task'[r] = A!Idle \/ TaskShape(r)'
    BY <1>2 DEF AccountInv, TasksShaped, TaskShape, Does
  <2>2. TaskShape(q)'
    BY <1>2, <1>3, <1>5 DEF TaskShape, Does, Relying, Closing, t
  <2> QED BY <1>2, <2>1, <2>2 DEF TasksShaped
<1>7. A!TypeOK'
  <2>1. \A r \in Requests : task'[r].read \in A!UserRows /\ task'[r].late \subseteq A!Columns
    BY <1>2, <1>3, <1>5 DEF AccountInv, A!TypeOK
  <2> QED BY <1>1, <2>1, AccountTypes DEF AccountInv, A!TypeOK
<1>8. NothingBefore'
  BY <1>5 DEF NothingBefore
<1>9. StampsCounted'
  <2>1. Stamping' \subseteq Stamping \cup {q}
    BY <1>2 DEF Stamping
  <2> QED BY <1>1, <2>1, AccountTypes, StampsMore DEF AccountInv
<1>10. ReadsFresh'
  BY <1>2, <1>3 DEF AccountInv, ReadsFresh, Fresh
<1>11. SessionsEnd'
  BY <1>1, <1>2, <1>4 DEF AccountInv, SessionsEnd, A!SessionsEnd
<1>12. HistoryFollows'
  <2> SUFFICES ASSUME "password" \notin slips PROVE HistoryFollows'
    BY DEF HistoryFollows
  <2>0. \A r \in Requests : Does(r, "retire")' <=> Does(r, "retire")
    BY <1>1, <1>2, <1>3, <1>4 DEF Does
  <2>1. \A r, p \in Requests : Does(r, "retire")' /\ Does(p, "retire")' => r = p
    BY <2>0 DEF AccountInv, HistoryFollows
  <2>2. (\A r \in Requests : ~Does(r, "retire")') => Filed(left)'
    BY <2>0 DEF AccountInv, HistoryFollows, Filed
  <2>3. \A r \in Requests : Does(r, "retire")' => left' # << >> /\ task'[r].read.password = left'[1] /\ Filed(Tail(left))'
    <3> SUFFICES ASSUME NEW r \in Requests, Does(r, "retire")'
                 PROVE  left' # << >> /\ task'[r].read.password = left'[1] /\ Filed(Tail(left))'
      OBVIOUS
    <3>1. Does(r, "retire") /\ r # q
      BY <2>0, <1>1, <1>4 DEF Does
    <3> QED BY <1>2, <3>1 DEF AccountInv, HistoryFollows, Filed
  <2>4. ASSUME NEW p \in Requests, Does(p, "password")', "password" \notin task'[p].late
        PROVE  ~Used(task[p].arg)' /\ \A r \in Requests : ~Does(r, "retire")'
    <3>1. CASE p # q
      BY <1>2, <2>0, <2>4, <3>1 DEF AccountInv, HistoryFollows, Does, Used
    <3>2. CASE p = q
      <4>1. step = "password" /\ \A r \in Requests : ~Does(r, "retire")
        BY <1>2, <1>3, <2>4, <3>2 DEF Does, A!Filing
      <4>2. Filed(left)
        BY <4>1 DEF AccountInv, HistoryFollows
      <4>3. left \in Seq(Passwords) /\ history \in Seq(Passwords)
        BY DEF AccountInv, A!TypeOK
      <4>4. ~Used(arg)
        <5> SUFFICES ASSUME Used(arg) PROVE FALSE
          OBVIOUS
        <5>1. HistoryCount > 0 /\ ~A!Reused(arg)
          BY <4>1 DEF Used
        <5>2. PICK i \in 1..Len(left) : i <= HistoryCount - 1 /\ left[i] = arg
          BY <5>1 DEF Used, A!Reused
        <5>3. i \in 1..Len(history) /\ history[i] = arg
          BY <4>2, <4>3, <5>2 DEF Filed
        <5> QED BY <4>3, <5>1, <5>2, <5>3 DEF A!Reused
      <4> QED BY <1>2, <1>3, <2>0, <3>2, <4>1, <4>4 DEF Used
    <3> QED BY <3>1, <3>2
  <2>5. /\ \A i \in 1..Len(left') : i <= HistoryCount - 1 => left'[i] # user'.password
        /\ HistoryCount > 0 /\ left' # << >> => left'[1] # user'.password
    BY DEF AccountInv, HistoryFollows
  <2> QED BY <2>1, <2>2, <2>3, <2>4, <2>5 DEF HistoryFollows
<1>13. CodesSpent' /\ AttemptsCounted'
  BY DEF AccountInv, CodesSpent, AttemptsCounted
<1>14. DirectoryWaits'
  <2>1. A!Live' <=> A!Live
    BY DEF A!Live
  <2>2. \A r \in Requests : Does(r, "list") => Does(r, "list")'
    BY <1>1, <1>2, <1>4 DEF Does
  <2>3. \A r \in Requests : Does(r, "unlist") \/ (Does(r, "revoke") /\ task[r].arg = "delete")
                            => (Does(r, "unlist") \/ (Does(r, "revoke") /\ task[r].arg = "delete"))'
    BY <1>1, <1>2, <1>4 DEF Does
  <2> QED BY <2>1, <2>2, <2>3 DEF AccountInv, DirectoryWaits
<1> QED BY <1>6, <1>7, <1>8, <1>9, <1>10, <1>11, <1>12, <1>13, <1>14 DEF AccountInv

LEMMA EndKeeps ==
    ASSUME AccountInv, NEW q \in Requests, task[q] # A!Idle, A!Ends(q),
           UNCHANGED << user, history, left, spent, wrong >>,
           slips \subseteq slips', slips' \subseteq A!Slips,
           acts' \in 0..MaxActs, acts <= acts',
           token' \in [Tokens -> [stamp : 0..MaxActs, state : {"none", "live", "revoked"}]], listed' \in BOOLEAN,
           task[q].step = "retire" => "password" \in slips',
           SessionsEnd', DirectoryWaits'
    PROVE  AccountInv'
<1> USE IdentityAssumption
<1>1. task' = [task EXCEPT ![q] = A!Idle] /\ task = [r \in Requests |-> task[r]]
  BY DEF A!Ends, AccountInv, TasksShaped
<1>2. task'[q] = A!Idle /\ (\A r \in Requests \ {q} : task'[r] = task[r]) /\ task' = [r \in Requests |-> task'[r]]
  BY <1>1
<1>3. A!Idle.step = "idle" /\ A!Idle.late = {} /\ A!Idle.read = A!NoUser /\ A!NoUser \in A!UserRows
  <2>1. A!NoUser \in A!UserRows
    BY AccountTypes DEF A!NoUser, A!UserRows
  <2> QED BY <2>1 DEF A!Idle
<1>4. user.state # "none" /\ user.password \in Passwords
  BY DEF AccountInv, NothingBefore
<1>6. TasksShaped'
  <2>1. \A r \in Requests : task'[r] = A!Idle \/ TaskShape(r)'
    BY <1>2 DEF AccountInv, TasksShaped, TaskShape, Does
  <2> QED BY <1>2, <2>1 DEF TasksShaped
<1>7. A!TypeOK'
  <2>1. \A r \in Requests : task'[r].read \in A!UserRows /\ task'[r].late \subseteq A!Columns
    BY <1>2, <1>3 DEF AccountInv, A!TypeOK
  <2> QED BY <2>1, AccountTypes DEF AccountInv, A!TypeOK
<1>8. NothingBefore'
  BY <1>4 DEF NothingBefore
<1>9. StampsCounted'
  <2>1. Stamping' \subseteq Stamping
    BY <1>2, <1>3 DEF Stamping
  <2> QED BY <2>1, AccountTypes, StampsLess DEF AccountInv
<1>10. ReadsFresh'
  <2>1. \A r \in Requests : task'[r].step \in Relying => r # q
    BY <1>2, <1>3 DEF Relying
  <2> QED BY <1>2, <2>1 DEF AccountInv, ReadsFresh, Fresh
<1>12. HistoryFollows'
  <2> SUFFICES ASSUME "password" \notin slips' PROVE HistoryFollows'
    BY DEF HistoryFollows
  <2>0. (\A r \in Requests : Does(r, "retire")' <=> Does(r, "retire")) /\ "password" \notin slips
    BY <1>1, <1>2, <1>3 DEF Does
  <2>1. \A r, p \in Requests : Does(r, "retire")' /\ Does(p, "retire")' => r = p
    BY <2>0 DEF AccountInv, HistoryFollows
  <2>2. (\A r \in Requests : ~Does(r, "retire")') => Filed(left)'
    BY <2>0 DEF AccountInv, HistoryFollows, Filed
  <2>3. \A r \in Requests : Does(r, "retire")' => left' # << >> /\ task'[r].read.password = left'[1] /\ Filed(Tail(left))'
    <3> SUFFICES ASSUME NEW r \in Requests, Does(r, "retire")'
                 PROVE  left' # << >> /\ task'[r].read.password = left'[1] /\ Filed(Tail(left))'
      OBVIOUS
    <3>1. Does(r, "retire") /\ r # q
      BY <2>0, <1>2, <1>3 DEF Does
    <3> QED BY <1>2, <2>0, <3>1 DEF AccountInv, HistoryFollows, Filed
  <2>4. ASSUME NEW p \in Requests, Does(p, "password")', "password" \notin task'[p].late
        PROVE  ~Used(task[p].arg)' /\ \A r \in Requests : ~Does(r, "retire")'
    <3>1. p # q
      BY <1>2, <1>3, <2>4 DEF Does
    <3> QED BY <1>2, <2>0, <2>4, <3>1 DEF AccountInv, HistoryFollows, Does, Used
  <2>5. /\ \A i \in 1..Len(left') : i <= HistoryCount - 1 => left'[i] # user'.password
        /\ HistoryCount > 0 /\ left' # << >> => left'[1] # user'.password
    BY <2>0 DEF AccountInv, HistoryFollows
  <2> QED BY <2>1, <2>2, <2>3, <2>4, <2>5 DEF HistoryFollows
<1>13. CodesSpent' /\ AttemptsCounted'
  BY DEF AccountInv, CodesSpent, AttemptsCounted
<1> QED BY <1>6, <1>7, <1>8, <1>9, <1>10, <1>12, <1>13 DEF AccountInv

LEMMA LateColumns ==
    ASSUME NEW s, NEW g, NEW d, NEW l, NEW more
    PROVE  [[step |-> s, arg |-> g, read |-> d, late |-> l] EXCEPT !.late = more]
             = [step |-> s, arg |-> g, read |-> d, late |-> more]
OBVIOUS

\* What a write of columns other than the password's leaves in hand.
LEMMA WritesShape ==
    ASSUME AccountInv, NEW q \in Requests, task[q] # A!Idle, NEW step \in {"idle", "session", "revoke"}, NEW cols \in SUBSET A!Columns,
           A!Writes(q, step, cols), user' \in A!UserRows, user'.password = user.password, user'.state # "none",
           user.state = "deleted" => user'.state = "deleted",
           step = "revoke" /\ task[q].arg = "delete" => user'.state = "deleted",
           "stamp" \in cols \/ user'.stamp = user.stamp,
           "codes" \in cols \/ user'.codes = user.codes,
           "failed" \in cols \/ user'.failed = user.failed
    PROVE  /\ TasksShaped' /\ ReadsFresh' /\ NothingBefore'
           /\ task'[q].step = step /\ (step # "idle" => task'[q].arg = task[q].arg)
           /\ \A r \in Requests : task'[r].read \in A!UserRows /\ task'[r].late \subseteq A!Columns
           /\ \A r \in Requests \ {q} : task'[r].step = task[r].step /\ task'[r].arg = task[r].arg /\ task'[r].read = task[r].read
                                        /\ task[r].late \subseteq task'[r].late
<1> USE IdentityAssumption
<1>0. A!Idle.step = "idle" /\ A!Idle.late = {} /\ A!Idle.read = A!NoUser /\ A!NoUser \in A!UserRows
  <2>1. A!NoUser \in A!UserRows
    BY AccountTypes DEF A!NoUser, A!UserRows
  <2> QED BY <2>1 DEF A!Idle
<1>1. user.state # "none" /\ user'.password \in Passwords
  BY DEF AccountInv, NothingBefore
<1>2. \A r \in Requests : task[r] = A!Idle \/ TaskShape(r)
  BY DEF AccountInv, TasksShaped
<1>3. task' = [r \in Requests |-> task'[r]]
  BY DEF A!Writes
<1>4. /\ step = "idle" => task'[q] = A!Idle
      /\ step # "idle" => task'[q] = [step |-> step, arg |-> task[q].arg, read |-> user', late |-> {}]
  BY DEF A!Writes
<1>5. \A r \in Requests \ {q} :
        IF task[r] = A!Idle THEN task'[r] = A!Idle
        ELSE task'[r] = [step |-> task[r].step, arg |-> task[r].arg, read |-> task[r].read, late |-> task[r].late \cup cols]
  <2> SUFFICES ASSUME NEW r \in Requests \ {q}, task[r] # A!Idle
               PROVE  task'[r] = [step |-> task[r].step, arg |-> task[r].arg, read |-> task[r].read, late |-> task[r].late \cup cols]
    BY DEF A!Writes
  <2>1. task'[r] = [task[r] EXCEPT !.late = task[r].late \cup cols]
    BY DEF A!Writes
  <2>2. task[r] = [step |-> task[r].step, arg |-> task[r].arg, read |-> task[r].read, late |-> task[r].late]
    BY <1>2 DEF TaskShape
  <2>3. [task[r] EXCEPT !.late = task[r].late \cup cols]
          = [step |-> task[r].step, arg |-> task[r].arg, read |-> task[r].read, late |-> task[r].late \cup cols]
    BY <2>2, LateColumns, SMTT(20)
  <2> QED BY <2>1, <2>3
<1>51. ASSUME NEW r \in Requests \ {q}, task[r] # A!Idle
      PROVE  task'[r].step = task[r].step /\ task'[r].arg = task[r].arg /\ task'[r].read = task[r].read
             /\ task'[r].late = task[r].late \cup cols
  <2>1. task'[r] = [step |-> task[r].step, arg |-> task[r].arg, read |-> task[r].read, late |-> task[r].late \cup cols]
    BY <1>5, <1>51
  <2> QED BY <2>1
<1>6. TasksShaped'
  <2>1. ASSUME NEW r \in Requests \ {q} PROVE task'[r] = A!Idle \/ TaskShape(r)'
    <3>1. CASE task[r] = A!Idle
      BY <1>5, <3>1
    <3>2. CASE task[r] # A!Idle
      <4>1. task'[r] = [step |-> task'[r].step, arg |-> task'[r].arg, read |-> task'[r].read, late |-> task'[r].late]
        BY <1>5, <1>51, <3>2
      <4>2. TaskShape(r)
        BY <1>2, <3>2
      <4> QED BY <1>51, <3>2, <4>1, <4>2 DEF TaskShape, Does
    <3> QED BY <3>1, <3>2
  <2>2. task'[q] = A!Idle \/ TaskShape(q)'
    BY <1>1, <1>4 DEF TaskShape, Does, Relying, Closing
  <2> QED BY <1>3, <2>1, <2>2 DEF TasksShaped
<1>7. ReadsFresh'
  <2>1. \A r \in Requests \ {q} : task'[r].step \in Relying => Fresh(r)'
    <3> SUFFICES ASSUME NEW r \in Requests \ {q}, task'[r].step \in Relying PROVE Fresh(r)'
      OBVIOUS
    <3>1. task[r] # A!Idle
      BY <1>0, <1>5 DEF Relying
    <3>2. Fresh(r)
      BY <1>51, <3>1 DEF AccountInv, ReadsFresh
    <3> QED BY <1>51, <3>1, <3>2 DEF Fresh
  <2>2. task'[q].step \in Relying => Fresh(q)'
    BY <1>0, <1>4 DEF Fresh, Relying
  <2> QED BY <2>1, <2>2 DEF ReadsFresh
<1>8. NothingBefore'
  BY <1>1 DEF NothingBefore
<1>9. task'[q].step = step /\ (step # "idle" => task'[q].arg = task[q].arg)
  BY <1>0, <1>4
<1>10. \A r \in Requests : task'[r].read \in A!UserRows /\ task'[r].late \subseteq A!Columns
  <2>1. \A r \in Requests \ {q} : task'[r].read \in A!UserRows /\ task'[r].late \subseteq A!Columns
    <3> SUFFICES ASSUME NEW r \in Requests \ {q} PROVE task'[r].read \in A!UserRows /\ task'[r].late \subseteq A!Columns
      OBVIOUS
    <3>1. CASE task[r] = A!Idle
      BY <1>0, <1>5, <3>1
    <3>2. CASE task[r] # A!Idle
      BY <1>2, <1>51, <3>2 DEF TaskShape
    <3> QED BY <3>1, <3>2
  <2>2. task'[q].read \in A!UserRows /\ task'[q].late \subseteq A!Columns
    BY <1>0, <1>4
  <2> QED BY <2>1, <2>2
<1>11. \A r \in Requests \ {q} : task'[r].step = task[r].step /\ task'[r].arg = task[r].arg /\ task'[r].read = task[r].read
                                        /\ task[r].late \subseteq task'[r].late
  <2> SUFFICES ASSUME NEW r \in Requests \ {q}
               PROVE  task'[r].step = task[r].step /\ task'[r].arg = task[r].arg /\ task'[r].read = task[r].read
                      /\ task[r].late \subseteq task'[r].late
    OBVIOUS
  <2>1. CASE task[r] = A!Idle
    BY <1>5, <2>1
  <2>2. CASE task[r] # A!Idle
    BY <1>51, <2>2
  <2> QED BY <2>1, <2>2
<1> QED BY <1>6, <1>7, <1>8, <1>9, <1>10, <1>11

\* And what it keeps of the history, when the passwords stay.
LEMMA HistoryKept ==
    ASSUME AccountInv, UNCHANGED << history, left >>, user'.password = user.password, "password" \in slips => "password" \in slips',
           \A r \in Requests :
             /\ Does(r, "retire")' <=> Does(r, "retire")
             /\ Does(r, "password")' => Does(r, "password") /\ task'[r].arg = task[r].arg /\ task[r].late \subseteq task'[r].late
             /\ Does(r, "retire") => task'[r].read = task[r].read
    PROVE  HistoryFollows'
<1> SUFFICES ASSUME "password" \notin slips' PROVE HistoryFollows'
  BY DEF HistoryFollows
<1>1. \A r, p \in Requests : Does(r, "retire")' /\ Does(p, "retire")' => r = p
  BY DEF AccountInv, HistoryFollows
<1>2. (\A r \in Requests : ~Does(r, "retire")') => Filed(left)'
  BY DEF AccountInv, HistoryFollows, Filed
<1>3. \A r \in Requests : Does(r, "retire")' => left' # << >> /\ task'[r].read.password = left'[1] /\ Filed(Tail(left))'
  BY DEF AccountInv, HistoryFollows, Filed
<1>4. \A p \in Requests : Does(p, "password")' /\ "password" \notin task'[p].late =>
          ~Used(task[p].arg)' /\ \A r \in Requests : ~Does(r, "retire")'
  BY DEF AccountInv, HistoryFollows, Used
<1>5. /\ \A i \in 1..Len(left') : i <= HistoryCount - 1 => left'[i] # user'.password
      /\ HistoryCount > 0 /\ left' # << >> => left'[1] # user'.password
  BY DEF AccountInv, HistoryFollows
<1> QED BY <1>1, <1>2, <1>3, <1>4, <1>5 DEF HistoryFollows

LEMMA WritesKeep ==
    ASSUME AccountInv, NEW q \in Requests, task[q].step \in {"attempt", "code", "change"},
           NEW step \in {"idle", "session", "revoke"}, NEW cols \in SUBSET A!Columns,
           A!Writes(q, step, cols), user' \in A!UserRows, user'.password = user.password, user'.state # "none",
           user.state = "deleted" => user'.state = "deleted",
           step = "revoke" /\ task[q].arg = "delete" => user'.state = "deleted",
           "stamp" \in cols \/ user'.stamp = user.stamp,
           "codes" \in cols \/ user'.codes = user.codes,
           "failed" \in cols \/ user'.failed = user.failed,
           UNCHANGED << history, token, listed, left, acts >>,
           slips \subseteq slips', slips' \subseteq A!Slips, wrong' \in 0..MaxFailed, spent' \subseteq Codes,
           step = "revoke" \/ user'.stamp = user.stamp,
           user'.state = user.state \/ (task[q].arg = "delete" /\ step = "revoke" /\ user'.state = "deleted"),
           StampsCounted', CodesSpent', AttemptsCounted'
    PROVE  AccountInv'
<1> USE IdentityAssumption
<1>0. task[q] # A!Idle
  BY DEF A!Idle
<1>1. /\ TasksShaped' /\ ReadsFresh' /\ NothingBefore'
      /\ task'[q].step = step /\ (step # "idle" => task'[q].arg = task[q].arg)
      /\ \A r \in Requests : task'[r].read \in A!UserRows /\ task'[r].late \subseteq A!Columns
      /\ \A r \in Requests \ {q} : task'[r].step = task[r].step /\ task'[r].arg = task[r].arg /\ task'[r].read = task[r].read
                                   /\ task[r].late \subseteq task'[r].late
  BY <1>0, WritesShape
<1>2. A!TypeOK'
  BY <1>1, AccountTypes DEF AccountInv, A!TypeOK
<1>3. SessionsEnd'
  BY <1>1 DEF AccountInv, SessionsEnd, A!SessionsEnd
<1>4. HistoryFollows'
  <2>1. \A r \in Requests :
             /\ Does(r, "retire")' <=> Does(r, "retire")
             /\ Does(r, "password")' => Does(r, "password") /\ task'[r].arg = task[r].arg /\ task[r].late \subseteq task'[r].late
             /\ Does(r, "retire") => task'[r].read = task[r].read
    BY <1>1 DEF Does
  <2> QED BY <2>1, HistoryKept
<1>5. DirectoryWaits'
  <2> SUFFICES ASSUME "directory" \notin slips' PROVE DirectoryWaits'
    BY DEF DirectoryWaits
  <2>1. \A r \in Requests : Does(r, "list") => Does(r, "list")'
    BY <1>1 DEF Does
  <2>2. \A r \in Requests : Does(r, "unlist") \/ (Does(r, "revoke") /\ task[r].arg = "delete")
                            => (Does(r, "unlist") \/ (Does(r, "revoke") /\ task[r].arg = "delete"))'
    BY <1>1 DEF Does
  <2>3. CASE user'.state = user.state
    BY <2>1, <2>2, <2>3 DEF AccountInv, DirectoryWaits, A!Live
  <2>4. CASE task[q].arg = "delete" /\ step = "revoke" /\ user'.state = "deleted"
    BY <1>1, <2>4 DEF DirectoryWaits, A!Live, Does
  <2> QED BY <2>3, <2>4
<1> QED BY <1>1, <1>2, <1>3, <1>4, <1>5 DEF AccountInv

LEMMA StampingLess ==
    ASSUME NEW q \in Requests, NEW step \in {"idle", "session", "revoke"}, NEW cols, A!Writes(q, step, cols)
    PROVE  Stamping' = Stamping \ {q}
<1>1. \A r \in Requests \ {q} : task'[r].step = task[r].step
  BY DEF A!Writes
<1>2. task'[q].step = step
  BY DEF A!Writes, A!Idle
<1> QED BY <1>1, <1>2 DEF Stamping

LEMMA WrongPassword == ASSUME AccountInv, NEW q \in Requests, A!wrong_password(q) PROVE AccountInv'
<1> USE IdentityAssumption
<1> DEFINE failed == task[q].read.failed + 1
<1>1. /\ task[q].step = "attempt" /\ A!Writes(q, "idle", {"failed"}) /\ slips' = slips \cup ({"failed"} \cap task[q].late)
      /\ UNCHANGED << history, token, listed, left, spent, acts >>
      /\ user' = IF failed >= MaxFailed THEN [user EXCEPT !.failed = 0, !.locked = TRUE] ELSE [user EXCEPT !.failed = failed]
      /\ wrong' = IF failed >= MaxFailed THEN 0 ELSE IF wrong < MaxFailed THEN wrong + 1 ELSE wrong
  BY DEF A!wrong_password, A!Spoils
<1>2. task[q] # A!Idle /\ TaskShape(q) /\ Fresh(q)
  BY <1>1 DEF AccountInv, TasksShaped, ReadsFresh, Relying, A!Idle
<1>3. task[q].read.failed \in 0..MaxFailed
  BY <1>2 DEF TaskShape, A!UserRows
<1>4. user \in A!UserRows /\ user.state # "none"
  BY <1>2 DEF AccountInv, A!TypeOK, NothingBefore
<1>5. user' \in A!UserRows
  <2>1. CASE failed >= MaxFailed
    <3>1. user' = [[user EXCEPT !.failed = 0] EXCEPT !.locked = TRUE]
      BY <1>1, <2>1
    <3>2. [user EXCEPT !.failed = 0] \in A!UserRows
      BY <1>4, AccountTypes DEF A!UserRows
    <3> QED BY <3>1, <3>2 DEF A!UserRows
  <2>2. CASE ~(failed >= MaxFailed)
    <3>1. user' = [user EXCEPT !.failed = failed] /\ failed \in 0..MaxFailed
      BY <1>1, <1>3, <2>2, AccountTypes
    <3> QED BY <1>4, <3>1 DEF A!UserRows
  <2> QED BY <2>1, <2>2
<1>6. /\ user'.password = user.password /\ user'.state = user.state /\ user'.stamp = user.stamp /\ user'.codes = user.codes
      /\ user'.failed = IF failed >= MaxFailed THEN 0 ELSE failed
  BY <1>1, <1>4 DEF A!UserRows
<1>7. StampsCounted'
  BY <1>1, <1>6, AccountTypes, StampsLess, StampingLess DEF AccountInv
<1>8. CodesSpent'
  BY <1>1, <1>6 DEF AccountInv, CodesSpent
<1>9. AttemptsCounted'
  BY <1>1, <1>2, <1>3, <1>6, AccountTypes DEF AccountInv, AttemptsCounted, Fresh
<1>10. wrong' \in 0..MaxFailed
  BY <1>1, AccountTypes
<1>11. slips \subseteq slips' /\ slips' \subseteq A!Slips /\ spent' \subseteq Codes
  BY <1>1 DEF AccountInv, A!TypeOK, A!Slips, A!Columns
<1>12. {"failed"} \in SUBSET A!Columns
  BY DEF A!Columns
<1> HIDE DEF failed
<1> QED BY <1>1, <1>4, <1>5, <1>6, <1>7, <1>8, <1>9, <1>10, <1>11, <1>12, WritesKeep

LEMMA RightPassword == ASSUME AccountInv, NEW q \in Requests, A!right_password(q) PROVE AccountInv'
<1> USE IdentityAssumption
<1>1. /\ task[q].step = "attempt" /\ slips' = slips \cup ({"failed"} \cap task[q].late)
      /\ UNCHANGED << history, token, listed, left, spent, acts >>
      /\ user' = [user EXCEPT !.failed = 0, !.locked = FALSE] /\ wrong' = 0
  BY DEF A!right_password, A!Spoils
<1>2. PICK step \in {"idle", "session"} : A!Writes(q, step, {"failed"})
  BY DEF A!right_password, A!finish_login
<1>3. task[q] # A!Idle
  BY <1>1 DEF A!Idle
<1>4. user \in A!UserRows /\ user.state # "none"
  BY <1>3 DEF AccountInv, A!TypeOK, NothingBefore
<1>5. user' \in A!UserRows
  <2>1. user' = [[user EXCEPT !.failed = 0] EXCEPT !.locked = FALSE]
    BY <1>1
  <2>2. [user EXCEPT !.failed = 0] \in A!UserRows
    BY <1>4, AccountTypes DEF A!UserRows
  <2> QED BY <2>1, <2>2 DEF A!UserRows
<1>6. /\ user'.password = user.password /\ user'.state = user.state /\ user'.stamp = user.stamp /\ user'.codes = user.codes
      /\ user'.failed = 0
  BY <1>1, <1>4 DEF A!UserRows
<1>7. StampsCounted'
  BY <1>1, <1>2, <1>6, AccountTypes, StampsLess, StampingLess DEF AccountInv
<1>8. CodesSpent' /\ AttemptsCounted'
  BY <1>1, <1>6 DEF AccountInv, CodesSpent, AttemptsCounted
<1>10. wrong' \in 0..MaxFailed
  BY <1>1, AccountTypes
<1>11. slips \subseteq slips' /\ slips' \subseteq A!Slips /\ spent' \subseteq Codes
  BY <1>1 DEF AccountInv, A!TypeOK, A!Slips, A!Columns
<1>12. {"failed"} \in SUBSET A!Columns
  BY DEF A!Columns
<1> QED BY <1>1, <1>2, <1>4, <1>5, <1>6, <1>7, <1>8, <1>10, <1>11, <1>12, WritesKeep

LEMMA VerifyTwoFactor == ASSUME AccountInv, NEW q \in Requests, A!verify_two_factor(q) PROVE AccountInv'
<1> USE IdentityAssumption
<1>1. /\ task[q].step = "code" /\ slips' = slips \cup ({"codes"} \cap task[q].late)
      /\ UNCHANGED << history, token, listed, left, wrong, acts >>
      /\ user' = [user EXCEPT !.codes = task[q].read.codes \ {task[q].arg}] /\ spent' = spent \cup {task[q].arg}
      /\ A!Writes(q, "session", {"codes"})
  BY DEF A!verify_two_factor, A!Spoils, A!consume_recovery_code
<1>3. task[q] # A!Idle
  BY <1>1 DEF A!Idle
<1>2. TaskShape(q) /\ Fresh(q)
  BY <1>1, <1>3 DEF AccountInv, TasksShaped, ReadsFresh, Relying
<1>20. task[q].arg \in Codes /\ task[q].read.codes \subseteq Codes
  BY <1>1, <1>2 DEF TaskShape, Does, A!UserRows
<1>4. user \in A!UserRows /\ user.state # "none"
  BY <1>3 DEF AccountInv, A!TypeOK, NothingBefore
<1>5. user' \in A!UserRows
  BY <1>1, <1>4, <1>20, AccountTypes DEF A!UserRows
<1>6. /\ user'.password = user.password /\ user'.state = user.state /\ user'.stamp = user.stamp /\ user'.failed = user.failed
      /\ user'.codes = task[q].read.codes \ {task[q].arg}
  BY <1>1, <1>4 DEF A!UserRows
<1>7. StampsCounted'
  BY <1>1, <1>6, AccountTypes, StampsLess, StampingLess DEF AccountInv
<1>8. CodesSpent'
  BY <1>1, <1>2, <1>6 DEF AccountInv, CodesSpent, Fresh
<1>9. AttemptsCounted'
  BY <1>1, <1>6 DEF AccountInv, AttemptsCounted
<1>11. slips \subseteq slips' /\ slips' \subseteq A!Slips /\ spent' \subseteq Codes
  BY <1>1, <1>20 DEF AccountInv, A!TypeOK, A!Slips, A!Columns
<1>12. {"codes"} \in SUBSET A!Columns /\ wrong' \in 0..MaxFailed
  BY <1>1, AccountTypes DEF A!Columns
<1> QED BY <1>1, <1>4, <1>5, <1>6, <1>7, <1>8, <1>9, <1>11, <1>12, WritesKeep

LEMMA Change == ASSUME AccountInv, NEW q \in Requests, A!change(q) PROVE AccountInv'
<1> USE IdentityAssumption
<1> DEFINE what == task[q].arg
           step == IF what = "setup" THEN "idle" ELSE "revoke"
           cols == (IF what \in {"confirm", "disable"} THEN {"codes"} ELSE {}) \cup (IF what = "setup" THEN {} ELSE {"stamp"})
<1>1. /\ task[q].step = "change" /\ UNCHANGED << history, token, listed, left, wrong, slips, acts >>
      /\ user' = A!Changed(what) /\ spent' = IF what \in {"confirm", "disable"} THEN {} ELSE spent
      /\ A!Writes(q, step, cols)
  BY DEF A!change
<1>3. task[q] # A!Idle
  BY <1>1 DEF A!Idle
<1>2. what \in Whats
  BY <1>1, <1>3 DEF AccountInv, TasksShaped, TaskShape, Does
<1>4. user \in A!UserRows /\ user.state # "none"
  BY <1>3 DEF AccountInv, A!TypeOK, NothingBefore
<1>5. q \in Stamping
  BY <1>1 DEF Stamping
<1>6. /\ user'.password = user.password /\ user'.failed = user.failed
      /\ user'.state = IF what = "delete" THEN "deleted" ELSE user.state
      /\ user'.stamp = IF what = "setup" THEN user.stamp ELSE user.stamp + 1
      /\ user'.codes = IF what = "confirm" THEN Codes ELSE IF what = "disable" THEN {} ELSE user.codes
  BY <1>1, <1>2, <1>4 DEF A!Changed, Whats, A!UserRows
<1>7. Stamping' = Stamping \ {q}
  BY <1>1, StampingLess
<1>8. StampsCounted' /\ user.stamp + 1 <= acts
  <2>1. user'.stamp \in Nat /\ user.stamp \in Nat /\ user'.stamp <= user.stamp + 1 /\ acts \in Nat /\ acts' = acts
    BY <1>1, <1>6, AccountTypes
  <2> QED BY <1>5, <1>7, <2>1, StampsUsed DEF AccountInv
<1>9. user' \in A!UserRows
  <2>1. user.stamp + 1 \in 0..MaxActs
    BY <1>8, AccountTypes
  <2>2. A!Changed(what) \in A!UserRows
    BY <1>2, <1>4, <2>1 DEF A!Changed, Whats, A!UserRows
  <2> QED BY <1>1, <2>2
<1>10. CodesSpent'
  BY <1>1, <1>6 DEF AccountInv, CodesSpent
<1>11. AttemptsCounted'
  BY <1>1, <1>6 DEF AccountInv, AttemptsCounted
<1>12. slips' \subseteq A!Slips /\ spent' \subseteq Codes /\ wrong' \in 0..MaxFailed
  BY <1>1, AccountTypes DEF AccountInv, A!TypeOK
<1>13. cols \in SUBSET A!Columns /\ step \in {"idle", "session", "revoke"}
  BY DEF A!Columns
<1>14. /\ user'.state # "none" /\ (user.state = "deleted" => user'.state = "deleted")
       /\ step = "revoke" /\ task[q].arg = "delete" => user'.state = "deleted"
       /\ "stamp" \in cols \/ user'.stamp = user.stamp
       /\ "codes" \in cols \/ user'.codes = user.codes
       /\ step = "revoke" \/ user'.stamp = user.stamp
       /\ user'.state = user.state \/ (task[q].arg = "delete" /\ step = "revoke" /\ user'.state = "deleted")
  BY <1>4, <1>6
<1> HIDE DEF what, step, cols
<1> QED BY <1>1, <1>6, <1>8, <1>9, <1>10, <1>11, <1>12, <1>13, <1>14, WritesKeep

\* Who is on the way to the directory when q is not there any more.
LEMMA EndsDirectory ==
    ASSUME AccountInv, NEW q \in Requests, A!Ends(q), user' = user, listed' = listed, slips \subseteq slips',
           task[q].step = "list" \/ task[q].step = "unlist" \/ (task[q].step = "revoke" /\ task[q].arg = "delete")
              => "directory" \in slips'
    PROVE  DirectoryWaits'
<1> SUFFICES ASSUME "directory" \notin slips' PROVE DirectoryWaits'
  BY DEF DirectoryWaits
<1>1. \A r \in Requests \ {q} : task'[r] = task[r]
  BY DEF AccountInv, TasksShaped, A!Ends
<1>2. \A r \in Requests : Does(r, "list") => Does(r, "list")'
  BY <1>1 DEF Does
<1>3. \A r \in Requests : Does(r, "unlist") \/ (Does(r, "revoke") /\ task[r].arg = "delete")
                          => (Does(r, "unlist") \/ (Does(r, "revoke") /\ task[r].arg = "delete"))'
  BY <1>1 DEF Does
<1> QED BY <1>2, <1>3 DEF AccountInv, DirectoryWaits, A!Live

LEMMA EndsSessions ==
    ASSUME AccountInv, NEW q \in Requests, A!Ends(q), user' = user, token' = token, slips \subseteq slips',
           task[q].step \in {"retire", "revoke"} => "stamp" \in slips'
    PROVE  SessionsEnd'
<1>1. \A r \in Requests \ {q} : task'[r] = task[r]
  BY DEF AccountInv, TasksShaped, A!Ends
<1> QED BY <1>1 DEF AccountInv, SessionsEnd, A!SessionsEnd

LEMMA DirectoryAdd == ASSUME AccountInv, NEW q \in Requests, A!directory_add(q) PROVE AccountInv'
<1> USE IdentityAssumption
<1>1. /\ task[q].step = "list" /\ listed' = TRUE /\ A!Ends(q) /\ slips' = IF A!Live THEN slips ELSE slips \cup {"directory"}
      /\ UNCHANGED << user, history, token, left, spent, wrong, acts >>
  BY DEF A!directory_add
<1>2. task[q] # A!Idle
  BY <1>1 DEF A!Idle
<1>3. slips \subseteq slips' /\ slips' \subseteq A!Slips
  BY <1>1 DEF AccountInv, A!TypeOK, A!Slips
<1>4. SessionsEnd'
  BY <1>1, <1>3, EndsSessions
<1>5. DirectoryWaits'
  BY <1>1 DEF DirectoryWaits, A!Live
<1>6. acts' \in 0..MaxActs /\ acts <= acts' /\ token' \in [Tokens -> [stamp : 0..MaxActs, state : {"none", "live", "revoked"}]]
  BY <1>1, AccountTypes DEF AccountInv, A!TypeOK
<1> QED BY <1>1, <1>2, <1>3, <1>4, <1>5, <1>6, EndKeeps

LEMMA DirectoryRemove == ASSUME AccountInv, NEW q \in Requests, A!directory_remove(q) PROVE AccountInv'
<1> USE IdentityAssumption
<1>1. /\ task[q].step = "unlist" /\ listed' = FALSE /\ A!Ends(q)
      /\ UNCHANGED << user, history, token, left, spent, wrong, slips, acts >>
  BY DEF A!directory_remove
<1>2. task[q] # A!Idle
  BY <1>1 DEF A!Idle
<1>3. user.state = "deleted"
  BY <1>1, <1>2 DEF AccountInv, TasksShaped, TaskShape, Does
<1>4. SessionsEnd'
  BY <1>1, EndsSessions
<1>5. DirectoryWaits'
  BY <1>1, <1>3 DEF DirectoryWaits, A!Live
<1>6. /\ acts' \in 0..MaxActs /\ acts <= acts' /\ token' \in [Tokens -> [stamp : 0..MaxActs, state : {"none", "live", "revoked"}]]
      /\ slips' \subseteq A!Slips
  BY <1>1, AccountTypes DEF AccountInv, A!TypeOK
<1> QED BY <1>1, <1>2, <1>4, <1>5, <1>6, EndKeeps

LEMMA IssueSession == ASSUME AccountInv, NEW q \in Requests, A!issue_session(q) PROVE AccountInv'
<1> USE IdentityAssumption
<1>0. /\ task[q].step \in {"session", "rotated"} /\ A!Ends(q)
      /\ UNCHANGED << user, history, listed, left, spent, wrong, acts >>
      /\ slips \subseteq slips' /\ slips' \subseteq A!Slips
  BY DEF A!issue_session, A!issue_refresh_token, A!Spoils, A!row, AccountInv, A!TypeOK, A!Slips, A!Columns
<1>2. task[q] # A!Idle
  BY <1>0 DEF A!Idle
<1>20. TaskShape(q) /\ Fresh(q)
  BY <1>0, <1>2 DEF AccountInv, TasksShaped, ReadsFresh, Relying
<1>3. DirectoryWaits'
  BY <1>0, EndsDirectory
<1>4. acts' \in 0..MaxActs /\ acts <= acts'
  BY <1>0, AccountTypes
<1>5. SessionsEnd' /\ token' \in [Tokens -> [stamp : 0..MaxActs, state : {"none", "live", "revoked"}]]
  <2>1. CASE token' = token
    BY <1>0, <2>1, EndsSessions DEF AccountInv, A!TypeOK
  <2>2. CASE A!issue_refresh_token(q)
    <3>1. PICK t \in Tokens : token' = [token EXCEPT ![t] = [stamp |-> task[q].read.stamp, state |-> "live"]]
      BY <2>2 DEF A!issue_refresh_token, A!Unused
    <3>2. slips' = slips \cup ({"stamp"} \cap task[q].late)
      BY <2>2 DEF A!issue_refresh_token, A!Spoils
    <3>3. task[q].read.stamp \in 0..MaxActs
      BY <1>20 DEF TaskShape, A!UserRows
    <3>4. token \in [Tokens -> [stamp : 0..MaxActs, state : {"none", "live", "revoked"}]]
      BY DEF AccountInv, A!TypeOK
    <3>5. token' \in [Tokens -> [stamp : 0..MaxActs, state : {"none", "live", "revoked"}]]
      BY <3>1, <3>3, <3>4
    <3>6. token'[t].stamp = task[q].read.stamp /\ \A s \in Tokens \ {t} : token'[s] = token[s]
      BY <3>1, <3>4
    <3>7. \A r \in Requests \ {q} : task'[r] = task[r]
      BY <1>0 DEF AccountInv, TasksShaped, A!Ends
    <3>8. SessionsEnd'
      <4> SUFFICES ASSUME "stamp" \notin slips', \A r \in Requests : task'[r].step \notin {"retire", "revoke"}
                   PROVE  \A s \in Tokens : token'[s].state = "live" => token'[s].stamp = user'.stamp
        BY DEF SessionsEnd, A!SessionsEnd
      <4>1. \A s \in Tokens : token[s].state = "live" => token[s].stamp = user.stamp
        BY <1>0, <3>7 DEF AccountInv, SessionsEnd, A!SessionsEnd
      <4>2. task[q].read.stamp = user.stamp
        BY <1>20, <3>2 DEF Fresh
      <4> QED BY <1>0, <3>6, <4>1, <4>2
    <3> QED BY <3>5, <3>8
  <2> QED BY <2>1, <2>2 DEF A!issue_session, A!row
<1>6. listed' \in BOOLEAN
  BY <1>0 DEF AccountInv, A!TypeOK
<1> QED BY <1>0, <1>2, <1>3, <1>4, <1>5, <1>6, EndKeeps

LEMMA Broken == ASSUME AccountInv, NEW q \in Requests, A!broken(q) PROVE AccountInv'
<1> USE IdentityAssumption
<1> DEFINE lost == CASE task[q].step = "list" -> {"directory"}
                              [] task[q].step = "unlist" -> {"directory"}
                              [] task[q].step = "retire" -> {"password", "stamp"}
                              [] task[q].step = "revoke" -> {"stamp"} \cup (IF task[q].arg = "delete" THEN {"directory"} ELSE {})
                              [] OTHER -> {}
<1>1. /\ task[q] # A!Idle /\ acts < MaxActs /\ acts' = acts + 1 /\ A!Ends(q) /\ slips' = slips \cup lost
      /\ UNCHANGED << user, history, token, listed, left, spent, wrong >>
  BY DEF A!broken, A!row
<1>2. /\ task[q].step = "list" \/ task[q].step = "unlist" => "directory" \in lost
      /\ task[q].step = "retire" => "password" \in lost /\ "stamp" \in lost
      /\ task[q].step = "revoke" => "stamp" \in lost /\ (task[q].arg = "delete" => "directory" \in lost)
      /\ lost \subseteq A!Slips
  BY DEF A!Slips, A!Columns
<1> HIDE DEF lost
<1>3. slips \subseteq slips' /\ slips' \subseteq A!Slips
  BY <1>1, <1>2 DEF AccountInv, A!TypeOK
<1>4. SessionsEnd'
  BY <1>1, <1>2, EndsSessions
<1>5. DirectoryWaits'
  BY <1>1, <1>2, EndsDirectory
<1>6. /\ acts' \in 0..MaxActs /\ acts <= acts' /\ token' \in [Tokens -> [stamp : 0..MaxActs, state : {"none", "live", "revoked"}]]
      /\ listed' \in BOOLEAN
  BY <1>1, AccountTypes DEF AccountInv, A!TypeOK
<1> QED BY <1>1, <1>2, <1>3, <1>4, <1>5, <1>6, EndKeeps

LEMMA AllRevoked ==
    ASSUME AccountInv, token' = A!revoke_all_refresh_tokens
    PROVE  /\ token' \in [Tokens -> [stamp : 0..MaxActs, state : {"none", "live", "revoked"}]]
           /\ \A t \in Tokens : token'[t].state # "live"
<1>1. token \in [Tokens -> [stamp : 0..MaxActs, state : {"none", "live", "revoked"}]]
  BY DEF AccountInv, A!TypeOK
<1>2. \A t \in Tokens : [token[t] EXCEPT !.state = "revoked"] \in [stamp : 0..MaxActs, state : {"none", "live", "revoked"}]
                        /\ [token[t] EXCEPT !.state = "revoked"].state = "revoked"
  BY <1>1
<1> QED BY <1>1, <1>2 DEF A!revoke_all_refresh_tokens

LEMMA RevokeTokens == ASSUME AccountInv, NEW q \in Requests, A!revoke(q) PROVE AccountInv'
<1> USE IdentityAssumption
<1>1. /\ task[q].step = "revoke" /\ token' = A!revoke_all_refresh_tokens
      /\ UNCHANGED << user, history, listed, left, spent, wrong, slips, acts >>
  BY DEF A!revoke
<1>2. task[q] # A!Idle
  BY <1>1 DEF A!Idle
<1>3. TaskShape(q)
  BY <1>2 DEF AccountInv, TasksShaped
<1>4. SessionsEnd'
  BY <1>1, AllRevoked DEF SessionsEnd, A!SessionsEnd
<1>5. token' \in [Tokens -> [stamp : 0..MaxActs, state : {"none", "live", "revoked"}]]
  BY <1>1, AllRevoked
<1>6. CASE A!Ends(q) /\ task[q].arg # "delete"
  <2>1. DirectoryWaits'
    BY <1>1, <1>6, EndsDirectory
  <2>2. acts' \in 0..MaxActs /\ acts <= acts' /\ listed' \in BOOLEAN /\ slips' \subseteq A!Slips
    BY <1>1, AccountTypes DEF AccountInv, A!TypeOK
  <2> QED BY <1>1, <1>2, <1>4, <1>5, <1>6, <2>1, <2>2, EndKeeps
<1>7. CASE A!Goes(q, "unlist") /\ task[q].arg = "delete"
  <2>1. task' = [task EXCEPT ![q] = [task[q] EXCEPT !.step = "unlist"]]
    BY <1>7 DEF A!Goes
  <2>2. task[q] = [step |-> task[q].step, arg |-> task[q].arg, read |-> task[q].read, late |-> task[q].late]
    BY <1>3 DEF TaskShape
  <2>3. [task[q] EXCEPT !.step = "unlist"] = [step |-> "unlist", arg |-> task[q].arg, read |-> task[q].read, late |-> task[q].late]
    BY <2>2
  <2>4. /\ task'[q] = [step |-> "unlist", arg |-> task[q].arg, read |-> task[q].read, late |-> task[q].late]
        /\ \A r \in Requests \ {q} : task'[r] = task[r]
        /\ task' = [r \in Requests |-> task'[r]]
    BY <2>1, <2>3 DEF AccountInv, TasksShaped
  <2>5. TasksShaped'
    <3>1. \A r \in Requests \ {q} : task'[r] = A!Idle \/ TaskShape(r)'
      BY <1>1, <2>4 DEF AccountInv, TasksShaped, TaskShape, Does
    <3>2. TaskShape(q)'
      BY <1>1, <1>3, <1>7, <2>4 DEF TaskShape, Does, Closing
    <3> QED BY <2>4, <3>1, <3>2 DEF TasksShaped
  <2>6. A!TypeOK'
    <3>1. \A r \in Requests : task'[r].read \in A!UserRows /\ task'[r].late \subseteq A!Columns
      BY <1>3, <2>4 DEF AccountInv, A!TypeOK, TaskShape
    <3> QED BY <1>1, <1>5, <3>1 DEF AccountInv, A!TypeOK
  <2>7. NothingBefore'
    BY <1>1, <1>2 DEF AccountInv, NothingBefore
  <2>8. StampsCounted'
    <3>1. Stamping' \subseteq Stamping
      BY <2>4 DEF Stamping
    <3> QED BY <1>1, <3>1, AccountTypes, StampsLess DEF AccountInv
  <2>9. ReadsFresh'
    BY <1>1, <2>4 DEF AccountInv, ReadsFresh, Fresh, Relying
  <2>10. HistoryFollows'
    <3>1. \A r \in Requests :
             /\ Does(r, "retire")' <=> Does(r, "retire")
             /\ Does(r, "password")' => Does(r, "password") /\ task'[r].arg = task[r].arg /\ task[r].late \subseteq task'[r].late
             /\ Does(r, "retire") => task'[r].read = task[r].read
      BY <1>1, <2>4 DEF Does
    <3> QED BY <1>1, <3>1, HistoryKept
  <2>11. CodesSpent' /\ AttemptsCounted'
    BY <1>1 DEF AccountInv, CodesSpent, AttemptsCounted
  <2>12. DirectoryWaits'
    <3>1. user'.state = "deleted"
      BY <1>1, <1>3, <1>7 DEF TaskShape, Does
    <3>2. Does(q, "unlist")'
      BY <2>4 DEF Does
    <3> QED BY <3>1, <3>2 DEF DirectoryWaits, A!Live
  <2> QED BY <1>4, <2>5, <2>6, <2>7, <2>8, <2>9, <2>10, <2>11, <2>12 DEF AccountInv
<1> QED BY <1>6, <1>7 DEF A!revoke

LEMMA RotateRevoke == ASSUME AccountInv, NEW q \in Requests, A!rotate_revoke(q) PROVE AccountInv'
<1> USE IdentityAssumption
<1>1. /\ task[q].step = "rotate" /\ token' = [token EXCEPT ![task[q].arg].state = "revoked"]
      /\ slips' = slips \cup ({"tokens"} \cap task[q].late)
      /\ UNCHANGED << user, history, listed, left, spent, wrong, acts >>
  BY DEF A!rotate_revoke, A!Spoils
<1>2. task[q] # A!Idle /\ \A r \in Requests : task[r] = A!Idle \/ TaskShape(r)
  BY <1>1 DEF AccountInv, TasksShaped, A!Idle
<1>3. TaskShape(q) /\ task[q].arg \in Tokens
  BY <1>1, <1>2 DEF TaskShape, Does
<1>4. token \in [Tokens -> [stamp : 0..MaxActs, state : {"none", "live", "revoked"}]]
  BY DEF AccountInv, A!TypeOK
<1>5. /\ token' \in [Tokens -> [stamp : 0..MaxActs, state : {"none", "live", "revoked"}]]
      /\ \A t \in Tokens : token'[t].state = "live" => token'[t] = token[t]
  <2>1. [token[task[q].arg] EXCEPT !.state = "revoked"] \in [stamp : 0..MaxActs, state : {"none", "live", "revoked"}]
        /\ [token[task[q].arg] EXCEPT !.state = "revoked"].state = "revoked"
    BY <1>3, <1>4
  <2> QED BY <1>1, <1>3, <1>4, <2>1
<1>6. task'[q] = [step |-> "rotated", arg |-> task[q].arg, read |-> task[q].read, late |-> task[q].late]
  <2>1. task'[q] = [task[q] EXCEPT !.step = "rotated"]
    BY DEF A!rotate_revoke
  <2>2. task[q] = [step |-> task[q].step, arg |-> task[q].arg, read |-> task[q].read, late |-> task[q].late]
    BY <1>3 DEF TaskShape
  <2> QED BY <2>1, <2>2
<1>7. ASSUME NEW r \in Requests \ {q}
      PROVE  \/ task'[r] = task[r]
             \/ task[r] # A!Idle /\ task'[r] = [step |-> task[r].step, arg |-> task[r].arg, read |-> task[r].read, late |-> task[r].late \cup {"tokens"}]
  <2>1. CASE task[r].step = "rotate" /\ task[r].arg = task[q].arg
    <3>1. task'[r] = [task[r] EXCEPT !.late = task[r].late \cup {"tokens"}]
      BY <2>1 DEF A!rotate_revoke
    <3>2. task[r] # A!Idle
      BY <2>1 DEF A!Idle
    <3>3. task[r] = [step |-> task[r].step, arg |-> task[r].arg, read |-> task[r].read, late |-> task[r].late]
      BY <1>2, <3>2 DEF TaskShape
    <3> QED BY <3>1, <3>2, <3>3
  <2>2. CASE ~(task[r].step = "rotate" /\ task[r].arg = task[q].arg)
    BY <2>2 DEF A!rotate_revoke
  <2> QED BY <2>1, <2>2
<1>8. \A r \in Requests \ {q} : task'[r].step = task[r].step /\ task'[r].arg = task[r].arg /\ task'[r].read = task[r].read
                                /\ task[r].late \subseteq task'[r].late
  <2> SUFFICES ASSUME NEW r \in Requests \ {q}
               PROVE  task'[r].step = task[r].step /\ task'[r].arg = task[r].arg /\ task'[r].read = task[r].read
                      /\ task[r].late \subseteq task'[r].late
    OBVIOUS
  <2>1. CASE task'[r] = task[r]
    BY <2>1
  <2>2. CASE task'[r] = [step |-> task[r].step, arg |-> task[r].arg, read |-> task[r].read, late |-> task[r].late \cup {"tokens"}]
    BY <2>2
  <2> QED BY <1>7, <2>1, <2>2
<1>9. TasksShaped'
  <2>1. ASSUME NEW r \in Requests \ {q} PROVE task'[r] = A!Idle \/ TaskShape(r)'
    <3>1. CASE task'[r] = task[r]
      BY <1>1, <1>2, <3>1 DEF TaskShape, Does
    <3>2. CASE task[r] # A!Idle /\ task'[r] = [step |-> task[r].step, arg |-> task[r].arg, read |-> task[r].read, late |-> task[r].late \cup {"tokens"}]
      <4>1. task'[r] = [step |-> task'[r].step, arg |-> task'[r].arg, read |-> task'[r].read, late |-> task'[r].late]
            /\ task'[r].late = task[r].late \cup {"tokens"}
        BY <3>2
      <4>2. TaskShape(r)
        BY <1>2, <3>2
      <4> QED BY <1>1, <1>8, <4>1, <4>2 DEF TaskShape, Does, A!Columns
    <3> QED BY <1>7, <3>1, <3>2
  <2>2. TaskShape(q)'
    BY <1>1, <1>3, <1>6 DEF TaskShape, Does, Relying
  <2>3. task' = [r \in Requests |-> task'[r]]
    BY DEF A!rotate_revoke
  <2> QED BY <2>1, <2>2, <2>3 DEF TasksShaped
<1>10. A!TypeOK'
  <2>1. \A r \in Requests : task'[r].read \in A!UserRows /\ task'[r].late \subseteq A!Columns
    <3>1. A!NoUser \in A!UserRows
      BY AccountTypes DEF A!NoUser, A!UserRows
    <3> QED BY <1>9, <3>1 DEF TasksShaped, TaskShape, A!Idle
  <2>2. slips' \subseteq A!Slips
    BY <1>1 DEF AccountInv, A!TypeOK, A!Slips, A!Columns
  <2> QED BY <1>1, <1>5, <2>1, <2>2 DEF AccountInv, A!TypeOK
<1>11. NothingBefore'
  BY <1>1, <1>2 DEF AccountInv, NothingBefore
<1>12. StampsCounted'
  <2>1. Stamping' \subseteq Stamping
    BY <1>6, <1>8 DEF Stamping
  <2> QED BY <1>1, <2>1, AccountTypes, StampsLess DEF AccountInv
<1>13. ReadsFresh'
  <2>1. Fresh(q)'
    BY <1>1, <1>6 DEF AccountInv, ReadsFresh, Fresh, Relying
  <2>2. \A r \in Requests \ {q} : task'[r].step \in Relying => Fresh(r)'
    BY <1>1, <1>8 DEF AccountInv, ReadsFresh, Fresh
  <2> QED BY <2>1, <2>2 DEF ReadsFresh
<1>14. SessionsEnd'
  BY <1>1, <1>5, <1>6, <1>8 DEF AccountInv, SessionsEnd, A!SessionsEnd
<1>15. HistoryFollows'
  <2>1. \A r \in Requests :
             /\ Does(r, "retire")' <=> Does(r, "retire")
             /\ Does(r, "password")' => Does(r, "password") /\ task'[r].arg = task[r].arg /\ task[r].late \subseteq task'[r].late
             /\ Does(r, "retire") => task'[r].read = task[r].read
    BY <1>1, <1>6, <1>8 DEF Does
  <2> QED BY <1>1, <2>1, HistoryKept
<1>16. CodesSpent' /\ AttemptsCounted'
  BY <1>1 DEF AccountInv, CodesSpent, AttemptsCounted
<1>17. DirectoryWaits'
  <2> SUFFICES ASSUME "directory" \notin slips' PROVE DirectoryWaits'
    BY DEF DirectoryWaits
  <2>1. \A r \in Requests : Does(r, "list") => Does(r, "list")'
    BY <1>1, <1>8 DEF Does
  <2>2. \A r \in Requests : Does(r, "unlist") \/ (Does(r, "revoke") /\ task[r].arg = "delete")
                            => (Does(r, "unlist") \/ (Does(r, "revoke") /\ task[r].arg = "delete"))'
    BY <1>1, <1>8 DEF Does
  <2> QED BY <1>1, <2>1, <2>2 DEF AccountInv, DirectoryWaits, A!Live
<1> QED BY <1>9, <1>10, <1>11, <1>12, <1>13, <1>14, <1>15, <1>16, <1>17 DEF AccountInv

LEMMA RetirePassword == ASSUME AccountInv, NEW q \in Requests, A!retire_password(q) PROVE AccountInv'
<1> USE IdentityAssumption
<1> DEFINE rows == << task[q].read.password >> \o history
<1>1. /\ task[q].step = "retire"
      /\ history' = IF HistoryCount = 0 THEN history ELSE SubSeq(rows, 1, IF Len(rows) < HistoryCount THEN Len(rows) ELSE HistoryCount)
      /\ UNCHANGED << user, token, listed, left, spent, wrong, slips, acts >>
  BY DEF A!retire_password, A!Kept
<1>2. task[q] # A!Idle
  BY <1>1 DEF A!Idle
<1>3. TaskShape(q)
  BY <1>2 DEF AccountInv, TasksShaped
<1>4. history \in Seq(Passwords) /\ left \in Seq(Passwords) /\ task[q].read.password \in Passwords /\ HistoryCount \in Nat
  BY <1>3 DEF AccountInv, A!TypeOK, TaskShape
<1>5. rows \in Seq(Passwords) /\ Len(rows) = Len(history) + 1
      /\ \A i \in 1..Len(rows) : rows[i] = IF i = 1 THEN task[q].read.password ELSE history[i - 1]
  BY <1>4
<1> HIDE DEF rows
<1>6. /\ history' \in Seq(Passwords)
      /\ HistoryCount # 0 =>
           /\ Len(history') = IF Len(rows) < HistoryCount THEN Len(rows) ELSE HistoryCount
           /\ \A i \in 1..Len(history') : history'[i] = rows[i]
  <2>1. CASE HistoryCount = 0
    BY <1>1, <1>4, <2>1
  <2>2. CASE HistoryCount # 0
    <3> DEFINE n == IF Len(rows) < HistoryCount THEN Len(rows) ELSE HistoryCount
    <3>1. n \in 0..Len(rows)
      BY <1>4, <1>5
    <3>2. history' = SubSeq(rows, 1, n)
      BY <1>1, <2>2
    <3> HIDE DEF n
    <3>3. history' \in Seq(Passwords) /\ Len(history') = n /\ \A i \in 1..n : history'[i] = rows[i]
      BY <1>5, <3>1, <3>2
    <3> QED BY <3>3 DEF n
  <2> QED BY <2>1, <2>2
<1>7. /\ task'[q] = [step |-> "revoke", arg |-> task[q].arg, read |-> task[q].read, late |-> task[q].late]
      /\ \A r \in Requests \ {q} : task'[r] = task[r]
      /\ task' = [r \in Requests |-> task'[r]]
  <2>1. task' = [task EXCEPT ![q] = [task[q] EXCEPT !.step = "revoke"]]
    BY DEF A!retire_password, A!Goes
  <2>2. task[q] = [step |-> task[q].step, arg |-> task[q].arg, read |-> task[q].read, late |-> task[q].late]
    BY <1>3 DEF TaskShape
  <2>3. [task[q] EXCEPT !.step = "revoke"] = [step |-> "revoke", arg |-> task[q].arg, read |-> task[q].read, late |-> task[q].late]
    BY <2>2
  <2> QED BY <2>1, <2>3 DEF AccountInv, TasksShaped
<1>8. TasksShaped'
  <2>1. \A r \in Requests \ {q} : task'[r] = A!Idle \/ TaskShape(r)'
    BY <1>1, <1>7 DEF AccountInv, TasksShaped, TaskShape, Does
  <2>2. task[q].arg # "delete"
    BY <1>1, <1>3 DEF TaskShape, Does
  <2>3. TaskShape(q)'
    BY <1>1, <1>3, <1>7, <2>2 DEF TaskShape, Does, Closing
  <2> QED BY <1>7, <2>1, <2>3 DEF TasksShaped
<1>9. A!TypeOK'
  <2>1. \A r \in Requests : task'[r].read \in A!UserRows /\ task'[r].late \subseteq A!Columns
    BY <1>3, <1>7 DEF AccountInv, A!TypeOK, TaskShape
  <2> QED BY <1>1, <1>6, <2>1 DEF AccountInv, A!TypeOK
<1>10. NothingBefore'
  BY <1>1, <1>2 DEF AccountInv, NothingBefore
<1>11. StampsCounted'
  <2>1. Stamping' \subseteq Stamping
    BY <1>7 DEF Stamping
  <2> QED BY <1>1, <2>1, AccountTypes, StampsLess DEF AccountInv
<1>12. ReadsFresh'
  BY <1>1, <1>7 DEF AccountInv, ReadsFresh, Fresh, Relying
<1>13. SessionsEnd'
  BY <1>7 DEF SessionsEnd, A!SessionsEnd
<1>14. HistoryFollows'
  <2> SUFFICES ASSUME "password" \notin slips PROVE HistoryFollows'
    BY <1>1 DEF HistoryFollows
  <2>1. /\ \A r \in Requests : Does(r, "retire") => r = q
        /\ left # << >> /\ task[q].read.password = left[1] /\ Filed(Tail(left))
        /\ \A p \in Requests : ~(Does(p, "password") /\ "password" \notin task[p].late)
    BY <1>1 DEF AccountInv, HistoryFollows, Does
  <2>2. \A r \in Requests : ~Does(r, "retire")'
    BY <1>7, <2>1 DEF Does
  <2>3. Filed(left)'
    <3>1. Len(Tail(left)) = Len(left) - 1 /\ \A i \in 1..Len(left) - 1 : Tail(left)[i] = left[i + 1]
      BY <1>4, <2>1
    <3>2. Len(left) \in Nat /\ Len(left) > 0
      BY <1>4, <2>1
    <3>3. /\ Len(history) = IF Len(left) - 1 < HistoryCount THEN Len(left) - 1 ELSE HistoryCount
          /\ \A i \in 1..Len(history) : history[i] = left[i + 1]
      <4>1. /\ Len(history) = IF Len(Tail(left)) < HistoryCount THEN Len(Tail(left)) ELSE HistoryCount
            /\ \A i \in 1..Len(history) : history[i] = Tail(left)[i]
        BY <2>1 DEF Filed
      <4>2. \A i \in 1..Len(history) : i \in 1..Len(left) - 1
        BY <1>4, <3>1, <3>2, <4>1
      <4> QED BY <3>1, <4>1, <4>2
    <3>4. CASE HistoryCount = 0
      BY <1>1, <1>4, <3>2, <3>3, <3>4 DEF Filed
    <3>5. CASE HistoryCount # 0
      <4>1. Len(history') = IF Len(left) < HistoryCount THEN Len(left) ELSE HistoryCount
        BY <1>4, <1>5, <1>6, <3>2, <3>3, <3>5
      <4>2. ASSUME NEW i \in 1..Len(history') PROVE history'[i] = left[i]
        <5>1. i \in 1..Len(rows) /\ history'[i] = rows[i]
          BY <1>4, <1>5, <1>6, <3>5, <4>1, <3>2, <3>3
        <5>2. CASE i = 1
          BY <1>5, <2>1, <5>1, <5>2
        <5>3. CASE i # 1
          <6>1. i - 1 \in 1..Len(history) /\ rows[i] = history[i - 1]
            BY <1>4, <1>5, <5>1, <5>3
          <6> QED BY <3>3, <5>1, <6>1
        <5> QED BY <5>2, <5>3
      <4> QED BY <1>1, <4>1, <4>2 DEF Filed
    <3> QED BY <3>4, <3>5
  <2>4. \A p \in Requests : ~(Does(p, "password")' /\ "password" \notin task'[p].late)
    BY <1>7, <2>1 DEF Does
  <2>5. /\ \A i \in 1..Len(left') : i <= HistoryCount - 1 => left'[i] # user'.password
        /\ HistoryCount > 0 /\ left' # << >> => left'[1] # user'.password
    BY <1>1 DEF AccountInv, HistoryFollows
  <2> QED BY <2>2, <2>3, <2>4, <2>5 DEF HistoryFollows
<1>15. CodesSpent' /\ AttemptsCounted'
  BY <1>1 DEF AccountInv, CodesSpent, AttemptsCounted
<1>16. DirectoryWaits'
  <2>1. \A r \in Requests : Does(r, "list") => Does(r, "list")'
    BY <1>1, <1>7 DEF Does
  <2>2. \A r \in Requests : Does(r, "unlist") \/ (Does(r, "revoke") /\ task[r].arg = "delete")
                            => (Does(r, "unlist") \/ (Does(r, "revoke") /\ task[r].arg = "delete"))'
    BY <1>1, <1>7 DEF Does
  <2> QED BY <1>1, <2>1, <2>2 DEF AccountInv, DirectoryWaits, A!Live
<1> QED BY <1>8, <1>9, <1>10, <1>11, <1>12, <1>13, <1>14, <1>15, <1>16 DEF AccountInv

LEMMA ReplacePassword == ASSUME AccountInv, NEW q \in Requests, A!replace_password(q) PROVE AccountInv'
<1> USE IdentityAssumption
<1>1. /\ task[q].step = "password" /\ user' = [user EXCEPT !.password = task[q].arg, !.stamp = user.stamp + 1]
      /\ left' = << user.password >> \o left /\ slips' = slips \cup ({"password"} \cap task[q].late)
      /\ UNCHANGED << history, token, listed, spent, wrong, acts >>
  BY DEF A!replace_password, A!Spoils
<1>2. task[q] # A!Idle /\ \A r \in Requests : task[r] = A!Idle \/ TaskShape(r)
  BY <1>1 DEF AccountInv, TasksShaped, A!Idle
<1>3. TaskShape(q) /\ Fresh(q) /\ task[q].arg \in Passwords
  BY <1>1, <1>2 DEF AccountInv, TaskShape, Does, ReadsFresh, Relying
<1>4. user \in A!UserRows /\ user.state # "none" /\ user.password \in Passwords /\ left \in Seq(Passwords)
  BY <1>2 DEF AccountInv, A!TypeOK, NothingBefore
<1>5. /\ user'.password = task[q].arg /\ user'.stamp = user.stamp + 1 /\ user'.state = user.state
      /\ user'.codes = user.codes /\ user'.failed = user.failed
  BY <1>1, <1>4 DEF A!UserRows
<1>6. /\ left' \in Seq(Passwords) /\ Len(left') = Len(left) + 1 /\ left' # << >> /\ Tail(left') = left
      /\ \A i \in 1..Len(left') : left'[i] = IF i = 1 THEN user.password ELSE left[i - 1]
  BY <1>1, <1>4, SMTT(20)
<1>7. task'[q] = [step |-> "retire", arg |-> task[q].arg, read |-> task[q].read, late |-> task[q].late]
  <2>1. task'[q] = [task[q] EXCEPT !.step = "retire"]
    BY DEF A!replace_password
  <2>2. task[q] = [step |-> task[q].step, arg |-> task[q].arg, read |-> task[q].read, late |-> task[q].late]
    BY <1>3 DEF TaskShape
  <2> QED BY <2>1, <2>2
<1>8. ASSUME NEW r \in Requests \ {q}
      PROVE  IF task[r] = A!Idle THEN task'[r] = A!Idle
             ELSE task'[r] = [step |-> task[r].step, arg |-> task[r].arg, read |-> task[r].read,
                              late |-> task[r].late \cup {"password", "stamp"}]
  <2>1. CASE task[r] = A!Idle
    BY <2>1 DEF A!replace_password
  <2>2. CASE task[r] # A!Idle
    <3>1. task'[r] = [task[r] EXCEPT !.late = task[r].late \cup {"password", "stamp"}]
      BY <2>2 DEF A!replace_password
    <3>2. task[r] = [step |-> task[r].step, arg |-> task[r].arg, read |-> task[r].read, late |-> task[r].late]
      BY <1>2, <2>2 DEF TaskShape
    <3> QED BY <2>2, <3>1, <3>2
  <2> QED BY <2>1, <2>2
<1>9. \A r \in Requests \ {q} :
        /\ task'[r].step = task[r].step /\ task'[r].arg = task[r].arg /\ task'[r].read = task[r].read
        /\ task[r] # A!Idle => task'[r].late = task[r].late \cup {"password", "stamp"}
  <2> SUFFICES ASSUME NEW r \in Requests \ {q}
               PROVE  /\ task'[r].step = task[r].step /\ task'[r].arg = task[r].arg /\ task'[r].read = task[r].read
                      /\ task[r] # A!Idle => task'[r].late = task[r].late \cup {"password", "stamp"}
    OBVIOUS
  <2>1. CASE task[r] = A!Idle
    BY <1>8, <2>1
  <2>2. CASE task[r] # A!Idle
    <3>1. task'[r] = [step |-> task[r].step, arg |-> task[r].arg, read |-> task[r].read,
                      late |-> task[r].late \cup {"password", "stamp"}]
      BY <1>8, <2>2
    <3> QED BY <3>1
  <2> QED BY <2>1, <2>2
<1>10. TasksShaped'
  <2>1. ASSUME NEW r \in Requests \ {q} PROVE task'[r] = A!Idle \/ TaskShape(r)'
    <3>1. CASE task[r] = A!Idle
      BY <1>8, <3>1
    <3>2. CASE task[r] # A!Idle
      <4>1. task'[r] = [step |-> task[r].step, arg |-> task[r].arg, read |-> task[r].read,
                        late |-> task[r].late \cup {"password", "stamp"}]
        BY <1>8, <3>2
      <4>2. task'[r] = [step |-> task'[r].step, arg |-> task'[r].arg, read |-> task'[r].read, late |-> task'[r].late]
        BY <4>1
      <4>3. TaskShape(r)
        BY <1>2, <3>2
      <4> QED BY <1>5, <1>9, <3>2, <4>2, <4>3 DEF TaskShape, Does, A!Columns
    <3> QED BY <3>1, <3>2
  <2>2. TaskShape(q)'
    BY <1>3, <1>7 DEF TaskShape, Does, Closing
  <2>3. task' = [r \in Requests |-> task'[r]]
    BY DEF A!replace_password
  <2> QED BY <2>1, <2>2, <2>3 DEF TasksShaped
<1>11. StampsCounted' /\ user.stamp + 1 <= acts
  <2>1. q \in Stamping /\ Stamping' = Stamping \ {q}
    BY <1>1, <1>7, <1>9 DEF Stamping
  <2>2. user'.stamp \in Nat /\ user.stamp \in Nat /\ user'.stamp <= user.stamp + 1 /\ acts \in Nat /\ acts' = acts
    BY <1>1, <1>5, AccountTypes
  <2> QED BY <2>1, <2>2, StampsUsed DEF AccountInv
<1>12. A!TypeOK'
  <2>1. \A r \in Requests : task'[r].read \in A!UserRows /\ task'[r].late \subseteq A!Columns
    <3>1. A!NoUser \in A!UserRows
      BY AccountTypes DEF A!NoUser, A!UserRows
    <3> QED BY <1>10, <3>1 DEF TasksShaped, TaskShape, A!Idle
  <2>2. slips' \subseteq A!Slips
    BY <1>1 DEF AccountInv, A!TypeOK, A!Slips, A!Columns
  <2>3. user' \in A!UserRows
    <3>1. user.stamp + 1 \in 0..MaxActs
      BY <1>11, AccountTypes
    <3>2. user' = [[user EXCEPT !.password = task[q].arg] EXCEPT !.stamp = user.stamp + 1]
      BY <1>1
    <3>3. [user EXCEPT !.password = task[q].arg] \in A!UserRows
      BY <1>3, <1>4 DEF A!UserRows
    <3> QED BY <3>1, <3>2, <3>3 DEF A!UserRows
  <2> QED BY <1>1, <1>6, <2>1, <2>2, <2>3 DEF AccountInv, A!TypeOK
<1>13. NothingBefore'
  BY <1>3, <1>4, <1>5 DEF NothingBefore
<1>14. ReadsFresh'
  <2> SUFFICES ASSUME NEW r \in Requests, task'[r].step \in Relying PROVE Fresh(r)'
    BY DEF ReadsFresh
  <2>1. r # q
    BY <1>7 DEF Relying
  <2>2. task[r] # A!Idle /\ Fresh(r)
    BY <1>9, <2>1 DEF AccountInv, ReadsFresh, A!Idle, Relying
  <2> QED BY <1>5, <1>9, <2>1, <2>2 DEF Fresh
<1>15. SessionsEnd'
  BY <1>7 DEF SessionsEnd, A!SessionsEnd
<1>16. HistoryFollows'
  <2> SUFFICES ASSUME "password" \notin slips' PROVE HistoryFollows'
    BY DEF HistoryFollows
  <2>1. "password" \notin slips /\ "password" \notin task[q].late /\ task[q].read.password = user.password
    BY <1>1, <1>3 DEF Fresh
  <2>2. ~Used(task[q].arg) /\ (\A r \in Requests : ~Does(r, "retire")) /\ Filed(left)
    BY <1>1, <2>1 DEF AccountInv, HistoryFollows, Does
  <2>3. Does(q, "retire")' /\ \A r \in Requests : Does(r, "retire")' => r = q
    BY <1>7, <1>9, <2>2 DEF Does
  <2>4. left' # << >> /\ task'[q].read.password = left'[1] /\ Filed(Tail(left))'
    <3>1. 1 \in 1..Len(left') /\ left'[1] = user.password
      BY <1>4, <1>6
    <3>2. task'[q].read.password = user.password
      BY <1>7, <2>1
    <3>3. Tail(left') = left /\ history' = history
      BY <1>1, <1>6
    <3>4. Filed(Tail(left))'
      BY <2>2, <3>3 DEF Filed
    <3> QED BY <1>6, <3>1, <3>2, <3>4
  <2>5. \A p \in Requests : ~(Does(p, "password")' /\ "password" \notin task'[p].late)
    BY <1>7, <1>9 DEF Does, A!Idle
  <2>6. HistoryCount > 0 => left'[1] # user'.password
    BY <1>5, <1>6, <2>2 DEF Used
  <2>7. \A i \in 1..Len(left') : i <= HistoryCount - 1 => left'[i] # user'.password
    <3> SUFFICES ASSUME NEW i \in 1..Len(left'), i <= HistoryCount - 1 PROVE left'[i] # user'.password
      OBVIOUS
    <3>1. CASE i = 1
      BY <2>6, <3>1
    <3>2. CASE i # 1
      <4>1. i - 1 \in 1..Len(left) /\ i - 1 <= HistoryCount - 1 /\ HistoryCount > 0
        BY <1>4, <1>6, <3>2
      <4>2. left[i - 1] # task[q].arg
        BY <2>2, <4>1 DEF Used
      <4> QED BY <1>5, <1>6, <3>2, <4>2
    <3> QED BY <3>1, <3>2
  <2> QED BY <2>3, <2>4, <2>5, <2>6, <2>7 DEF HistoryFollows
<1>17. CodesSpent' /\ AttemptsCounted'
  BY <1>1, <1>5 DEF AccountInv, CodesSpent, AttemptsCounted
<1>18. DirectoryWaits'
  <2> SUFFICES ASSUME "directory" \notin slips' PROVE DirectoryWaits'
    BY DEF DirectoryWaits
  <2>1. \A r \in Requests : Does(r, "list") => Does(r, "list")'
    BY <1>1, <1>9 DEF Does
  <2>2. \A r \in Requests : Does(r, "unlist") \/ (Does(r, "revoke") /\ task[r].arg = "delete")
                            => (Does(r, "unlist") \/ (Does(r, "revoke") /\ task[r].arg = "delete"))'
    BY <1>1, <1>9 DEF Does
  <2> QED BY <1>1, <1>5, <2>1, <2>2 DEF AccountInv, DirectoryWaits, A!Live
<1> QED BY <1>10, <1>11, <1>12, <1>13, <1>14, <1>15, <1>16, <1>17, <1>18 DEF AccountInv

LEMMA Create == ASSUME AccountInv, NEW q \in Requests, NEW p \in Passwords, A!create(q, p) PROVE AccountInv'
<1> USE IdentityAssumption
<1>1. /\ user.state = "none" /\ acts < MaxActs /\ acts' = acts + 1
      /\ user' = [A!NoUser EXCEPT !.state = "live", !.active = TRUE, !.stamp = acts', !.password = p]
      /\ task' = [task EXCEPT ![q] = [step |-> "list", arg |-> None, read |-> user', late |-> {}]]
      /\ UNCHANGED << history, token, listed, left, spent, wrong, slips >>
  BY DEF A!create
<1>2. /\ user = A!NoUser /\ history = << >> /\ left = << >> /\ spent = {} /\ wrong = 0 /\ ~listed
      /\ (\A t \in Tokens : token[t] = A!NoToken) /\ (\A r \in Requests : task[r] = A!Idle)
      /\ task = [r \in Requests |-> task[r]]
  BY <1>1 DEF AccountInv, NothingBefore, TasksShaped
<1>3. /\ task'[q] = [step |-> "list", arg |-> None, read |-> user', late |-> {}]
      /\ \A r \in Requests \ {q} : task'[r] = A!Idle
      /\ task' = [r \in Requests |-> task'[r]]
  BY <1>1, <1>2
<1>4. user' = [state |-> "live", active |-> TRUE, stamp |-> acts', password |-> p, failed |-> 0, locked |-> FALSE,
               enabled |-> FALSE, confirmed |-> FALSE, codes |-> {}]
  BY <1>1 DEF A!NoUser
<1>5. acts' \in 0..MaxActs /\ 0 \in 0..MaxFailed
  BY <1>1, AccountTypes
<1>6. user' \in A!UserRows /\ user'.password = p /\ user'.state = "live" /\ user'.stamp = acts' /\ user'.failed = 0 /\ user'.codes = {}
  BY <1>4, <1>5 DEF A!UserRows
<1>7. A!Idle.step = "idle" /\ A!Idle.late = {} /\ A!Idle.read = A!NoUser /\ A!NoUser \in A!UserRows
  <2>1. A!NoUser \in A!UserRows
    BY AccountTypes DEF A!NoUser, A!UserRows
  <2> QED BY <2>1 DEF A!Idle
<1>8. TasksShaped'
  <2>1. TaskShape(q)'
    BY <1>3, <1>6 DEF TaskShape, Does, Relying
  <2> QED BY <1>3, <2>1 DEF TasksShaped
<1>9. A!TypeOK'
  <2>1. \A r \in Requests : task'[r].read \in A!UserRows /\ task'[r].late \subseteq A!Columns
    BY <1>3, <1>6, <1>7
  <2> QED BY <1>1, <1>5, <1>6, <2>1 DEF AccountInv, A!TypeOK
<1>10. NothingBefore'
  BY <1>6 DEF NothingBefore
<1>11. StampsCounted'
  <2>1. Stamping' = {}
    BY <1>3, <1>7 DEF Stamping
  <2>2. IsFiniteSet(Stamping') /\ Cardinality(Stamping') = 0
    BY <2>1, FS_EmptySet
  <2>3. user'.stamp + 0 <= acts'
    BY <1>5, <1>6, AccountTypes
  <2> QED BY <2>2, <2>3 DEF StampsCounted
<1>12. ReadsFresh'
  BY <1>3, <1>7 DEF ReadsFresh, Fresh, Relying
<1>13. SessionsEnd'
  BY <1>1, <1>2 DEF SessionsEnd, A!SessionsEnd, A!NoToken
<1>14. HistoryFollows'
  <2>1. \A r \in Requests : ~Does(r, "retire")' /\ ~Does(r, "password")'
    BY <1>3, <1>7 DEF Does
  <2>2. Filed(left)'
    BY <1>1, <1>2, AccountTypes DEF Filed
  <2>3. Len(left') = 0
    BY <1>1, <1>2
  <2> QED BY <1>1, <1>2, <2>1, <2>2, <2>3 DEF HistoryFollows
<1>15. CodesSpent' /\ AttemptsCounted'
  BY <1>1, <1>2, <1>6 DEF CodesSpent, AttemptsCounted
<1>16. DirectoryWaits'
  BY <1>3, <1>6 DEF DirectoryWaits, A!Live, Does
<1> QED BY <1>8, <1>9, <1>10, <1>11, <1>12, <1>13, <1>14, <1>15, <1>16 DEF AccountInv

\* A step that leaves every request where it is.
LEMMA TasksStay ==
    ASSUME AccountInv, UNCHANGED << task, history, listed, left, spent, wrong, slips, acts >>,
           user' \in A!UserRows, user'.password = user.password, user'.stamp = user.stamp, user'.state = user.state,
           user'.codes = user.codes, user'.failed = user.failed, user.state = "none" => user' = user /\ token' = token,
           token' \in [Tokens -> [stamp : 0..MaxActs, state : {"none", "live", "revoked"}]],
           \A t \in Tokens : token'[t].state = "live" => token'[t] = token[t]
    PROVE  AccountInv'
<1> USE IdentityAssumption
<1>1. A!TypeOK' /\ TasksShaped' /\ NothingBefore'
  BY DEF AccountInv, A!TypeOK, TasksShaped, TaskShape, Does, NothingBefore
<1>2. StampsCounted'
  <2>1. Stamping' = Stamping
    BY DEF Stamping
  <2> QED BY <2>1, AccountTypes, StampsLess DEF AccountInv
<1>3. ReadsFresh' /\ SessionsEnd'
  BY DEF AccountInv, ReadsFresh, Fresh, SessionsEnd, A!SessionsEnd
<1>4. HistoryFollows'
  BY HistoryKept DEF Does
<1>5. CodesSpent' /\ AttemptsCounted' /\ DirectoryWaits'
  BY DEF AccountInv, CodesSpent, AttemptsCounted, DirectoryWaits, A!Live, Does
<1> QED BY <1>1, <1>2, <1>3, <1>4, <1>5 DEF AccountInv

LEMMA LockoutEnds == ASSUME AccountInv, A!lockout_ends PROVE AccountInv'
<1> USE IdentityAssumption
<1>1. /\ user.locked /\ user' = [user EXCEPT !.locked = FALSE]
      /\ UNCHANGED << history, token, listed, task, left, spent, wrong, slips, acts >>
  BY DEF A!lockout_ends
<1>2. user \in A!UserRows /\ token \in [Tokens -> [stamp : 0..MaxActs, state : {"none", "live", "revoked"}]]
  BY DEF AccountInv, A!TypeOK
<1>3. user.state # "none"
  BY <1>1 DEF AccountInv, NothingBefore, A!NoUser
<1>4. /\ user' \in A!UserRows /\ user'.password = user.password /\ user'.stamp = user.stamp /\ user'.state = user.state
      /\ user'.codes = user.codes /\ user'.failed = user.failed
  BY <1>1, <1>2 DEF A!UserRows
<1> QED BY <1>1, <1>2, <1>3, <1>4, TasksStay

LEMMA RevokeRefreshToken == ASSUME AccountInv, NEW t \in Tokens, A!revoke_refresh_token(t) PROVE AccountInv'
<1> USE IdentityAssumption
<1>1. /\ token[t].state = "live" /\ token' = [token EXCEPT ![t] = [token[t] EXCEPT !.state = "revoked"]]
      /\ UNCHANGED << user, history, listed, task, left, spent, wrong, slips, acts >>
  BY DEF A!revoke_refresh_token
<1>2. user \in A!UserRows /\ token \in [Tokens -> [stamp : 0..MaxActs, state : {"none", "live", "revoked"}]]
  BY DEF AccountInv, A!TypeOK
<1>3. user.state # "none"
  BY <1>1 DEF AccountInv, NothingBefore, A!NoToken
<1>4. [token[t] EXCEPT !.state = "revoked"] \in [stamp : 0..MaxActs, state : {"none", "live", "revoked"}]
      /\ [token[t] EXCEPT !.state = "revoked"].state = "revoked"
  BY <1>2
<1>5. /\ token' \in [Tokens -> [stamp : 0..MaxActs, state : {"none", "live", "revoked"}]]
      /\ \A s \in Tokens : token'[s].state = "live" => token'[s] = token[s]
  BY <1>1, <1>2, <1>4
<1> QED BY <1>1, <1>2, <1>3, <1>5, TasksStay

LEMMA AccountBegins ==
    ASSUME AccountInv, NEW q \in Requests,
           \/ \E p \in Passwords : A!change_password(q, p)
           \/ A!authenticate(q)
           \/ \E c \in Codes : A!login_two_factor(q, c)
           \/ \E t \in Tokens : A!rotate_read(q, t)
           \/ \E what \in Whats : A!Changes(q, what)
    PROVE  AccountInv'
<1> USE IdentityAssumption
<1>1. ASSUME NEW p \in Passwords, A!change_password(q, p) PROVE AccountInv'
  <2>1. user.state # "none" /\ (HistoryCount > 0 => ~A!Reused(p)) /\ A!Begins(q, "password", p)
        /\ UNCHANGED << user, history, token, listed, left, spent, wrong, slips >>
    BY <1>1 DEF A!change_password, A!Live, A!row
  <2> QED BY <2>1, BeginKeeps
<1>2. CASE A!authenticate(q)
  <2>1. PICK right \in BOOLEAN : user.state # "none" /\ A!Begins(q, "attempt", right)
                                 /\ UNCHANGED << user, history, token, listed, left, spent, wrong, slips >>
    BY <1>2 DEF A!authenticate, A!Live, A!row
  <2> QED BY <2>1, BeginKeeps
<1>3. ASSUME NEW c \in Codes, A!login_two_factor(q, c) PROVE AccountInv'
  <2>1. user.state # "none" /\ A!Begins(q, "code", c)
        /\ UNCHANGED << user, history, token, listed, left, spent, wrong, slips >>
    BY <1>3 DEF A!login_two_factor, A!Live, A!row
  <2> QED BY <2>1, BeginKeeps
<1>4. ASSUME NEW t \in Tokens, A!rotate_read(q, t) PROVE AccountInv'
  <2>1. token[t].state # "none" /\ UNCHANGED << user, history, token, listed, left, spent, wrong, slips >>
    BY <1>4 DEF A!rotate_read, A!row
  <2>2. user.state # "none"
    BY <2>1 DEF AccountInv, NothingBefore, A!NoToken
  <2>3. A!Begins(q, "revoke", None) \/ A!Begins(q, "rotate", t)
    BY <1>4 DEF A!rotate_read
  <2> QED BY <2>1, <2>2, <2>3, BeginKeeps
<1>5. ASSUME NEW what \in Whats, A!Changes(q, what) PROVE AccountInv'
  <2>1. user.state # "none" /\ A!Begins(q, "change", what)
        /\ UNCHANGED << user, history, token, listed, left, spent, wrong, slips >>
    BY <1>5 DEF A!Changes, A!Live, A!row
  <2> QED BY <2>1, BeginKeeps
<1> QED BY <1>1, <1>2, <1>3, <1>4, <1>5

accountVars == << user, history, token, listed, task, left, spent, wrong, slips, acts >>

LEMMA AccountStep == AccountInv /\ [A!Next]_accountVars => AccountInv'
<1> SUFFICES ASSUME AccountInv, [A!Next]_accountVars PROVE AccountInv'
  OBVIOUS
<1>1. ASSUME NEW q \in Requests, A!Statements(q) PROVE AccountInv'
  BY <1>1, DirectoryAdd, WrongPassword, RightPassword, VerifyTwoFactor, IssueSession, RotateRevoke, RevokeTokens,
     ReplacePassword, RetirePassword, Change, DirectoryRemove, Broken DEF A!Statements
<1>2. ASSUME NEW q \in Requests, NEW p \in Passwords, A!create(q, p) PROVE AccountInv'
  BY <1>2, Create
<1>3. CASE A!lockout_ends
  BY <1>3, LockoutEnds
<1>4. ASSUME NEW t \in Tokens, A!revoke_refresh_token(t) PROVE AccountInv'
  BY <1>4, RevokeRefreshToken
<1>5. CASE UNCHANGED accountVars
  <2>1. user \in A!UserRows /\ token \in [Tokens -> [stamp : 0..MaxActs, state : {"none", "live", "revoked"}]]
    BY DEF AccountInv, A!TypeOK
  <2> QED BY <1>5, <2>1, TasksStay DEF accountVars
<1> QED BY <1>1, <1>2, <1>3, <1>4, <1>5, AccountBegins DEF A!Next, Whats

LEMMA AccountStart == A!Init => AccountInv
<1> SUFFICES ASSUME A!Init PROVE AccountInv
  OBVIOUS
<1> USE IdentityAssumption
<1>1. /\ user = A!NoUser /\ history = << >> /\ left = << >> /\ token = [t \in Tokens |-> A!NoToken]
      /\ listed = FALSE /\ spent = {} /\ wrong = 0 /\ slips = {} /\ acts = 0 /\ task = [q \in Requests |-> A!Idle]
  BY DEF A!Init
<1>2. A!Idle.step = "idle" /\ A!Idle.late = {} /\ A!Idle.read = A!NoUser
  BY DEF A!Idle
<1>3. A!NoUser \in A!UserRows /\ A!NoToken \in [stamp : 0..MaxActs, state : {"none", "live", "revoked"}]
  BY DEF A!NoUser, A!UserRows, A!NoToken
<1>4. A!TypeOK
  <2>1. token \in [Tokens -> [stamp : 0..MaxActs, state : {"none", "live", "revoked"}]]
    BY <1>1, <1>3
  <2>2. \A q \in Requests : task[q].read \in A!UserRows /\ task[q].late \subseteq A!Columns
    BY <1>1, <1>2, <1>3
  <2>3. wrong \in 0..MaxFailed /\ acts \in 0..MaxActs
    BY <1>1
  <2>5. listed \in BOOLEAN /\ spent \subseteq Codes /\ slips \subseteq A!Slips
    BY <1>1
  <2>4. history \in Seq(Passwords) /\ left \in Seq(Passwords)
    BY <1>1
  <2> QED BY <1>1, <1>3, <2>1, <2>2, <2>3, <2>4, <2>5 DEF A!TypeOK
<1>5. TasksShaped /\ NothingBefore
  BY <1>1 DEF TasksShaped, NothingBefore, A!NoUser
<1>6. StampsCounted
  <2>1. Stamping = {}
    BY <1>1, <1>2 DEF Stamping
  <2>2. IsFiniteSet(Stamping) /\ Cardinality(Stamping) = 0 /\ user.stamp = 0
    BY <1>1, <2>1, FS_EmptySet DEF A!NoUser
  <2> QED BY <1>1, <2>2 DEF StampsCounted
<1>7. ReadsFresh /\ SessionsEnd
  BY <1>1, <1>2 DEF ReadsFresh, Relying, SessionsEnd, A!SessionsEnd, A!NoToken
<1>8. HistoryFollows
  <2>1. \A r \in Requests : ~Does(r, "retire") /\ ~Does(r, "password")
    BY <1>1, <1>2 DEF Does
  <2>2. Filed(left) /\ Len(left) = 0
    BY <1>1 DEF Filed
  <2> QED BY <1>1, <2>1, <2>2 DEF HistoryFollows
<1>9. CodesSpent /\ AttemptsCounted /\ DirectoryWaits
  BY <1>1 DEF CodesSpent, AttemptsCounted, DirectoryWaits, A!Live, A!NoUser
<1> QED BY <1>4, <1>5, <1>6, <1>7, <1>8, <1>9 DEF AccountInv

LEMMA AccountSafe == AccountInv => CredentialsEnd /\ DirectoryFollows
<1> SUFFICES ASSUME AccountInv PROVE CredentialsEnd /\ DirectoryFollows
  OBVIOUS
<1>1. SpentStaysSpent
  <2>1. left \in Seq(Passwords)
    BY DEF AccountInv, A!TypeOK
  <2> QED BY <2>1 DEF AccountInv, SpentStaysSpent, A!SpentStaysSpent, HistoryFollows, CodesSpent, AttemptsCounted
<1>2. DirectoryFollows
  BY DEF AccountInv, DirectoryFollows, A!DirectoryFollows, DirectoryWaits, Does, A!TypeOK
<1> QED BY <1>1, <1>2 DEF AccountInv, CredentialsEnd

LEMMA AccountSpec == A!Init /\ [][A!Next]_accountVars => []AccountInv
BY AccountStart, AccountStep, PTL

\* For every number of users, requests and tokens: between the requests that
\* change it, a live refresh token carries the stamp of its account; no password
\* the policy remembers is the present one, no recovery code that was accepted
\* is still on the list and a wrong attempt is counted once - unless two
\* requests wrote the same columns from one reading (SessionsEnd, SpentStaysSpent).
THEOREM CredentialsStayEnded == MCSpec => []CredentialsEnd
<1>1. MCInit => A!Init
  BY DEF MCInit
<1>2. [MCNext]_<< side, tenants, permissions, account, rest >> => [A!Next]_accountVars
  BY DEF MCNext, account, accountVars
<1> QED BY <1>1, <1>2, AccountSpec, AccountSafe, PTL DEF MCSpec

\* Once no request is between the two databases, the directory lists exactly
\* the accounts the company has, unless one broke off between them.
THEOREM DirectoryStaysInStep == MCSpec => []DirectoryFollows
<1>1. MCInit => A!Init
  BY DEF MCInit
<1>2. [MCNext]_<< side, tenants, permissions, account, rest >> => [A!Next]_accountVars
  BY DEF MCNext, account, accountVars
<1> QED BY <1>1, <1>2, AccountSpec, AccountSafe, PTL DEF MCSpec

----------------------------------------------------------------------------
(* What a company sets for itself.                                         *)

Overrides ==
    [min_length : Int \cup {None}, require : [Codes -> BOOLEAN \cup {None}], expiry_days : Int \cup {None},
     history_count : Int \cup {None}, lockout_max_failed : Int \cup {None}, lockout_secs : Int \cup {None}]

PolicyInv ==
    /\ config \in Policies /\ vetted \in Policies /\ row \in Overrides
    /\ C!check_override(C!resolve(vetted, row), vetted)

LEMMA Resolved == ASSUME NEW floor \in Policies, NEW r \in Overrides PROVE C!resolve(floor, r) \in Policies
<1> USE CompanyAssumption
<1>1. \A n \in Int : C!AtLeastZero(n) \in Nat
  BY DEF C!AtLeastZero
<1>2. [c \in Codes |-> IF r.require[c] = None THEN floor.require[c] ELSE r.require[c]] \in [Codes -> BOOLEAN]
  <2>1. \A c \in Codes : r.require[c] \in BOOLEAN \cup {None} /\ floor.require[c] \in BOOLEAN
    BY DEF Policies, Overrides
  <2> QED BY <2>1
<1>3. floor.min_length \in Nat /\ floor.expiry_days \in Nat /\ floor.history_count \in Nat
      /\ floor.lockout_max_failed \in Int /\ floor.lockout_secs \in Nat
  BY DEF Policies
<1>4. \A n \in {r.min_length, r.expiry_days, r.history_count, r.lockout_max_failed, r.lockout_secs} : n \in Int \cup {None}
  BY DEF Overrides
<1> QED BY <1>1, <1>2, <1>3, <1>4 DEF C!resolve, Policies

\* What check_override lets a company choose lets nothing through that the
\* deployment's policy would not have.
LEMMA NotWeaker == ASSUME NEW p \in Policies, NEW q \in Policies, C!check_override(p, q) PROVE C!Admits(p, q)
<1> USE DEF Policies
<1>1. \A n \in Int, classes \in SUBSET Codes : C!check(p, n, classes) => C!check(q, n, classes)
  <2> SUFFICES ASSUME NEW n \in Int, NEW classes \in SUBSET Codes, C!check(p, n, classes) PROVE C!check(q, n, classes)
    OBVIOUS
  <2>1. n >= q.min_length
    BY DEF C!check, C!check_override
  <2>2. { c \in Codes : q.require[c] } \subseteq { c \in Codes : p.require[c] }
    BY Zenon DEF C!check_override
  <2>3. { c \in Codes : p.require[c] } \subseteq classes
    BY Zenon DEF C!check
  <2> QED BY <2>1, <2>2, <2>3, Zenon DEF C!check
<1>2. \A n \in Int : ~C!expired(p, n) => ~C!expired(q, n)
  BY DEF C!expired, C!check_override
<1>3. \A n \in Int : C!reusable(p, n) => C!reusable(q, n)
  BY DEF C!reusable, C!check_override
<1>4. \A n \in Int, s \in Int : C!locked(q, n, s) => C!locked(p, n, s)
  BY DEF C!locked, C!check_override
<1>5. \A S : \A n \in C!Upto(S) : n \in Int
  BY DEF C!Upto
<1> QED BY <1>1, <1>2, <1>3, <1>4, <1>5 DEF C!Admits

LEMMA PolicyStart == C!PolicyInit => PolicyInv
<1> SUFFICES ASSUME C!PolicyInit PROVE PolicyInv
  OBVIOUS
<1> USE CompanyAssumption
<1>1. config \in Policies /\ vetted = config /\ row = C!Nothing
  BY DEF C!PolicyInit
<1>2. row \in Overrides
  BY <1>1 DEF C!Nothing, Overrides
<1>3. C!resolve(vetted, row) \in Policies
  BY <1>1, <1>2, Resolved
<1>4. /\ C!resolve(vetted, row).min_length = vetted.min_length
      /\ C!resolve(vetted, row).expiry_days = vetted.expiry_days
      /\ C!resolve(vetted, row).history_count = vetted.history_count
      /\ C!resolve(vetted, row).lockout_max_failed = vetted.lockout_max_failed
      /\ C!resolve(vetted, row).lockout_secs = vetted.lockout_secs
  BY <1>1 DEF C!resolve, C!Nothing
<1>5. \A c \in Codes : C!resolve(vetted, row).require[c] = vetted.require[c]
  BY <1>1 DEF C!resolve, C!Nothing
<1>6. C!check_override(C!resolve(vetted, row), vetted)
  <2>1. \A c \in Codes : vetted.require[c] => C!resolve(vetted, row).require[c]
    BY <1>5
  <2>2. /\ vetted.min_length \in Nat /\ vetted.expiry_days \in Nat /\ vetted.history_count \in Nat
        /\ vetted.lockout_max_failed \in Int /\ vetted.lockout_secs \in Nat
    BY <1>1 DEF Policies
  <2> QED BY <1>4, <2>1, <2>2 DEF C!check_override
<1> QED BY <1>1, <1>2, <1>6 DEF PolicyInv

LEMMA PolicyStep == PolicyInv /\ [C!PolicyNext]_policy => PolicyInv'
<1> SUFFICES ASSUME PolicyInv, [C!PolicyNext]_policy PROVE PolicyInv'
  OBVIOUS
<1> USE CompanyAssumption DEF PolicyInv
<1>1. CASE C!deployed
  BY <1>1 DEF C!deployed
<1>2. ASSUME NEW r \in C!Asked, C!password_policy_update(r) PROVE PolicyInv'
  <2>1. r \in Overrides
    BY DEF C!Asked, Overrides
  <2>2. row' = r /\ vetted' = config /\ config' = config /\ C!check_override(C!resolve(config, r), config)
    BY <1>2 DEF C!password_policy_update
  <2> QED BY <2>1, <2>2
<1>3. CASE UNCHANGED policy
  BY <1>3 DEF policy
<1> QED BY <1>1, <1>2, <1>3 DEF C!PolicyNext

LEMMA PolicySafe == PolicyInv => PoliciesHold
<1> SUFFICES ASSUME PolicyInv PROVE PoliciesHold
  OBVIOUS
<1>1. C!Admits(C!resolve(vetted, row), vetted)
  BY Resolved, NotWeaker DEF PolicyInv
<1>2. \A c \in Codes : row.require[c] = None => C!resolve(config, row).require[c] = config.require[c]
  BY DEF C!resolve
<1> QED BY <1>1, <1>2 DEF PoliciesHold, C!PoliciesHold

LEMMA PolicySpec == C!PolicyInit /\ [][C!PolicyNext]_policy => []PolicyInv
BY PolicyStart, PolicyStep, PTL

\* For every policy of the deployment and every request of a company: what the
\* company's rules let through, the deployment's would have at the time it
\* chose them, and what it left open follows the deployment (check_override,
\* resolve).
THEOREM PoliciesStayHeld == MCSpec => []PoliciesHold
<1>1. MCInit => C!PolicyInit
  BY DEF MCInit, C!Init
<1>2. [MCNext]_<< side, tenants, permissions, account, rest >> => [C!PolicyNext]_policy
  BY DEF MCNext, rest, policy
<1> QED BY <1>1, <1>2, PolicySpec, PolicySafe, PTL DEF MCSpec

----------------------------------------------------------------------------
(* The retention of the audit trail.                                       *)

Choices == Int \cup {None}
Visits == [tenant : Names, active : BOOLEAN, chosen : Choices]

RetentionInv ==
    /\ day \in Nat
    /\ trail \in [Names \cup {"server"} -> SUBSET Int]
    /\ chosen \in [Names -> Choices]
    /\ active \subseteq Names
    /\ pass \in Seq(Visits)
    /\ erred \in BOOLEAN /\ (pass # << >> => ~erred)

LEMMA RetentionStart == C!RetentionInit => RetentionInv
<1> SUFFICES ASSUME C!RetentionInit PROVE RetentionInv
  OBVIOUS
<1>1. pass \in Seq(Visits)
  BY EmptySeq DEF C!RetentionInit
<1> QED BY <1>1 DEF C!RetentionInit, RetentionInv, C!Scopes, Choices

LEMMA NextVisit == ASSUME RetentionInv, pass # << >>
                   PROVE /\ Head(pass) \in Visits /\ Tail(pass) \in Seq(Visits)
BY HeadTailProperties DEF RetentionInv

LEMMA TrailKeeps == ASSUME RetentionInv, NEW s \in Names \cup {"server"}, NEW w, C!Prunes(s, w)
                    PROVE trail' \in [Names \cup {"server"} -> SUBSET Int]
<1>1. trail[s] \ C!Expired(s, w) \in SUBSET Int
  BY DEF RetentionInv
<1> QED BY <1>1 DEF C!Prunes, RetentionInv

LEMMA RetentionStep == RetentionInv /\ [C!RetentionNext]_retention => RetentionInv'
<1> SUFFICES ASSUME RetentionInv, [C!RetentionNext]_retention PROVE RetentionInv'
  OBVIOUS
<1> USE CompanyAssumption
<1>1. CASE C!tomorrow
  <2>1. trail' \in [Names \cup {"server"} -> SUBSET Int]
    <3>1. \A s \in Names \cup {"server"} : trail[s] \cup {day} \in SUBSET Int
      BY DEF RetentionInv
    <3> QED BY <1>1, <3>1 DEF C!tomorrow, C!Scopes
  <2> QED BY <1>1, <2>1 DEF C!tomorrow, RetentionInv
<1>2. CASE C!prune_once
  <2>1. trail' \in [Names \cup {"server"} -> SUBSET Int]
    BY <1>2, TrailKeeps DEF C!prune_once
  <2>2. PICK order \in [1..Cardinality(Names) -> Names] :
          pass' = [i \in DOMAIN order |-> [tenant |-> order[i], active |-> order[i] \in active, chosen |-> chosen[order[i]]]]
    <3>1. \A S : C!Cardinality(S) = Cardinality(S)
      BY Zenon DEF C!Cardinality, Cardinality
    <3> QED BY <1>2, <3>1 DEF C!prune_once
  <2>3. Cardinality(Names) \in Nat
    BY FS_CardinalityType
  <2>4. \A n \in Names : [tenant |-> n, active |-> n \in active, chosen |-> chosen[n]] \in Visits
    <3> SUFFICES ASSUME NEW n \in Names PROVE [tenant |-> n, active |-> n \in active, chosen |-> chosen[n]] \in Visits
      OBVIOUS
    <3>1. (n \in active) \in BOOLEAN
      OBVIOUS
    <3>2. chosen[n] \in Choices
      BY DEF RetentionInv
    <3> QED BY <3>1, <3>2, Zenon DEF Visits
  <2>5. pass' \in [1..Cardinality(Names) -> Visits]
    BY <2>2, <2>4
  <2>6. pass' \in Seq(Visits)
    BY <2>3, <2>5, SeqDef
  <2> QED BY <1>2, <2>1, <2>6 DEF C!prune_once, RetentionInv
<1>3. CASE C!prune_tenant
  <2>1. Head(pass) \in Visits /\ Tail(pass) \in Seq(Visits)
    BY <1>3, NextVisit DEF C!prune_tenant
  <2>2. trail' \in [Names \cup {"server"} -> SUBSET Int]
    <3>1. CASE Head(pass).active
      BY <1>3, <2>1, <3>1, TrailKeeps DEF C!prune_tenant, Visits
    <3>2. CASE ~Head(pass).active
      BY <1>3, <3>2 DEF C!prune_tenant, RetentionInv
    <3> QED BY <3>1, <3>2
  <2> QED BY <1>3, <2>1, <2>2 DEF C!prune_tenant, RetentionInv
<1>4. CASE C!prune_fails
  BY <1>4, EmptySeq DEF C!prune_fails, RetentionInv
<1>5. ASSUME NEW t \in Names, C!set_active(t) PROVE RetentionInv'
  BY <1>5 DEF C!set_active, RetentionInv
<1>6. ASSUME NEW t \in Names, NEW days \in Choices, C!set_audit_retention(t, days) PROVE RetentionInv'
  BY <1>6 DEF C!set_audit_retention, RetentionInv
<1>60. /\ (1..MaxDays) \cup {None} \subseteq Choices /\ Windows \subseteq Choices
       /\ \A t \in Names, days \in (1..MaxDays) \cup {None} : C!set_retention(t, days) => C!set_audit_retention(t, days)
  BY DEF Choices, C!set_retention
<1>7. CASE UNCHANGED retention
  BY <1>7 DEF retention, RetentionInv
<1> QED BY <1>1, <1>2, <1>3, <1>4, <1>5, <1>6, <1>60, <1>7 DEF C!RetentionNext

\* The days that a choice comes to: its own up to the cap, the server's where it
\* is none or no day at all.
WindowOf(own) ==
    IF own # None /\ own > 0
      THEN IF own \in 1..MaxDays THEN own ELSE C!AtLeast(1, MaxDays)
      ELSE C!AtLeast(1, RetentionDays)

LEMMA Effective == ASSUME NEW own \in Choices
                   PROVE C!effective_retention(own) = WindowOf(own) /\ WindowOf(own) \in Int
<1> USE CompanyAssumption
<1>1. CASE own = None
  BY <1>1 DEF C!effective_retention, C!AtLeast, C!AtMost, WindowOf
<1>2. CASE own # None
  <2>1. own \in Int
    BY <1>2 DEF Choices
  <2> QED BY <1>2, <2>1 DEF C!effective_retention, C!AtLeast, C!AtMost, WindowOf
<1> QED BY <1>1, <1>2

\* A visit deletes what is older than its window, in its own trail, and all of it.
LEMMA Visited == ASSUME RetentionInv, NEW v \in Names \cup {"server"}, NEW window \in Int, C!Prunes(v, window),
                        NEW s \in Names \cup {"server"}
                 PROVE /\ s # v => trail'[s] = trail[s]
                       /\ s = v => /\ \A d \in trail[s] \ trail'[s] : day - d > window
                                   /\ \A d \in trail'[s] : day - d <= window
<1>1. trail' = [trail EXCEPT ![v] = trail[v] \ C!Expired(v, window)] /\ trail \in [Names \cup {"server"} -> SUBSET Int] /\ day \in Nat
  BY DEF C!Prunes, RetentionInv
<1>2. s # v => trail'[s] = trail[s]
  BY <1>1
<1>3. s = v => trail'[s] = trail[s] \ { d \in trail[s] : d < day - window } /\ trail[s] \subseteq Int
  BY <1>1 DEF C!Expired
<1>4. s = v => \A d \in trail[s] : d \in Int /\ (d \in trail'[s] <=> ~(d < day - window))
  BY <1>3
<1>5. s = v => trail'[s] \subseteq trail[s]
  BY <1>3
<1> QED BY <1>1, <1>2, <1>4, <1>5

\* What a step may do to a trail and what it has to.
Due(s) == IF pass = << >> THEN s = "server" ELSE s = Head(pass).tenant /\ Head(pass).active
WindowHere(s) ==
    LET own == Head(pass).chosen IN
    IF s # "server" /\ own # None /\ own > 0
      THEN IF own \in 1..MaxDays THEN own ELSE C!AtLeast(1, MaxDays)
      ELSE C!AtLeast(1, RetentionDays)

LEMMA PruneOnce ==
    ASSUME RetentionInv, C!prune_once, NEW s \in C!Scopes
    PROVE  /\ trail[s] \ trail'[s] # {} => Due(s) /\ ~erred' /\ \A d \in trail[s] \ trail'[s] : day - d > WindowHere(s)
           /\ Due(s) /\ pass' # pass /\ ~erred' => \A d \in trail'[s] : day - d <= WindowHere(s)
<1> USE CompanyAssumption
<1>1. s \in Names \cup {"server"}
  BY DEF C!Scopes
<1>2. None \in Choices /\ WindowOf(None) = C!AtLeast(1, RetentionDays)
  BY DEF Choices, WindowOf
<1>3. C!effective_retention(None) = C!AtLeast(1, RetentionDays) /\ C!AtLeast(1, RetentionDays) \in Int
  BY <1>2, Effective
<1>4. pass = << >> /\ C!Prunes("server", C!AtLeast(1, RetentionDays)) /\ ~erred'
  BY <1>3 DEF C!prune_once
<1>5. /\ s # "server" => trail'[s] = trail[s]
      /\ s = "server" => /\ \A d \in trail[s] \ trail'[s] : day - d > C!AtLeast(1, RetentionDays)
                         /\ \A d \in trail'[s] : day - d <= C!AtLeast(1, RetentionDays)
  BY <1>1, <1>3, <1>4, Visited
<1>6. (Due(s) <=> s = "server") /\ (s = "server" => WindowHere(s) = C!AtLeast(1, RetentionDays))
  BY <1>4 DEF Due, WindowHere
<1> QED BY <1>4, <1>5, <1>6

LEMMA PruneTenant ==
    ASSUME RetentionInv, C!prune_tenant, NEW s \in C!Scopes
    PROVE  /\ trail[s] \ trail'[s] # {} => Due(s) /\ ~erred' /\ \A d \in trail[s] \ trail'[s] : day - d > WindowHere(s)
           /\ Due(s) /\ pass' # pass /\ ~erred' => \A d \in trail'[s] : day - d <= WindowHere(s)
<1> USE CompanyAssumption
<1>1. s \in Names \cup {"server"}
  BY DEF C!Scopes
<1>2. pass # << >> /\ Head(pass) \in Visits /\ ~erred'
  BY NextVisit DEF C!prune_tenant, RetentionInv
<1>3. PICK v \in Visits : v = Head(pass)
  BY <1>2
<1>4. v.tenant \in Names /\ v.chosen \in Choices /\ v.tenant # "server"
  BY <1>3 DEF Visits
<1>5. (Due(s) <=> s = v.tenant /\ v.active) /\ (s # "server" => WindowHere(s) = WindowOf(v.chosen))
  BY <1>2, <1>3 DEF Due, WindowHere, WindowOf
<1>6. CASE v.active
  <2>1. C!Prunes(v.tenant, WindowOf(v.chosen)) /\ WindowOf(v.chosen) \in Int
    BY <1>3, <1>4, <1>6, Effective DEF C!prune_tenant
  <2>2. /\ s # v.tenant => trail'[s] = trail[s]
        /\ s = v.tenant => /\ \A d \in trail[s] \ trail'[s] : day - d > WindowOf(v.chosen)
                           /\ \A d \in trail'[s] : day - d <= WindowOf(v.chosen)
    BY <1>1, <1>4, <2>1, Visited
  <2> QED BY <1>2, <1>4, <1>5, <1>6, <2>2
<1>7. CASE ~v.active
  <2>1. trail' = trail
    BY <1>3, <1>7 DEF C!prune_tenant
  <2> QED BY <1>5, <1>7, <2>1
<1> QED BY <1>6, <1>7

LEMMA PrunesAsChosen ==
    RetentionInv /\ [C!RetentionNext]_retention =>
      [\A s \in C!Scopes :
          LET own == Head(pass).chosen
              due == IF pass = << >> THEN s = "server" ELSE s = Head(pass).tenant /\ Head(pass).active
              window == IF s # "server" /\ own # None /\ own > 0
                          THEN IF own \in 1..MaxDays THEN own ELSE C!AtLeast(1, MaxDays)
                          ELSE C!AtLeast(1, RetentionDays)
              gone == trail[s] \ trail'[s]
          IN  /\ gone # {} => due /\ ~erred' /\ \A d \in gone : day - d > window
              /\ due /\ pass' # pass /\ ~erred' => \A d \in trail'[s] : day - d <= window]_retention
<1> SUFFICES ASSUME RetentionInv, C!RetentionNext, NEW s \in C!Scopes
             PROVE  /\ trail[s] \ trail'[s] # {} => Due(s) /\ ~erred' /\ \A d \in trail[s] \ trail'[s] : day - d > WindowHere(s)
                    /\ Due(s) /\ pass' # pass /\ ~erred' => \A d \in trail'[s] : day - d <= WindowHere(s)
  BY Zenon DEF Due, WindowHere
<1>1. CASE C!prune_once
  BY <1>1, PruneOnce
<1>2. CASE C!prune_tenant
  BY <1>2, PruneTenant
<1>3. CASE C!prune_fails
  BY <1>3 DEF C!prune_fails
<1>4. CASE ~C!prune_once /\ ~C!prune_tenant /\ ~C!prune_fails
  <2>1. trail[s] \ trail'[s] = {} /\ pass' = pass
    <3>1. CASE C!tomorrow
      <4>1. s \in Names \cup {"server"} /\ trail' = [x \in Names \cup {"server"} |-> trail[x] \cup {day}] /\ pass' = pass
        BY <3>1 DEF C!tomorrow, C!Scopes
      <4> QED BY <4>1
    <3>2. CASE ~C!tomorrow
      BY <1>4, <3>2 DEF C!RetentionNext, C!set_active, C!set_retention, C!set_audit_retention
    <3> QED BY <3>1, <3>2
  <2> QED BY <2>1
<1> QED BY <1>1, <1>2, <1>3, <1>4

LEMMA RetentionSpec == C!RetentionInit /\ [][C!RetentionNext]_retention => []RetentionInv
BY RetentionStart, RetentionStep, PTL

\* For every number of days that is configured, chosen or left over from another
\* cap: a visit that succeeds leaves nothing in its trail that is older than its
\* window, and a row goes only in such a visit and only once it is older
\* (effective_retention, prune_once).
THEOREM TrailsPrunedAsChosen == MCSpec => PrunedAsChosen
<1>1. MCInit => C!RetentionInit
  BY DEF MCInit, C!Init
<1>2. [MCNext]_<< side, tenants, permissions, account, rest >> => [C!RetentionNext]_retention
  BY DEF MCNext, rest, retention
<1> QED BY <1>1, <1>2, RetentionSpec, PrunesAsChosen, PTL DEF MCSpec, PrunedAsChosen, C!PrunedAsChosen, C!retention, retention

----------------------------------------------------------------------------
(* The outbox of the general ledger.                                       *)

\* What a delivery on its way knows of its source: the document is posted;
\* under the lock it has something to book and no entry; a delivery that waits
\* for its acknowledgement has found or booked one, or has nothing to book.
DeliveriesKnow ==
    \A p \in Publishers : ~At(p, "idle") =>
        /\ Source(p) \in posted
        /\ At(p, "locked") => Source(p) \notin Zero /\ entries[Source(p)] = 0
        /\ At(p, "booked") => Source(p) \in Zero \/ entries[Source(p)] > 0

\* The advisory lock of a source is held by one delivery at most.
LockHeldOnce ==
    \A p, q \in Publishers :
        At(p, "locked") /\ At(q, "locked") /\ Source(p) = Source(q) => p = q

\* Rows and entries belong to posted documents, and documents that have
\* nothing to book have no entry.
OnlyPosted ==
    \A d \in Docs :
        /\ outbox[d] # "none" => d \in posted
        /\ entries[d] > 0 => d \in posted \ Zero

OutboxInv ==
    /\ IsFiniteSet(posted)
    /\ DeliveriesKnow /\ LockHeldOnce /\ OnlyPosted
    /\ BookedOnce /\ NothingLost

----------------------------------------------------------------------------
(* The shape of a delivery, and what the helpers of GlOutbox do to it.     *)

LEMMA DeliveryShape ==
    ASSUME TypeOK, NEW p \in Publishers, ~At(p, "idle")
    PROVE  /\ Source(p) \in Docs
           /\ delivery[p].at \in {"published", "locked", "booked"}
           /\ delivery[p] = [at |-> delivery[p].at, source |-> Source(p)]
<1>1. delivery[p] \in Deliveries /\ delivery[p] # Idle
  BY DEF TypeOK, At, Idle
<1>2. delivery[p] \in [at : {"published", "locked", "booked"}, source : Docs]
  BY <1>1 DEF Deliveries
<1> QED BY <1>2 DEF Source

\* Only the delivery of p changes, and becomes x.
Becomes(p, x) ==
    /\ delivery' \in [Publishers -> Deliveries]
    /\ delivery'[p] = x
    /\ \A q \in Publishers \ {p} : delivery'[q] = delivery[q]

LEMMA ReachBecomes ==
    ASSUME TypeOK, NEW p \in Publishers, ~At(p, "idle"),
           NEW at \in {"published", "locked", "booked"}, Reach(p, at)
    PROVE  Becomes(p, [at |-> at, source |-> Source(p)])
<1> DEFINE x == [at |-> at, source |-> Source(p)]
<1>1. [delivery[p] EXCEPT !.at = at] = x
  <2>1. delivery[p] = [at |-> delivery[p].at, source |-> Source(p)]
    BY DeliveryShape
  <2>2. [delivery[p] EXCEPT !.at = at]
          = [[at |-> delivery[p].at, source |-> Source(p)] EXCEPT !.at = at]
    BY <2>1
  <2> QED BY <2>2
<1>2. x \in Deliveries
  BY DeliveryShape DEF Deliveries
<1>3. delivery' = [delivery EXCEPT ![p] = x]
  BY <1>1 DEF Reach
<1> HIDE DEF x
<1>4. Becomes(p, x)
  BY <1>2, <1>3 DEF Becomes, TypeOK
<1> QED BY <1>4 DEF x

LEMMA PublishBecomes ==
    ASSUME TypeOK, NEW p \in Publishers, NEW d \in Docs, Publish(p, d)
    PROVE  Becomes(p, [at |-> "published", source |-> d])
<1> DEFINE x == [at |-> "published", source |-> d]
<1>1. x \in Deliveries
  BY DEF Deliveries
<1>2. delivery' = [delivery EXCEPT ![p] = x]
  BY DEF Publish
<1> HIDE DEF x
<1>3. Becomes(p, x)
  BY <1>1, <1>2 DEF Becomes, TypeOK
<1> QED BY <1>3 DEF x

LEMMA DropBecomes ==
    ASSUME TypeOK, NEW p \in Publishers, Drop(p)
    PROVE  Becomes(p, Idle)
<1>1. Idle \in Deliveries
  BY DEF Deliveries
<1> QED BY <1>1 DEF Drop, Becomes, TypeOK

----------------------------------------------------------------------------
(* Type correctness.                                                       *)

\* The rows a sweep reads are a sequence of documents.
LEMMA OrdersType == ASSUME NEW S, IsFiniteSet(S) PROVE Orders(S) \subseteq Seq(S)
<1>1. Cardinality(S) \in Nat
  BY FS_CardinalityType
<1>2. Orders(S) \subseteq [1..Cardinality(S) -> S]
  BY DEF Orders
<1> QED BY <1>1, <1>2, SeqDef

LEMMA StaleFinite == TypeOK /\ OutboxInv => IsFiniteSet(Stale) /\ Stale \subseteq Docs
<1> SUFFICES ASSUME TypeOK, OutboxInv PROVE IsFiniteSet(Stale) /\ Stale \subseteq Docs
  OBVIOUS
<1>1. Stale \subseteq posted /\ Stale \subseteq Docs
  BY DEF Stale, OutboxInv, OnlyPosted
<1> QED BY <1>1, FS_Subset DEF OutboxInv

LEMMA TypeStep == TypeOK /\ OutboxInv /\ [Next]_vars => TypeOK'
<1> SUFFICES ASSUME TypeOK, OutboxInv, [Next]_vars PROVE TypeOK'
  OBVIOUS
<1>1. ASSUME NEW d \in Docs, post(d) PROVE TypeOK'
  <2>1. d \in Publishers
    BY DEF Publishers
  <2>2. delivery' \in [Publishers -> Deliveries]
    BY <1>1, <2>1, PublishBecomes DEF post, Becomes
  <2> QED BY <1>1, <2>2 DEF post, TypeOK
<1>2. ASSUME NEW d \in Docs, age(d) PROVE TypeOK'
  BY <1>2 DEF age, TypeOK
<1>3. ASSUME NEW p \in Publishers, Deliver(p) PROVE TypeOK'
  <2>0. ~At(p, "idle")
    BY <1>3 DEF Deliver, book, create_posted, fail, ack, At
  <2>1. CASE book(p)
    <3>1. PICK at \in {"booked", "locked"} : Reach(p, at)
      BY <2>1 DEF book
    <3>2. delivery' \in [Publishers -> Deliveries]
      BY <2>0, <3>1, ReachBecomes DEF Becomes
    <3> QED BY <2>1, <3>2 DEF book, TypeOK
  <2>2. CASE create_posted(p)
    <3>1. delivery' \in [Publishers -> Deliveries]
      BY <2>0, <2>2, ReachBecomes DEF create_posted, Becomes
    <3>2. entries' \in [Docs -> Nat]
      BY <2>0, <2>2, DeliveryShape DEF create_posted, TypeOK
    <3> QED BY <2>2, <3>1, <3>2 DEF create_posted, TypeOK
  <2>3. CASE fail(p)
    BY <2>3, DropBecomes DEF fail, Becomes, TypeOK
  <2>4. CASE ack(p)
    BY <2>4, DropBecomes DEF ack, Becomes, TypeOK
  <2> QED BY <1>3, <2>1, <2>2, <2>3, <2>4 DEF Deliver
<1>4. ASSUME NEW p \in Sweepers, sweep_read(p) PROVE TypeOK'
  <2>1. PICK q \in Orders(Stale) : sweep' = [sweep EXCEPT ![p] = q]
    BY <1>4 DEF sweep_read
  <2>2. q \in Seq(Docs)
    <3>1. q \in Seq(Stale)
      BY <2>1, OrdersType, StaleFinite
    <3> QED BY <3>1, StaleFinite, SeqMonotonic
  <2> QED BY <1>4, <2>1, <2>2 DEF sweep_read, TypeOK
<1>5. ASSUME NEW p \in Sweepers, sweep_one(p) PROVE TypeOK'
  <2>1. sweep[p] \in Seq(Docs) /\ sweep[p] # << >>
    BY <1>5 DEF sweep_one, TypeOK
  <2>2. Head(sweep[p]) \in Docs /\ Tail(sweep[p]) \in Seq(Docs)
    BY <2>1, HeadTailProperties
  <2>3. p \in Publishers
    BY DEF Publishers
  <2>4. CASE outbox[Head(sweep[p])] = "none"
    <3>1. << >> \in Seq(Docs)
      OBVIOUS
    <3> QED BY <1>5, <2>4, <3>1 DEF sweep_one, TypeOK
  <2>5. CASE outbox[Head(sweep[p])] # "none"
    <3>1. delivery' \in [Publishers -> Deliveries]
      BY <1>5, <2>2, <2>3, <2>5, PublishBecomes DEF sweep_one, Becomes
    <3>2. sweep' = [sweep EXCEPT ![p] = Tail(sweep[p])]
      BY <1>5, <2>5 DEF sweep_one
    <3> QED BY <1>5, <2>2, <2>5, <3>1, <3>2 DEF sweep_one, TypeOK
  <2> QED BY <2>4, <2>5
<1>6. ASSUME crash PROVE TypeOK'
  <2>1. delivery' \in [Publishers -> Deliveries]
    BY <1>6 DEF crash, Deliveries
  <2>2. sweep' \in [Sweepers -> Seq(Docs)]
    <3>1. << >> \in Seq(Docs)
      OBVIOUS
    <3> QED BY <1>6, <3>1 DEF crash
  <2> QED BY <1>6, <2>1, <2>2, OutboxAssumption DEF crash, TypeOK, OutboxAssumption
<1>7. CASE close_period \/ reopen_period
  <2>1. bookable' \in BOOLEAN
    BY <1>7, Zenon DEF close_period, reopen_period
  <2>2. closings' \in 0..MaxClosings
    <3>1. CASE close_period
      BY <3>1, OutboxAssumption DEF close_period, TypeOK, OutboxAssumption
    <3>2. CASE reopen_period
      BY <3>2 DEF reopen_period, TypeOK
    <3> QED BY <1>7, <3>1, <3>2
  <2>3. UNCHANGED << posted, outbox, entries, delivery, sweep, crashes >>
    BY <1>7 DEF close_period, reopen_period
  <2> QED BY <2>1, <2>2, <2>3 DEF TypeOK
<1>8. CASE UNCHANGED vars
  BY <1>8 DEF vars, TypeOK
<1> QED BY <1>1, <1>2, <1>3, <1>4, <1>5, <1>6, <1>7, <1>8 DEF Next, Sweep

----------------------------------------------------------------------------
(* The inductive invariant.                                                *)

LEMMA OutboxStep == TypeOK /\ OutboxInv /\ [Next]_vars => OutboxInv'
<1> SUFFICES ASSUME TypeOK, OutboxInv, [Next]_vars PROVE OutboxInv'
  OBVIOUS
<1> USE DEF OutboxInv
<1>1. ASSUME NEW d \in Docs, post(d) PROVE OutboxInv'
  <2>1. d \in Publishers
    BY DEF Publishers
  <2>2. Becomes(d, [at |-> "published", source |-> d])
    BY <1>1, <2>1, PublishBecomes DEF post
  <2>3. /\ posted' = posted \cup {d} /\ entries' = entries
        /\ outbox' = [outbox EXCEPT ![d] = "fresh"]
    BY <1>1 DEF post
  <2>4. IsFiniteSet(posted)'
    BY <2>3, FS_AddElement
  <2>5. DeliveriesKnow' /\ LockHeldOnce'
    BY <2>1, <2>2, <2>3 DEF DeliveriesKnow, LockHeldOnce, Becomes, At, Source
  <2>6. OnlyPosted' /\ BookedOnce' /\ NothingLost'
    BY <2>3 DEF OnlyPosted, BookedOnce, NothingLost, TypeOK
  <2> QED BY <2>4, <2>5, <2>6
<1>2. ASSUME NEW d \in Docs, age(d) PROVE OutboxInv'
  BY <1>2 DEF age, DeliveriesKnow, LockHeldOnce, OnlyPosted, BookedOnce, NothingLost,
     At, Source, TypeOK
<1>3. ASSUME NEW p \in Publishers, Deliver(p) PROVE OutboxInv'
  <2>1. ~At(p, "idle")
    BY <1>3 DEF Deliver, book, create_posted, fail, ack, At
  <2>2. Source(p) \in Docs /\ Source(p) \in posted
    BY <2>1, DeliveryShape DEF DeliveriesKnow
  <2>3. posted' = posted
    BY <1>3 DEF Deliver, book, create_posted, fail, ack
  <2>4. CASE book(p)
    <3>1. CASE Source(p) \in Zero
      <4>1. Becomes(p, [at |-> "booked", source |-> Source(p)])
        BY <2>1, <2>4, <3>1, ReachBecomes DEF book
      <4>2. DeliveriesKnow' /\ LockHeldOnce'
        BY <2>2, <2>4, <3>1, <4>1 DEF book, DeliveriesKnow, LockHeldOnce, Becomes, At, Source
      <4> QED BY <2>4, <4>2 DEF book, OnlyPosted, BookedOnce, NothingLost
    <3>2. CASE Source(p) \notin Zero /\ entries[Source(p)] > 0
      <4>1. Becomes(p, [at |-> "booked", source |-> Source(p)])
        BY <2>1, <2>4, <3>2, ReachBecomes DEF book
      <4>2. DeliveriesKnow' /\ LockHeldOnce'
        BY <2>2, <2>4, <3>2, <4>1 DEF book, DeliveriesKnow, LockHeldOnce, Becomes, At, Source
      <4> QED BY <2>4, <4>2 DEF book, OnlyPosted, BookedOnce, NothingLost
    <3>3. CASE Source(p) \notin Zero /\ ~(entries[Source(p)] > 0)
      <4>1. Becomes(p, [at |-> "locked", source |-> Source(p)])
        BY <2>1, <2>4, <3>3, ReachBecomes DEF book
      <4>2. entries[Source(p)] = 0
        BY <2>2, <3>3 DEF TypeOK
      <4>3. \A q \in Publishers : ~(At(q, "locked") /\ Source(q) = Source(p))
        BY <2>4, <3>3 DEF book, Unlocked
      <4>4. DeliveriesKnow' /\ LockHeldOnce'
        BY <2>2, <2>4, <3>3, <4>1, <4>2, <4>3
           DEF book, DeliveriesKnow, LockHeldOnce, Becomes, At, Source
      <4> QED BY <2>4, <4>4 DEF book, OnlyPosted, BookedOnce, NothingLost
    <3> QED BY <3>1, <3>2, <3>3
  <2>5. CASE create_posted(p)
    <3>1. Becomes(p, [at |-> "booked", source |-> Source(p)])
      BY <2>1, <2>5, ReachBecomes DEF create_posted
    <3>2. /\ At(p, "locked") /\ Source(p) \notin Zero /\ entries[Source(p)] = 0
          /\ \A q \in Publishers \ {p} : At(q, "locked") => Source(q) # Source(p)
      BY <2>1, <2>5 DEF create_posted, DeliveriesKnow, LockHeldOnce
    <3>3. entries' = [entries EXCEPT ![Source(p)] = 1]
      BY <2>2, <2>5, <3>2 DEF create_posted, TypeOK
    <3>4. DeliveriesKnow'
      <4>1. ASSUME NEW q \in Publishers \ {p}, ~At(q, "idle")
            PROVE  /\ At(q, "locked") => entries'[Source(q)] = 0
                   /\ At(q, "booked") => Source(q) \in Zero \/ entries'[Source(q)] > 0
        BY <2>2, <3>2, <3>3, <4>1, DeliveryShape DEF DeliveriesKnow, TypeOK
      <4>2. \A q \in Publishers \ {p} :
              /\ At(q, "idle")' = At(q, "idle") /\ At(q, "locked")' = At(q, "locked") /\ At(q, "booked")' = At(q, "booked")
              /\ ~At(q, "idle") => Source(q)' = Source(q) /\ Source(q) \in posted'
        BY <2>2, <2>3, <3>1 DEF DeliveriesKnow, Becomes, At, Source
      <4>3. /\ ~At(p, "idle")' /\ ~At(p, "locked")' /\ Source(p)' = Source(p)
            /\ Source(p) \in posted' /\ entries'[Source(p)] > 0
        BY <2>2, <2>3, <3>1, <3>2, <3>3, DeliveryShape DEF DeliveriesKnow, Becomes, At, Source, TypeOK
      <4> QED BY <4>1, <4>2, <4>3 DEF DeliveriesKnow
    <3>5. LockHeldOnce'
      BY <3>1 DEF LockHeldOnce, Becomes, At, Source
    <3>6. OnlyPosted' /\ BookedOnce' /\ NothingLost'
      BY <2>2, <2>5, <3>2, <3>3
         DEF create_posted, OnlyPosted, BookedOnce, NothingLost, TypeOK
    <3> QED BY <2>3, <3>4, <3>5, <3>6
  <2>6. CASE fail(p)
    <3>1. Becomes(p, Idle)
      BY <2>6, DropBecomes DEF fail
    <3>2. DeliveriesKnow' /\ LockHeldOnce'
      BY <2>6, <3>1 DEF fail, DeliveriesKnow, LockHeldOnce, Becomes, At, Source, Idle
    <3> QED BY <2>6, <3>2 DEF fail, OnlyPosted, BookedOnce, NothingLost
  <2>7. CASE ack(p)
    <3>1. Becomes(p, Idle)
      BY <2>7, DropBecomes DEF ack
    <3>2. DeliveriesKnow' /\ LockHeldOnce'
      BY <2>7, <3>1 DEF ack, DeliveriesKnow, LockHeldOnce, Becomes, At, Source, Idle
    <3>3. Source(p) \in Zero \/ entries[Source(p)] > 0
      BY <2>1, <2>7 DEF ack, DeliveriesKnow
    <3>4. OnlyPosted' /\ BookedOnce' /\ NothingLost'
      BY <2>2, <2>7, <3>3 DEF ack, OnlyPosted, BookedOnce, NothingLost, TypeOK
    <3> QED BY <2>3, <3>2, <3>4
  <2> QED BY <1>3, <2>4, <2>5, <2>6, <2>7 DEF Deliver
<1>4. ASSUME NEW p \in Sweepers, sweep_read(p) PROVE OutboxInv'
  BY <1>4 DEF sweep_read, DeliveriesKnow, LockHeldOnce, OnlyPosted, BookedOnce, NothingLost,
     At, Source
<1>5. ASSUME NEW p \in Sweepers, sweep_one(p) PROVE OutboxInv'
  <2> DEFINE d == Head(sweep[p])
  <2>1. d \in Docs
    <3>1. sweep[p] \in Seq(Docs) /\ sweep[p] # << >>
      BY <1>5 DEF sweep_one, TypeOK
    <3> QED BY <3>1, HeadTailProperties
  <2>2. p \in Publishers
    BY DEF Publishers
  <2>3. posted' = posted /\ entries' = entries
    BY <1>5 DEF sweep_one
  <2>4. CASE outbox[d] = "none"
    BY <1>5, <2>4 DEF sweep_one, DeliveriesKnow, LockHeldOnce, OnlyPosted, BookedOnce,
       NothingLost, At, Source
  <2>5. CASE outbox[d] # "none"
    <3>1. Becomes(p, [at |-> "published", source |-> d])
      BY <1>5, <2>1, <2>2, <2>5, PublishBecomes DEF sweep_one
    <3>2. outbox' = [outbox EXCEPT ![d] = "fresh"]
      BY <1>5, <2>5 DEF sweep_one
    <3>3. d \in posted
      BY <2>1, <2>5 DEF OnlyPosted
    <3> HIDE DEF d
    <3>4. DeliveriesKnow' /\ LockHeldOnce'
      BY <2>2, <2>3, <3>1, <3>3 DEF DeliveriesKnow, LockHeldOnce, Becomes, At, Source
    <3>5. OnlyPosted' /\ BookedOnce' /\ NothingLost'
      BY <2>1, <2>3, <3>2, <3>3 DEF OnlyPosted, BookedOnce, NothingLost, TypeOK
    <3> QED BY <2>3, <3>4, <3>5
  <2> QED BY <2>4, <2>5
<1>6. ASSUME crash PROVE OutboxInv'
  <2>1. \A p \in Publishers : delivery'[p].at = "idle"
    BY <1>6 DEF crash, Idle
  <2>2. DeliveriesKnow' /\ LockHeldOnce'
    BY <2>1 DEF DeliveriesKnow, LockHeldOnce, At
  <2> QED BY <1>6, <2>2 DEF crash, OnlyPosted, BookedOnce, NothingLost
<1>7. CASE close_period \/ reopen_period \/ UNCHANGED vars
  BY <1>7 DEF close_period, reopen_period, vars, DeliveriesKnow, LockHeldOnce, OnlyPosted,
     BookedOnce, NothingLost, At, Source
<1> QED BY <1>1, <1>2, <1>3, <1>4, <1>5, <1>6, <1>7 DEF Next, Sweep

LEMMA OutboxInit == Init => TypeOK /\ OutboxInv
<1> SUFFICES ASSUME Init PROVE TypeOK /\ OutboxInv
  OBVIOUS
<1>1. TypeOK
  <2>1. << >> \in Seq(Docs)
    OBVIOUS
  <2> QED BY <2>1, OutboxAssumption DEF Init, TypeOK, Deliveries, OutboxAssumption
<1>2. IsFiniteSet(posted)
  BY FS_EmptySet DEF Init
<1>3. \A p \in Publishers : At(p, "idle") /\ ~At(p, "locked")
  BY DEF Init, At, Idle
<1>4. DeliveriesKnow /\ LockHeldOnce
  BY <1>3 DEF DeliveriesKnow, LockHeldOnce
<1>5. OnlyPosted /\ BookedOnce /\ NothingLost
  BY DEF Init, OnlyPosted, BookedOnce, NothingLost
<1> QED BY <1>1, <1>2, <1>4, <1>5 DEF OutboxInv

LEMMA OutboxInvariant == Spec => [](TypeOK /\ OutboxInv)
BY OutboxInit, TypeStep, OutboxStep, PTL DEF Spec

\* The variables keep their types whatever is posted, swept, booked or lost
\* (the rows of gl_outbox and the deliveries of one event).
THEOREM TypeCorrect == Spec => []TypeOK
BY OutboxInvariant, PTL

\* The journal carries one entry per source at most: the advisory lock of
\* GlPort::book makes the look for an entry and its posting one.
THEOREM BookedAtMostOnce == Spec => []BookedOnce
<1>1. OutboxInv => BookedOnce
  BY DEF OutboxInv
<1> QED BY <1>1, OutboxInvariant, PTL

\* A posted document that has something to book is booked or its row is still
\* staged: stage runs in the transaction of the document, and only an answer
\* deletes the row.
THEOREM RequestsNeverLost == Spec => []NothingLost
<1>1. OutboxInv => NothingLost
  BY DEF OutboxInv
<1> QED BY <1>1, OutboxInvariant, PTL

----------------------------------------------------------------------------

\* The outbox implements the books: posting a document asks for its entry, the
\* one step that books does so for a source that was asked for and has none,
\* and every other step - sweeps, duplicate deliveries, failures, crashes -
\* changes nothing the books can see.
THEOREM ImplementsTheBooks == Spec => ImplementsBooks
<1>1. Init => Books!Init
  BY DEF Init, Books!Init
<1>2. TypeOK /\ OutboxInv /\ [Next]_vars => [Books!Next]_Books!vars
  <2> SUFFICES ASSUME TypeOK, OutboxInv, [Next]_vars PROVE [Books!Next]_Books!vars
    OBVIOUS
  <2>1. ASSUME NEW d \in Docs, post(d) PROVE [Books!Next]_Books!vars
    <3>1. d \notin posted /\ posted' = posted \cup {d} /\ entries' = entries
      BY <2>1 DEF post
    <3>2. CASE d \in Zero
      BY <3>1, <3>2 DEF Books!vars
    <3>3. CASE d \notin Zero
      <4>1. Books!Ask(d)
        BY <3>1, <3>3 DEF Books!Ask
      <4> QED BY <3>3, <4>1 DEF Books!Next
    <3> QED BY <3>2, <3>3
  <2>2. ASSUME NEW p \in Publishers, create_posted(p) PROVE Books!Next
    <3>1. ~At(p, "idle") /\ At(p, "locked")
      BY <2>2 DEF create_posted, At
    <3>2. PICK d \in Docs : d = Source(p)
      BY <3>1, DeliveryShape
    <3>3. d \in posted /\ d \notin Zero /\ entries[d] = 0
      BY <3>1, <3>2 DEF OutboxInv, DeliveriesKnow
    <3>4. entries' = [entries EXCEPT ![d] = 1] /\ posted' = posted
      BY <2>2, <3>2, <3>3 DEF create_posted, TypeOK
    <3>5. Books!Book(d)
      BY <3>3, <3>4 DEF Books!Book, TypeOK
    <3> QED BY <3>3, <3>5 DEF Books!Next
  <2>3. CASE UNCHANGED << posted, entries >>
    BY <2>3 DEF Books!vars
  <2>4. \/ \E d \in Docs : post(d)
        \/ \E p \in Publishers : create_posted(p)
        \/ UNCHANGED << posted, entries >>
    BY DEF Next, age, Deliver, book, fail, ack, Sweep, sweep_read, sweep_one, crash,
       close_period, reopen_period, vars
  <2> QED BY <2>1, <2>2, <2>3, <2>4
<1> QED BY <1>1, <1>2, OutboxInvariant, PTL DEF Spec, ImplementsBooks, Books!Spec
=============================================================================
