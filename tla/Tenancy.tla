------------------------------- MODULE Tenancy --------------------------------
(***************************************************************************)
(* Companies (crates/nebula/src/tenancy, account/mod.rs): a registration   *)
(* cuts a database, records the company and seeds its admin, and           *)
(* compensates when a step fails; one server's cache of the directory and  *)
(* its pools serve requests while the directory is written.  A request is  *)
(* dropped where it stands when the time allowed is over or the client     *)
(* hangs up; the server goes on with the cache it has.                     *)
(***************************************************************************)
EXTENDS Naturals, FiniteSets

CONSTANTS
    Names,
    Registrations,  \* a registration, the database it cuts, the company it records
    Lookups,        \* the requests this server resolves
    Writers,        \* the administrators who write the directory through it
    None,
    MaxTenants,     \* multitenancy.max_tenants
    MaxFaults       \* bound: calls that fail, registrations dropped, crashes

VARIABLES
    provision,  \* multitenancy.provision_databases
    databases,  \* the databases on the server
    tenant,     \* tenant[n]: the row of the name
    admins,     \* the companies whose admin exists, with the role
    reg,        \* reg[r]: where a registration is
    cache,      \* cache[n]: the cached row
    pools,      \* the companies this server has a pool for
    look,       \* look[q]: the request, the row it uses, and whether a write overlapped it
    write,      \* write[w]: the name being written, how far, and whether a pool is to go
    stale,      \* the names whose cached row a write overlapped or left behind
    lingering,  \* the companies whose pool a write overlapped or left behind
    stranded,   \* what a drop, a crash or a failed compensation left behind
    crowded,    \* two registrations were counted at once
    faults

marks == << stale, lingering >>
directory == << tenant, cache, pools, look, marks >>
vars == << provision, databases, admins, reg, write, stranded, crowded, faults, directory >>

Row(r) == [id |-> r, active |-> TRUE, settings |-> 0]
Rows == [id : Registrations, active : BOOLEAN, settings : {0, 1}]

Underway == {"checked", "counted", "cut", "ready", "recorded", "connected", "user",
             "drop", "invalidate", "evict", "delete"}
NoLook == [step |-> "idle", name |-> None, row |-> None, late |-> FALSE]
NoWrite == [step |-> "idle", name |-> None, evicts |-> FALSE]

TypeOK ==
    /\ provision \in BOOLEAN /\ crowded \in BOOLEAN
    /\ databases \subseteq Registrations /\ admins \subseteq Registrations
    /\ pools \subseteq Registrations /\ stranded \subseteq Registrations
    /\ stale \subseteq Names /\ lingering \subseteq Registrations
    /\ tenant \in [Names -> Rows \cup {None}] /\ cache \in [Names -> Rows \cup {None}]
    /\ reg \in [Registrations -> [step : Underway \cup {"idle", "done", "refused"}, name : Names \cup {None}]]
    /\ look \in [Lookups -> [step : {"idle", "read", "resolved"}, name : Names \cup {None},
                             row : Rows \cup {None}, late : BOOLEAN]]
    /\ write \in [Writers -> [step : {"idle", "updated", "evict"}, name : Names \cup {None}, evicts : BOOLEAN]]
    /\ faults \in 0..MaxFaults

Init ==
    /\ provision \in BOOLEAN /\ crowded = FALSE
    /\ databases = {} /\ admins = {} /\ pools = {} /\ stranded = {} /\ stale = {} /\ lingering = {}
    /\ tenant = [n \in Names |-> None] /\ cache = [n \in Names |-> None]
    /\ reg = [r \in Registrations |-> [step |-> "idle", name |-> None]]
    /\ look = [q \in Lookups |-> NoLook]
    /\ write = [w \in Writers |-> NoWrite]
    /\ faults = 0

Fault == faults < MaxFaults /\ faults' = faults + 1
Goes(r, step) == reg' = [reg EXCEPT ![r].step = step]

\* A cached row and a pool are dropped with what was left of them.
Uncache(n) == cache' = [cache EXCEPT ![n] = None] /\ stale' = stale \ {n}
Evict(r) == pools' = pools \ {r} /\ lingering' = lingering \ {r}

\* A write of the row of n overtakes the requests for n in hand.
Overtake(n) == look' = [q \in Lookups |-> IF look[q].name = n THEN [look[q] EXCEPT !.late = TRUE] ELSE look[q]]

----------------------------------------------------------------------------
(* TenantManager::create.                                                  *)

check(r, n) ==
    /\ reg[r].step = "idle"
    /\ reg' = [reg EXCEPT ![r] = [step |-> IF tenant[n] = None THEN "checked" ELSE "refused", name |-> n]]
    /\ UNCHANGED << provision, databases, admins, write, stranded, crowded, faults, directory >>

count == Cardinality({ n \in Names : tenant[n] # None })

\* The count is not locked.
count_tenants(r) ==
    /\ reg[r].step = "checked"
    /\ Goes(r, IF count < MaxTenants THEN "counted" ELSE "refused")
    /\ crowded' = (crowded \/ \E s \in Registrations : reg[s].step \in {"counted", "cut", "ready"})
    /\ UNCHANGED << provision, databases, admins, write, stranded, faults, directory >>

create_database(r) ==
    /\ reg[r].step = "counted"
    /\ Goes(r, IF provision THEN "cut" ELSE "ready")
    /\ databases' = IF provision THEN databases \cup {r} ELSE databases
    /\ UNCHANGED << provision, admins, write, stranded, crowded, faults, directory >>

migrate_fresh(r) ==
    /\ reg[r].step = "cut"
    /\ \/ Goes(r, "ready") /\ UNCHANGED faults
       \/ Goes(r, "drop") /\ Fault
    /\ UNCHANGED << provision, databases, admins, write, stranded, crowded, directory >>

\* The name is unique.
insert(r) ==
    /\ reg[r].step = "ready"
    /\ LET n == reg[r].name IN
         \/ /\ tenant[n] = None
            /\ tenant' = [tenant EXCEPT ![n] = Row(r)]
            /\ Goes(r, "recorded") /\ UNCHANGED faults
         \/ /\ UNCHANGED tenant
            /\ Goes(r, IF provision THEN "drop" ELSE "refused")
            /\ IF tenant[n] # None THEN UNCHANGED faults ELSE Fault
    /\ UNCHANGED << provision, databases, admins, write, stranded, crowded, cache, pools, look, marks >>

\* Best effort: a failure is logged.
drop_database(r) ==
    /\ reg[r].step = "drop"
    /\ \/ databases' = databases \ {r} /\ UNCHANGED << stranded, faults >>
       \/ r \in databases /\ UNCHANGED databases /\ stranded' = stranded \cup {r} /\ Fault
    /\ Goes(r, "refused")
    /\ UNCHANGED << provision, admins, write, crowded, directory >>

----------------------------------------------------------------------------
(* The rest of a registration.                                             *)

\* A company that cannot be connected to is left as it is.
connect(r) ==
    /\ reg[r].step = "recorded"
    /\ \/ /\ Goes(r, "connected")
          /\ pools' = IF provision THEN pools \cup {r} ELSE pools
          /\ UNCHANGED << stranded, faults >>
       \/ /\ Goes(r, "refused") /\ provision /\ Fault
          /\ stranded' = stranded \cup {r} /\ UNCHANGED pools
    /\ UNCHANGED << provision, databases, admins, write, crowded, tenant, cache, look, marks >>

create_user(r) ==
    /\ reg[r].step = "connected"
    /\ \/ Goes(r, "user") /\ UNCHANGED faults
       \/ Goes(r, "invalidate") /\ Fault
    /\ UNCHANGED << provision, databases, admins, write, stranded, crowded, directory >>

seed_admin(r) ==
    /\ reg[r].step = "user"
    /\ \/ Goes(r, "done") /\ admins' = admins \cup {r} /\ UNCHANGED faults
       \/ Goes(r, "invalidate") /\ UNCHANGED admins /\ Fault
    /\ UNCHANGED << provision, databases, write, stranded, crowded, directory >>

----------------------------------------------------------------------------
(* TenantManager::remove, the compensation.                                *)

remove_invalidate(r) ==
    /\ reg[r].step = "invalidate"
    /\ Uncache(reg[r].name)
    /\ Overtake(reg[r].name)
    /\ Goes(r, "evict")
    /\ UNCHANGED << provision, databases, admins, write, stranded, crowded, faults, tenant, pools, lingering >>

remove_evict(r) ==
    /\ reg[r].step = "evict"
    /\ Evict(r)
    /\ Goes(r, "delete")
    /\ UNCHANGED << provision, databases, admins, write, stranded, crowded, faults, tenant, cache, look, stale >>

\* The database is only dropped once the row is gone.
remove_delete(r) ==
    /\ reg[r].step = "delete"
    /\ LET n == reg[r].name IN
         \/ /\ tenant' = IF tenant[n] # None /\ tenant[n].id = r THEN [tenant EXCEPT ![n] = None] ELSE tenant
            /\ Overtake(n)
            /\ Goes(r, IF provision THEN "drop" ELSE "refused")
            /\ UNCHANGED << stranded, faults >>
         \/ /\ Goes(r, "refused") /\ stranded' = stranded \cup {r} /\ Fault
            /\ UNCHANGED << tenant, look >>
    /\ UNCHANGED << provision, databases, admins, write, crowded, cache, pools, marks >>

----------------------------------------------------------------------------
(* Requests: resolve, then connection_for.                                 *)

\* A name is being written from the moment its row differs from what was read.
Writing(n) ==
    \/ \E w \in Writers : write[w].name = n
    \/ \E r \in Registrations : reg[r].name = n /\ reg[r].step \in {"evict", "delete"}

Takes(q, n, step, row, late) ==
    look' = [look EXCEPT ![q] = [step |-> step, name |-> n, row |-> row, late |-> late \/ Writing(n)]]

resolve_cached(q, n) ==
    /\ look[q] = NoLook /\ cache[n] # None
    /\ Takes(q, n, "resolved", cache[n], n \in stale)
    /\ UNCHANGED << provision, databases, admins, reg, write, stranded, crowded, faults, tenant, cache, pools, marks >>

\* Only a row that is found is cached.
find_by_name(q, n) ==
    /\ look[q] = NoLook /\ cache[n] = None /\ tenant[n] # None
    /\ Takes(q, n, "read", tenant[n], FALSE)
    /\ UNCHANGED << provision, databases, admins, reg, write, stranded, crowded, faults, tenant, cache, pools, marks >>

resolve_insert(q) ==
    /\ look[q].step = "read"
    /\ cache' = [cache EXCEPT ![look[q].name] = look[q].row]
    /\ stale' = IF look[q].late THEN stale \cup {look[q].name} ELSE stale
    /\ look' = [look EXCEPT ![q].step = "resolved"]
    /\ UNCHANGED << provision, databases, admins, reg, write, stranded, crowded, faults, tenant, pools, lingering >>

\* A deactivated company answers like an unknown one.
connection_for(q) ==
    /\ look[q].step = "resolved"
    /\ look' = [look EXCEPT ![q] = NoLook]
    /\ LET id == look[q].row.id IN
         IF look[q].row.active /\ provision /\ id \notin pools
           THEN pools' = pools \cup {id} /\ lingering' = IF look[q].late THEN lingering \cup {id} ELSE lingering
           ELSE UNCHANGED << pools, lingering >>
    /\ UNCHANGED << provision, databases, admins, reg, write, stranded, crowded, faults, tenant, cache, stale >>

cache_expires(n) ==
    /\ cache[n] # None
    /\ Uncache(n)
    /\ UNCHANGED << provision, databases, admins, reg, write, stranded, crowded, faults, tenant, pools, look, lingering >>

----------------------------------------------------------------------------
(* Writes of the directory, each of its own columns, of a company that is  *)
(* registered.                                                             *)

Writes(w, n, row, evicts) ==
    /\ write[w] = NoWrite /\ tenant[n].id \in admins
    /\ tenant' = [tenant EXCEPT ![n] = row]
    /\ write' = [write EXCEPT ![w] = [step |-> "updated", name |-> n, evicts |-> evicts]]
    /\ Overtake(n)
    /\ UNCHANGED << provision, databases, admins, reg, stranded, crowded, faults, cache, pools, marks >>

\* A company that is deactivated is to lose its pool.
set_active(w, n, yes) == tenant[n] # None /\ Writes(w, n, [tenant[n] EXCEPT !.active = yes], ~yes)

\* The profile, the logo, the policies and the retention.
set_settings(w, n) == tenant[n] # None /\ Writes(w, n, [tenant[n] EXCEPT !.settings = 1 - @], FALSE)

\* MUTANT of saved: the cached row is left to expire.
saved_Leaves(w) ==
    /\ write[w].step = "updated"
    /\ Overtake(write[w].name)
    /\ write' = [write EXCEPT ![w] = IF @.evicts THEN [@ EXCEPT !.step = "evict"] ELSE NoWrite]
    /\ UNCHANGED << provision, databases, admins, reg, stranded, crowded, faults, tenant, cache, pools, marks >>

\* saved: the cached row is dropped.
saved(w) ==
    /\ write[w].step = "updated"
    /\ Uncache(write[w].name)
    /\ Overtake(write[w].name)
    /\ write' = [write EXCEPT ![w] = IF @.evicts THEN [@ EXCEPT !.step = "evict"] ELSE NoWrite]
    /\ UNCHANGED << provision, databases, admins, reg, stranded, crowded, faults, tenant, pools, lingering >>

evict_pool(w) ==
    /\ write[w].step = "evict"
    /\ Evict(tenant[write[w].name].id)
    /\ Overtake(write[w].name)
    /\ write' = [write EXCEPT ![w] = NoWrite]
    /\ UNCHANGED << provision, databases, admins, reg, stranded, crowded, faults, tenant, cache, stale >>

----------------------------------------------------------------------------
(* What is dropped where it stands, and the server's death.                *)

\* A write that is committed and not followed up: the row cached before it and
\* the pool it was to take stay.
drop_write(w) ==
    /\ write[w] # NoWrite
    /\ LET n == write[w].name IN
         /\ stale' = IF write[w].step = "updated" /\ cache[n] # None THEN stale \cup {n} ELSE stale
         /\ lingering' = IF write[w].evicts THEN lingering \cup (pools \cap {tenant[n].id}) ELSE lingering
    /\ write' = [write EXCEPT ![w] = NoWrite]
    /\ UNCHANGED << provision, databases, admins, reg, stranded, crowded, faults, tenant, cache, pools, look >>

drop_lookup(q) ==
    /\ look[q] # NoLook
    /\ look' = [look EXCEPT ![q] = NoLook]
    /\ UNCHANGED << provision, databases, admins, reg, write, stranded, crowded, faults, tenant, cache, pools, marks >>

\* What it cut and did not finish stays as it is.
drop_registration(r) ==
    /\ reg[r].step \in Underway /\ Fault
    /\ Goes(r, "refused") /\ stranded' = stranded \cup {r}
    /\ UNCHANGED << provision, databases, admins, write, crowded, directory >>

\* The server restarts, with an empty cache.
crash ==
    /\ Fault
    /\ stranded' = stranded \cup { r \in Registrations : reg[r].step \in Underway }
    /\ reg' = [r \in Registrations |-> IF reg[r].step \in Underway THEN [reg[r] EXCEPT !.step = "refused"] ELSE reg[r]]
    /\ cache' = [n \in Names |-> None] /\ pools' = {} /\ stale' = {} /\ lingering' = {}
    /\ look' = [q \in Lookups |-> NoLook] /\ write' = [w \in Writers |-> NoWrite]
    /\ UNCHANGED << provision, databases, tenant, admins, crowded >>

----------------------------------------------------------------------------

create(r) ==
    \/ \E n \in Names : check(r, n)
    \/ count_tenants(r) \/ create_database(r) \/ migrate_fresh(r) \/ insert(r) \/ drop_database(r)

register(r) == create(r) \/ connect(r) \/ create_user(r) \/ seed_admin(r)

remove(r) == remove_invalidate(r) \/ remove_evict(r) \/ remove_delete(r)

resolve_tenant(q) ==
    \/ \E n \in Names : resolve_cached(q, n) \/ find_by_name(q, n)
    \/ resolve_insert(q) \/ connection_for(q)

administer(w) ==
    \/ \E n \in Names : set_settings(w, n) \/ \E yes \in BOOLEAN : set_active(w, n, yes)
    \/ saved(w) \/ evict_pool(w)

drop ==
    \/ \E w \in Writers : drop_write(w)
    \/ \E q \in Lookups : drop_lookup(q)
    \/ \E r \in Registrations : drop_registration(r)

Next ==
    \/ \E r \in Registrations : register(r) \/ remove(r)
    \/ \E q \in Lookups : resolve_tenant(q)
    \/ \E w \in Writers : administer(w)
    \/ \E n \in Names : cache_expires(n)
    \/ drop \/ crash

Spec == Init /\ [][Next]_vars

----------------------------------------------------------------------------

Recorded(r) == \E n \in Names : tenant[n] # None /\ tenant[n].id = r

\* A registration leaves everything or nothing: a database belongs to a company
\* that is recorded, a company that is recorded has its database and an admin
\* who can sign in, and two registrations never share a name - unless one is
\* still underway, or a drop, a crash, a company that could not be connected to or
\* a failed compensation stranded it.  The deployment's limit holds unless two
\* registrations were counted at once.
NothingStranded ==
    /\ \A r \in databases : Recorded(r) \/ r \in stranded \/ reg[r].step \in Underway
    /\ \A r \in Registrations : Recorded(r) =>
         /\ provision => r \in databases
         /\ r \in admins \/ r \in stranded \/ reg[r].step \in Underway
    /\ \A r \in admins : Recorded(r)
    /\ crowded \/ count <= MaxTenants

\* Outside a write this server answers with the row as it was last written, and
\* keeps no pool to a company that was deactivated or taken back - but for what a
\* write overlapped or left behind when it was dropped: a row for as long as it
\* stays cached (multitenancy.directory_cache_secs), a pool until it is evicted.
ServesWhatIsWritten ==
    \A n \in Names : ~Writing(n) =>
      /\ cache[n] # None => n \in stale \/ cache[n] = tenant[n]
      /\ \A r \in pools \ lingering : reg[r].name = n => tenant[n] # None /\ tenant[n].id = r /\ tenant[n].active

=============================================================================
