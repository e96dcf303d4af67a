---------------------------- MODULE CompanySettings ----------------------------
(***************************************************************************)
(* What a company sets for itself over what the server is configured with. *)
(*                                                                         *)
(* The password policy (crates/nebula/src/auth/policy.rs,                  *)
(* administration/password_policy.rs): the deployment sets a policy, a     *)
(* company lays overrides of its own over it, each of them optional, and   *)
(* is refused what is weaker.  The four classes of characters are treated  *)
(* alike; the instance has two.                                            *)
(*                                                                         *)
(* How long the audit trail is kept (crates/nebula/src/audit/pruner.rs,    *)
(* administration/audit.rs): the server has a number of days, a company    *)
(* may choose its own up to a cap, and a job deletes what is older, in the *)
(* trail of the server first and then company by company, each in its own  *)
(* database.  A database that cannot be reached ends the pass.             *)
(***************************************************************************)
EXTENDS Integers, Sequences, FiniteSets

CONSTANTS
    Deployments,    \* the policies the deployment may be configured with
    Shipped,        \* the one it starts with
    Classes,        \* the classes of characters
    Lengths, Days, Counts, Attempts, Seconds,   \* what may be asked for, negative numbers too
    Tenants,
    Host,           \* the trail of the server itself
    None,
    RetentionDays,  \* audit.retention_days
    MaxDays,        \* audit.retention_max_days
    Windows,        \* what a row may hold besides, zero and numbers above the cap too
    LastDay         \* bound: the days that pass

VARIABLES
    config,     \* the deployment's policy
    row,        \* the overrides of a company
    vetted,     \* the policy of the deployment when the company last chose
    day,
    trail,      \* trail[s]: the days of the rows of a company or the server
    chosen,     \* chosen[t]: tenants.audit_retention_days
    active,     \* the active tenants
    pass,       \* the pass under way: the companies it has still to visit, as it read them
    erred      \* whether the last pass ended in an error

policy == << config, row, vetted >>
retention == << day, trail, chosen, active, pass, erred >>

Nothing == [min_length |-> None, require |-> [c \in Classes |-> None], expiry_days |-> None,
            history_count |-> None, lockout_max_failed |-> None, lockout_secs |-> None]

PolicyInit == config = Shipped /\ row = Nothing /\ vetted = config

----------------------------------------------------------------------------
(* What a policy lets through.                                             *)

\* A password of that length with characters of those classes.
check(p, length, classes) == length >= p.min_length /\ { c \in Classes : p.require[c] } \subseteq classes

expired(p, age) == p.expiry_days # 0 /\ age > p.expiry_days

\* The password that was given up that many changes ago may come back.
reusable(p, ago) == ago > p.history_count

\* Locked out after that many wrong attempts, that many seconds ago.
locked(p, wrong, ago) == wrong >= p.lockout_max_failed /\ ago < p.lockout_secs

Strictest(S) == CHOOSE n \in S : \A k \in S : k <= n
Upto(S) == 0..(Strictest(S) + 1)

Admits(p, q) ==
    /\ \A n \in Upto(Lengths), classes \in SUBSET Classes : check(p, n, classes) => check(q, n, classes)
    /\ \A n \in Upto(Days) : ~expired(p, n) => ~expired(q, n)
    /\ \A n \in Upto(Counts) : reusable(p, n) => reusable(q, n)
    /\ \A n \in Upto(Attempts), s \in Upto(Seconds) : locked(q, n, s) => locked(p, n, s)

----------------------------------------------------------------------------
(* The company's choice.                                                   *)

AtLeastZero(n) == IF n < 0 THEN 0 ELSE n

resolve(floor, r) ==
    [min_length |-> IF r.min_length = None THEN floor.min_length ELSE AtLeastZero(r.min_length),
     require |-> [c \in Classes |-> IF r.require[c] = None THEN floor.require[c] ELSE r.require[c]],
     expiry_days |-> IF r.expiry_days = None THEN floor.expiry_days ELSE AtLeastZero(r.expiry_days),
     history_count |-> IF r.history_count = None THEN floor.history_count ELSE AtLeastZero(r.history_count),
     lockout_max_failed |-> IF r.lockout_max_failed = None THEN floor.lockout_max_failed ELSE r.lockout_max_failed,
     lockout_secs |-> IF r.lockout_secs = None THEN floor.lockout_secs ELSE AtLeastZero(r.lockout_secs)]

\* MUTANT of check_override: an expiry of no days is a short one.
check_override_Zero(p, floor) ==
    /\ p.min_length >= floor.min_length
    /\ \A c \in Classes : floor.require[c] => p.require[c]
    /\ floor.expiry_days > 0 => p.expiry_days <= floor.expiry_days
    /\ p.history_count >= floor.history_count
    /\ p.lockout_max_failed <= floor.lockout_max_failed
    /\ p.lockout_secs >= floor.lockout_secs

\* No days means that a password never expires: the weakest of all.
check_override(p, floor) ==
    /\ p.min_length >= floor.min_length
    /\ \A c \in Classes : floor.require[c] => p.require[c]
    /\ floor.expiry_days > 0 => p.expiry_days # 0 /\ p.expiry_days <= floor.expiry_days
    /\ p.history_count >= floor.history_count
    /\ p.lockout_max_failed <= floor.lockout_max_failed
    /\ p.lockout_secs >= floor.lockout_secs

\* All overrides are replaced at once; the request is judged by what it
\* comes to once resolved.
password_policy_update(r) ==
    /\ check_override(resolve(config, r), config)
    /\ row' = r /\ vetted' = config
    /\ UNCHANGED config

Asked ==
    [min_length : Lengths \cup {None}, require : [Classes -> BOOLEAN \cup {None}], expiry_days : Days \cup {None},
     history_count : Counts \cup {None}, lockout_max_failed : Attempts \cup {None}, lockout_secs : Seconds \cup {None}]

\* The deployment starts again with another configuration.
deployed ==
    /\ config' \in Deployments
    /\ UNCHANGED << row, vetted >>

PolicyNext == deployed \/ \E r \in Asked : password_policy_update(r)

----------------------------------------------------------------------------
(* The retention of the audit trail.                                       *)

Scopes == Tenants \cup {Host}

RetentionInit ==
    /\ day = 0
    /\ trail = [s \in Scopes |-> {}] /\ chosen = [t \in Tenants |-> None] /\ active = Tenants
    /\ pass = << >> /\ erred = FALSE

AtMost(a, b) == IF a < b THEN a ELSE b
AtLeast(a, b) == IF a > b THEN a ELSE b

\* MUTANT of effective_retention: the cap is taken for the default.
effective_retention_Cap(days) == AtLeast(1, IF days # None /\ days > 0 THEN AtMost(RetentionDays, days) ELSE MaxDays)

effective_retention(days) ==
    AtLeast(1, IF days # None /\ days > 0 THEN AtMost(days, MaxDays) ELSE RetentionDays)

----------------------------------------------------------------------------

\* Every day leaves rows in every trail.
tomorrow ==
    /\ day < LastDay /\ day' = day + 1
    /\ trail' = [s \in Scopes |-> trail[s] \cup {day}]
    /\ UNCHANGED << chosen, active, pass, erred >>

\* The manager writes down what it is given: the cap is its caller's to keep, and
\* may have been another when the company chose.
set_audit_retention(t, days) ==
    /\ chosen[t] # days /\ chosen' = [chosen EXCEPT ![t] = days]
    /\ UNCHANGED << day, trail, active, pass, erred >>

set_retention(t, days) == (days # None => days \in 1..MaxDays) /\ set_audit_retention(t, days)

set_active(t) ==
    /\ active' = IF t \in active THEN active \ {t} ELSE active \cup {t}
    /\ UNCHANGED << day, trail, chosen, pass, erred >>

\* MUTANT of Expired: a day is spared.
Expired_Spares(s, window) == { d \in trail[s] : d + 1 < day - window }

Expired(s, window) == { d \in trail[s] : d < day - window }

Prunes(s, window) == trail' = [trail EXCEPT ![s] = @ \ Expired(s, window)]

\* The server's own trail, and the rows of the companies as they stand now.
prune_once ==
    /\ pass = << >>
    /\ Prunes(Host, effective_retention(None))
    /\ \E order \in { q \in [1..Cardinality(Tenants) -> Tenants] : { q[i] : i \in DOMAIN q } = Tenants } :
           pass' = [i \in DOMAIN order |->
                       [tenant |-> order[i], active |-> order[i] \in active, chosen |-> chosen[order[i]]]]
    /\ erred' = FALSE
    /\ UNCHANGED << day, chosen, active >>

\* A company that is not active is passed over.
prune_tenant ==
    /\ pass # << >>
    /\ LET v == Head(pass) IN
       IF v.active THEN Prunes(v.tenant, effective_retention(v.chosen)) ELSE UNCHANGED trail
    /\ pass' = Tail(pass)
    /\ UNCHANGED << day, chosen, active, erred >>

\* Its database cannot be reached: the companies after it wait for the next
\* pass.
prune_fails ==
    /\ pass # << >> /\ Head(pass).active
    /\ pass' = << >> /\ erred' = TRUE
    /\ UNCHANGED << day, trail, chosen, active >>

RetentionNext ==
    \/ tomorrow \/ prune_once \/ prune_tenant \/ prune_fails
    \/ \E t \in Tenants : \/ set_active(t)
                          \/ \E days \in (1..MaxDays) \cup {None} : set_retention(t, days)
                          \/ \E days \in Windows : set_audit_retention(t, days)

----------------------------------------------------------------------------

Init == PolicyInit /\ RetentionInit

Next == (PolicyNext /\ UNCHANGED retention) \/ (RetentionNext /\ UNCHANGED policy)

Spec == Init /\ [][Next]_<< policy, retention >>

----------------------------------------------------------------------------
(* Properties.                                                             *)

\* What a company chose is never weaker than the deployment's policy at that
\* time: a password, an age, a reuse or another attempt that the company's
\* rules let through, the deployment's would have, and what the company left
\* open follows the deployment wherever it goes (PasswordPolicy::resolve,
\* check_override).
PoliciesHold ==
    /\ Admits(resolve(vetted, row), vetted)
    /\ \A c \in Classes : row.require[c] = None => resolve(config, row).require[c] = config.require[c]

\* A visit that succeeds leaves nothing in its trail that is older than its
\* window, and a row goes only in such a visit and only once it is older: than the
\* days its company had chosen when the pass began, or the cap if that is less,
\* and than the server's where it had chosen none or no day at all, and never
\* younger than a day.  A company that is not active, and whatever a failed pass
\* had still to visit, is left alone (effective_retention, prune_once).
PrunedAsChosen ==
    [][\A s \in Scopes :
          LET own == Head(pass).chosen
              due == IF pass = << >> THEN s = Host ELSE s = Head(pass).tenant /\ Head(pass).active
              window == IF s # Host /\ own # None /\ own > 0
                          THEN IF own \in 1..MaxDays THEN own ELSE AtLeast(1, MaxDays)
                          ELSE AtLeast(1, RetentionDays)
              gone == trail[s] \ trail'[s]
          IN  /\ gone # {} => due /\ ~erred' /\ \A d \in gone : day - d > window
              /\ due /\ pass' # pass /\ ~erred' => \A d \in trail'[s] : day - d <= window]_retention
=============================================================================
