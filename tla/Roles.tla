-------------------------------- MODULE Roles ---------------------------------
(***************************************************************************)
(* Roles and permissions of one company (crates/nebula/src/auth,           *)
(* administration/users.rs, administration/roles.rs): what a user may do   *)
(* comes from roles and from overrides of the user's own; administrators   *)
(* change both in several statements, some in a transaction.  The          *)
(* permissions the handlers ask for are one here, Administer.              *)
(***************************************************************************)
EXTENDS Naturals, FiniteSets

CONSTANTS
    Users,
    Custom,     \* the roles the company makes
    Admin,      \* the static role
    Founder,
    None,
    MaxActs     \* bound: what administrators start

VARIABLES
    known,      \* the users on record
    roles,      \* the roles that exist
    members,    \* user_roles
    grants,     \* permission_grants of Administer, of a role or a user
    flag,       \* the users with is_tenant_admin
    task,       \* task[a]: what administrator a is doing
    crossed,    \* the users and roles that two of them wrote at once
    drifted,    \* the users whose flag was last set, or left, apart from the role
    lent,       \* somebody who is not an Admin took the role from another
    acts

vars == << known, roles, members, grants, flag, task, crossed, drifted, lent, acts >>

Holders == Users \cup Custom
Grant(h, yes) == [holder |-> h, is_granted |-> yes]
Grants == [holder : Holders, is_granted : BOOLEAN]

Idle == [step |-> "idle", target |-> None, unassign |-> {}, assign |-> {}, flag |-> FALSE,
         seen |-> {}, rows |-> {}]

TypeOK ==
    /\ known \subseteq Users /\ roles \subseteq Custom \cup {Admin}
    /\ members \subseteq Users \X (Custom \cup {Admin})
    /\ grants \subseteq Grants
    /\ flag \subseteq Users /\ drifted \subseteq Users
    /\ crossed \subseteq Holders \cup {Admin}
    /\ lent \in BOOLEAN /\ acts \in 0..MaxActs
    /\ task \in [Users -> [step : {"idle", "member", "roles", "replace"}, target : Holders \cup {None},
                           unassign : SUBSET (Custom \cup {Admin}), assign : SUBSET (Custom \cup {Admin}), flag : BOOLEAN,
                           seen : SUBSET Grants, rows : SUBSET Grants]]

Init ==
    /\ known = {Founder} /\ roles = {Admin}
    /\ members = { << Founder, Admin >> } /\ flag = {Founder}
    /\ grants = {}
    /\ task = [a \in Users |-> Idle]
    /\ crossed = {} /\ drifted = {} /\ lent = FALSE
    /\ acts = 0

----------------------------------------------------------------------------
(* What a user may do.                                                     *)

roles_of(u) == { r \in roles : << u, r >> \in members }
user_overrides(u) == { g \in grants : g.holder = u }

ByRoles(u) == Admin \in roles_of(u) \/ \E r \in roles_of(u) : Grant(r, TRUE) \in grants

\* An override of the user's own comes first, whichever row is found; the
\* answers it can give.
is_granted(u) ==
    IF user_overrides(u) # {} THEN { g.is_granted : g \in user_overrides(u) } ELSE { ByRoles(u) }

\* The whole set: what the roles give, then each override in the order found.
granted_permissions(u) ==
    IF user_overrides(u) = {} THEN { ByRoles(u) } ELSE { g.is_granted : g \in user_overrides(u) }

Administers(a) == a \in known /\ task[a] = Idle /\ TRUE \in is_granted(a)

Acts == acts < MaxActs /\ acts' = acts + 1

----------------------------------------------------------------------------
(* What an administrator starts.                                           *)

\* What two tasks must not both be writing.
Keys(t) == (IF t.target = None THEN {} ELSE {t.target}) \cup (t.unassign \cap {Admin})

Starts(a, t) ==
    /\ Administers(a) /\ Acts
    /\ task' = [task EXCEPT ![a] = t]
    /\ crossed' = crossed \cup UNION { Keys(t) \cap Keys(task[b]) : b \in Users \ {a} }
    /\ lent' = (lent \/ (Admin \in t.unassign /\ Admin \notin roles_of(a)))
    /\ UNCHANGED << known, roles, members, grants, flag >>

\* A new teammate: the flag is what the request says, and no role comes with it.
create_user(a, u, yes) ==
    /\ Administers(a) /\ Acts /\ u \in Users \ known
    /\ known' = known \cup {u}
    /\ flag' = IF yes THEN flag \cup {u} ELSE flag
    /\ drifted' = IF yes THEN drifted \cup {u} ELSE drifted
    /\ UNCHANGED << roles, members, grants, task, crossed, lent >>

\* MUTANT of Revocable: administrators may revoke themselves.
Revocable_Self(a, u) == TRUE

\* "Refuses to revoke yourself."
Revocable(a, u) == a # u

set_user_admin(a, u, yes) ==
    /\ yes \/ Revocable(a, u)
    /\ Starts(a, [Idle EXCEPT !.step = "member", !.target = u, !.flag = yes,
                              !.assign = IF yes THEN {Admin} ELSE {}, !.unassign = IF yes THEN {} ELSE {Admin}])
    /\ UNCHANGED drifted

\* The roles that are not in the list go, those in the list come.
set_user_roles(a, u, list) ==
    /\ Revocable(a, u) /\ list \subseteq roles
    /\ Starts(a, [Idle EXCEPT !.step = "roles", !.target = u, !.assign = list, !.unassign = roles_of(u) \ list])
    /\ drifted' = drifted \cup {u}

\* In one transaction the rows of the holder that the delete sees are replaced.
Replaces(a, h, rows) ==
    /\ Starts(a, [Idle EXCEPT !.step = "replace", !.target = h, !.rows = rows,
                              !.seen = { g \in grants : g.holder = h }])
    /\ UNCHANGED drifted

set_user_permissions(a, u, granted, denied) ==
    /\ Revocable(a, u) /\ ~(granted /\ denied)
    /\ Replaces(a, u, { Grant(u, yes) : yes \in (IF granted THEN {TRUE} ELSE {}) \cup (IF denied THEN {FALSE} ELSE {}) })

set_role_permissions(a, r, granted) ==
    /\ r \in roles \cap Custom
    /\ Replaces(a, r, IF granted THEN {Grant(r, TRUE)} ELSE {})

----------------------------------------------------------------------------
(* The statements that follow.                                             *)

\* assign_role and unassign_role commit on their own; the list is not a
\* transaction.
unassign_role(a) ==
    /\ task[a].step \in {"member", "roles"}
    /\ \E r \in task[a].unassign :
         /\ members' = members \ { << task[a].target, r >> }
         /\ task' = [task EXCEPT ![a].unassign = @ \ {r}]
    /\ UNCHANGED << known, roles, grants, flag, crossed, drifted, lent, acts >>

\* A role that was deleted meanwhile ends the request with an error.
assign_role(a) ==
    /\ task[a].step \in {"member", "roles"} /\ task[a].unassign = {}
    /\ \E r \in task[a].assign :
         IF r \in roles
         THEN members' = members \cup { << task[a].target, r >> } /\ task' = [task EXCEPT ![a].assign = @ \ {r}]
         ELSE UNCHANGED members /\ task' = [task EXCEPT ![a] = Idle]
    /\ UNCHANGED << known, roles, grants, flag, crossed, drifted, lent, acts >>

roles_set(a) ==
    /\ task[a].step = "roles" /\ task[a].unassign = {} /\ task[a].assign = {}
    /\ task' = [task EXCEPT ![a] = Idle]
    /\ UNCHANGED << known, roles, members, grants, flag, crossed, drifted, lent, acts >>

\* The flag follows the role in a statement of its own, whatever it was before.
set_tenant_admin(a) ==
    /\ task[a].step = "member" /\ task[a].unassign = {} /\ task[a].assign = {}
    /\ flag' = IF task[a].flag THEN flag \cup {task[a].target} ELSE flag \ {task[a].target}
    /\ task' = [task EXCEPT ![a] = Idle] /\ drifted' = drifted \ {task[a].target}
    /\ UNCHANGED << known, roles, members, grants, crossed, lent, acts >>

\* What another transaction has deleted since is not deleted again, and what
\* it inserted is not seen.
commit_grants(a) ==
    /\ task[a].step = "replace"
    /\ grants' = (grants \ task[a].seen) \cup task[a].rows
    /\ task' = [b \in Users |-> IF b = a THEN Idle ELSE [task[b] EXCEPT !.seen = @ \ task[a].seen]]
    /\ UNCHANGED << known, roles, members, flag, crossed, drifted, lent, acts >>

\* A request whose connection fails leaves the statements it has committed.
broken(a) ==
    /\ task[a].step \in {"member", "roles", "replace"}
    /\ task' = [task EXCEPT ![a] = Idle]
    /\ drifted' = IF task[a].step = "member" THEN drifted \cup {task[a].target} ELSE drifted
    /\ UNCHANGED << known, roles, members, grants, flag, crossed, lent, acts >>

\* A new role is nobody's target yet.
create_role(a, r, granted) ==
    /\ Administers(a) /\ Acts /\ r \in Custom \ roles
    /\ \A b \in Users : task[b].target # r /\ r \notin task[b].assign
    /\ roles' = roles \cup {r}
    /\ grants' = { g \in grants : g.holder # r } \cup (IF granted THEN {Grant(r, TRUE)} ELSE {})
    /\ members' = { m \in members : m[2] # r }
    /\ UNCHANGED << known, flag, task, crossed, drifted, lent >>

\* The static role cannot be deleted; one transaction takes the others' rows.
delete_role(a, r) ==
    /\ Administers(a) /\ Acts /\ r \in roles \cap Custom
    /\ roles' = roles \ {r}
    /\ members' = { m \in members : m[2] # r }
    /\ grants' = { g \in grants : g.holder # r }
    /\ UNCHANGED << known, flag, task, crossed, drifted, lent >>

----------------------------------------------------------------------------

Statements(a) == unassign_role(a) \/ assign_role(a) \/ roles_set(a) \/ set_tenant_admin(a)
                 \/ commit_grants(a) \/ broken(a)

Next ==
    \E a \in Users :
      \/ \E u \in Users, yes \in BOOLEAN : create_user(a, u, yes)
      \/ \E u \in known : \/ \E yes \in BOOLEAN : set_user_admin(a, u, yes)
                          \/ \E list \in SUBSET roles : set_user_roles(a, u, list)
                          \/ \E granted, denied \in BOOLEAN : set_user_permissions(a, u, granted, denied)
      \/ \E r \in Custom : \/ \E granted \in BOOLEAN : set_role_permissions(a, r, granted) \/ create_role(a, r, granted)
                           \/ delete_role(a, r)
      \/ Statements(a)

Spec == Init /\ [][Next]_vars

----------------------------------------------------------------------------

\* The two ways of asking agree and neither depends on the order of rows:
\* whether a user may do something and whether it is among all the user may do -
\* unless two administrators replaced the user's own rows at once, which leaves
\* the rows of both.
AsksAgree ==
    \A u \in Users \ crossed : Cardinality(is_granted(u)) = 1 /\ is_granted(u) = granted_permissions(u)

\* The company keeps an Admin, whoever is created and whatever is assigned,
\* revoked, denied and deleted - unless two took the role away at once, or somebody
\* who is not an Admin took it.  A set_user_admin that completes leaves the flag on
\* the user as the role is, even if the user was created with the flag alone, was
\* given roles as a list or met a request that broke off before; and so it stays
\* until the next of these, unless two wrote the user at once.
AdminsRemain ==
    /\ Admin \in crossed \/ lent \/ \E u \in Users : << u, Admin >> \in members
    /\ \A u \in Users \ (crossed \cup drifted) :
         (\A a \in Users : task[a].target # u) => (u \in flag <=> << u, Admin >> \in members)

=============================================================================
