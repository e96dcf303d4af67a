------------------------------ MODULE MCIdentity ------------------------------
(***************************************************************************)
(* Small instances for TLC of who may do what: the tenants, the accounts   *)
(* of their users, their roles, the requests they make of every endpoint,  *)
(* their password policy and the retention of their audit trail.  They     *)
(* share no state; a behaviour is one of them, "side".                     *)
(***************************************************************************)
EXTENDS Integers, FiniteSets, TLC

CONSTANTS
    Names, Registrations, Lookups, Writers, MaxTenants, MaxFaults,
    Users, Founder, Custom, Admin,
    MaxChanges,     \* bound: what administrators start
    Requests, Passwords, Codes, Tokens, HistoryCount, MaxFailed,
    MaxActs,        \* bound: the requests about a user that start
    Shipped, Deployments, Lengths, Days, Counts, Attempts, Seconds,
    RetentionDays, MaxDays, Windows, LastDay,
    None

VARIABLES side,
    provision, databases, tenant, admins, reg, cache, pools, look, write, stale, lingering, stranded, crowded, faults,
    known, roles, members, grants, flag, change, crossed, drifted, lent, changes,
    user, history, token, listed, task, left, spent, wrong, slips, acts,
    request, revoked, live, pins,
    config, row, vetted,
    day, trail, chosen, active, pass, erred

tenants == << provision, databases, tenant, admins, reg, cache, pools, look, write, stale, lingering, stranded, crowded, faults >>
permissions == << known, roles, members, grants, flag, change, crossed, drifted, lent, changes >>
account == << user, history, token, listed, task, left, spent, wrong, slips, acts >>
call == << request, revoked, live, pins >>
policy == << config, row, vetted >>
retention == << day, trail, chosen, active, pass, erred >>

T == INSTANCE Tenancy
R == INSTANCE Roles WITH MaxActs <- MaxChanges, task <- change, acts <- changes
A == INSTANCE Accounts
H == INSTANCE HttpRequests
C == INSTANCE CompanySettings WITH Classes <- Codes, Tenants <- Names, Host <- "server"

\* Users, roles, rows and names are told apart, and no password is the name of a
\* change; numbers are numbers.
ASSUME IdentityAssumption ==
    /\ None \notin Names /\ None \notin T!Rows /\ MaxTenants \in Nat /\ MaxFaults \in Nat
    /\ Founder \in Users /\ Users \cap Custom = {} /\ Admin \notin Users \cup Custom
    /\ None \notin Users \cup Custom
    /\ "delete" \notin Passwords \cup {None}
    /\ MaxChanges \in Nat /\ MaxActs \in Nat /\ HistoryCount \in Nat /\ MaxFailed \in Nat

\* Policies as the server and a company may write them down.
Policies ==
    [min_length : Nat, require : [Codes -> BOOLEAN], expiry_days : Nat,
     history_count : Nat, lockout_max_failed : Int, lockout_secs : Nat]

\* What is missing is no number, the server is no company and the companies
\* are finitely many.
ASSUME CompanyAssumption ==
    /\ Shipped \in Policies /\ Deployments \subseteq Policies /\ None \notin Int
    /\ Lengths \cup Days \cup Counts \cup Attempts \cup Seconds \subseteq Int
    /\ IsFiniteSet(Names) /\ "server" \notin Names
    /\ RetentionDays \in Nat /\ MaxDays \in Nat /\ Windows \subseteq Int /\ LastDay \in Nat

\* The deployment as it comes, and a strict one.
Default == [min_length |-> 1, require |-> [c \in Codes |-> FALSE], expiry_days |-> 0,
            history_count |-> 0, lockout_max_failed |-> 2, lockout_secs |-> 1]
Strict == [min_length |-> 2, require |-> [c \in Codes |-> TRUE], expiry_days |-> 2,
           history_count |-> 1, lockout_max_failed |-> 1, lockout_secs |-> 2]

MCDeployments == {Default, Strict}
MCLengths == {-1, 3}
MCDays == {-1, 1, 3}

Sides == {"tenants", "roles", "accounts", "requests", "policy", "retention"}

rest == << call, policy, retention >>

MCInit ==
    /\ side \in Sides /\ T!Init /\ R!Init /\ A!Init /\ H!Init /\ C!Init
    /\ side # "tenants" => provision

MCNext ==
    /\ UNCHANGED side
    /\ \/ side = "tenants" /\ T!Next /\ UNCHANGED << permissions, account, rest >>
       \/ side = "roles" /\ R!Next /\ UNCHANGED << tenants, account, rest >>
       \/ side = "accounts" /\ A!Next /\ UNCHANGED << tenants, permissions, rest >>
       \/ side = "requests" /\ H!Next /\ UNCHANGED << tenants, permissions, account, policy, retention >>
       \/ side = "policy" /\ C!PolicyNext /\ UNCHANGED << tenants, permissions, account, call, retention >>
       \/ side = "retention" /\ C!RetentionNext /\ UNCHANGED << tenants, permissions, account, call, policy >>

MCSpec == MCInit /\ [][MCNext]_<< side, tenants, permissions, account, rest >>

Symmetric == Permutations(Requests) \cup Permutations(Names) \cup Permutations(Registrations)

NothingStranded == T!NothingStranded
ServesWhatIsWritten == T!ServesWhatIsWritten
AsksAgree == R!AsksAgree
AdminsRemain == R!AdminsRemain
SessionsEnd == A!SessionsEnd
SpentStaysSpent == A!SpentStaysSpent
DirectoryFollows == A!DirectoryFollows
RolesHold == H!RolesHold
PoliciesHold == C!PoliciesHold
PrunedAsChosen == C!PrunedAsChosen

\* A registration leaves a company whole or not at all, and requests are served
\* by the company row as it was last written (NothingStranded and
\* ServesWhatIsWritten of Tenancy).
TenanciesSound == T!TypeOK /\ NothingStranded /\ ServesWhatIsWritten

\* Questions about permissions agree, whichever of the ways to ask is used,
\* and a company keeps an administrator (AsksAgree and AdminsRemain of Roles).
PermissionsSound == R!TypeOK /\ AsksAgree /\ AdminsRemain

\* Sessions end when the account or its password does, and what was spent
\* once (a refresh token, a recovery code) stays spent (SessionsEnd and
\* SpentStaysSpent of Accounts).
CredentialsEnd == A!TypeOK /\ SessionsEnd /\ SpentStaysSpent
=============================================================================
