SPECIFICATION MCSpec
CONSTANTS
    Names = {n1, n2}
    Registrations = {r1, r2}
    Lookups = {l1}
    Writers = {w1}
    Users = {u1, u2}
    Founder = u1
    Custom = {c1}
    Admin = Admin
    Requests = {q1, q2}
    Passwords = {a, b, c}
    Codes = {x, y}
    Tokens = {1, 2}
    MaxTenants = 1
    MaxFaults = 1
    MaxChanges = 6
    HistoryCount = 3
    MaxFailed = 2
    MaxActs = 4
    Shipped <- Default
    Deployments <- MCDeployments
    Lengths <- MCLengths
    Days <- MCDays
    Counts = {0}
    Attempts = {3}
    Seconds = {1}
    RetentionDays = 1
    MaxDays = 2
    Windows = {0, 3}
    LastDay = 3
    None = None
SYMMETRY Symmetric
INVARIANTS
    TenanciesSound
    PermissionsSound
    CredentialsEnd
    DirectoryFollows
    RolesHold
    PoliciesHold
PROPERTIES
    PrunedAsChosen
CHECK_DEADLOCK FALSE
