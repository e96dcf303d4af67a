SPECIFICATION MCSpec
CONSTANTS
    t1 = t1
    t2 = t2
    t3 = t3
    inv = inv
    Txns <- MCTxns
    Keys <- MCKeys
    Default <- MCDefault
    Overrides <- CoherentOverrides
    MaxYear = 2
    MonthsPerYear = 2
    NoOverride = NoOverride
    Jobs = {j1, j2}
    j2 = j2
    Houses = {a}
    MaxDeliveries = 2
    MaxLost = 1
    Appliers <- MCAppliers
    Servers = {"web", "worker"}
    Server <- MCServer
    Files = {1, 2}
    PoolSize = 2
    MaxFaults = 2
    Modules = {1, 2, 3}
    App = App
    Lists <- MCLists
    ReorderLevel = 1
    MaxLevel = 3
    MinOrderQty = 2
    OrderMultiple = 2
    MaxQty = 6
    None = None
    b1 = b1
    b2 = b2
    j1 = j1
    w1 = w1
    w2 = w2
    Widgets = {w1, w2, w3}
    Here = {w1, w2}
    Defaults <- MCDefaults
    Guarded = {w2}
    MaxWidgets = 2
    Orders = {o1, o2}
    Runs = {w1, w2}
INVARIANTS
    GapFree
    OneShortageOneDraft
    ArtifactsTie
    BootIsSound
    ShownIsSound
PROPERTIES
    IssuesInOrder
    WorkEnds
CHECK_DEADLOCK FALSE
