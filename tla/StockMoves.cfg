SPECIFICATION MovesSpec
CONSTANTS
    Moves = {m1, m2, m3, m4}
    Warehouses = {w1, w2}
    Lots = {a, b}
    Serials = {x, y}
    Tracking = {{}, {"batches"}, {"serials"}}
    NoMove = NoMove
    NoWarehouse = NoWarehouse
    NoLot = NoLot
    NoCost = NoCost
    EnteredQtys = {0, 1}
    EnteredCosts = {0, 1}
    MaxLines = 2
    MaxTrackedLines = 1
    MaxEntered = 3
    MaxDrafts = 1
    ReversalDepth = 2
    o1 = o1
    o2 = o2
    g1 = g1
    l1 = l1
    l2 = l2
    l3 = l3
    Orders = {}
    Lines = {}
    OrderOf <- MCOrderOf
    GateOf <- MCGateOf
    OrderQtys = {}
    Services = {}
    Gates = {}
    Receipts = {}
    Returns = {}
    Invoices = {}
    Costs = {}
    MaxQty = 0
    MaxStock = 0
    CostPerCent = 1
SYMMETRY AlikeMoves
INVARIANTS
    StockAddsUp
    ReversalUndoes
CHECK_DEADLOCK FALSE
