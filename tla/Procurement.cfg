SPECIFICATION PurchaseSpec
CONSTANTS
    o1 = o1
    o2 = o2
    g1 = g1
    l1 = l1
    l2 = l2
    l3 = l3
    Orders = {o1, o2}
    Lines = {l1, l2, l3}
    OrderOf <- MCOrderOf
    GateOf <- MCGateOf
    OrderQtys = {1}
    Services = {}
    Gates = {g1}
    Receipts = {r1, r2, r3}
    Returns = {t1}
    Invoices = {i1}
    Costs = {0}
    MaxQty = 2
    MaxStock = 1
    CostPerCent = 10000
    Moves = {}
    Warehouses = {}
    Lots = {}
    Serials = {}
    Tracking = {{}}
    NoMove = NoMove
    NoWarehouse = NoWarehouse
    NoLot = NoLot
    NoCost = NoCost
    EnteredQtys = {}
    EnteredCosts = {}
    MaxLines = 0
    MaxTrackedLines = 0
    MaxEntered = 0
    MaxDrafts = 0
    ReversalDepth = 0
SYMMETRY Symmetric
INVARIANTS
    OnOrderIsOpenDemand
    PaidGoodsArrived
    ReceiptsAddUp
