SPECIFICATION Spec
CONSTANTS
    o1 = o1
    o2 = o2
    g1 = g1
    g2 = g2
    Orders = {o1, o2}
    Lines <- MCLines
    OrderOf <- MCOrderOf
    GateOf <- MCGateOf
    Ordered <- MCOrdered
    Services <- MCServices
    Gates = {g1, g2}
    Deliveries = {d1, d2}
    Costs = {0}
    MaxQty = 2
    MaxStock = 2
    CostPerCent = 10000
INVARIANTS
    ReservationsBacked
    PromisesKept
