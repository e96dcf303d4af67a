SPECIFICATION MCSpec
CONSTANTS
    t1 = t1
    t2 = t2
    u1 = u1
    u2 = u2
    u3 = u3
    s1 = s1
    s2 = s2
    Threads = {t1, t2}
    Sessions = {s1}
    Uuids = {u1, u2, u3}
    SaleQtys = {1}
    CashAmounts = {}
    Counts = {0, 1}
    MaxOnHand = 1
    MaxQty = 1
    CostPerCent = 1
    MaxKeys = 3
    Prices = {670, 1030}
    Baskets <- MCBaskets
    Splits <- MCSplits
    Variances <- MCVariances
    MaxReceipts = 0
SYMMETRY Symmetric
INVARIANTS
    RefundsWithinSale
