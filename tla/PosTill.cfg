SPECIFICATION MCSpec
CONSTANTS
    t1 = t1
    t2 = t2
    u1 = u1
    u2 = u2
    u3 = u3
    s1 = s1
    s2 = s2
    Threads = {t1, t2}
    Sessions = {s1, s2}
    Uuids = {u1, u2, u3}
    SaleQtys = {1, 2}
    CashAmounts = {1}
    Counts = {0, 2}
    MaxOnHand = 2
    MaxQty = 2
    CostPerCent = 1
    MaxKeys = 2
    Prices = {670, 1030}
    Baskets <- MCBaskets
    Splits <- MCSplits
    Variances <- MCVariances
    MaxReceipts = 3
SYMMETRY Symmetric
INVARIANTS
    RefundsFitSales
    BooksFitSessions
    OncePerKeyAndSession
    TakingsTie
PROPERTIES
    SessionsStand
