SPECIFICATION MCSpec
CONSTANTS
    i1 = i1
    i2 = i2
    p2 = p2
    n2 = n2
    Invoices = {i1, i2}
    Payments = {p1, p2}
    Notes = {n1, n2}
    Amounts <- MCAmounts
    Billed <- MCBilled
    Bills <- MCBills
    CreditQtys = {1}
    Prices = {1}
    Tax = 1
    MaxQty = 8
    Overlaps = {TRUE}
INVARIANTS
    NeverOverSettled
CHECK_DEADLOCK FALSE
