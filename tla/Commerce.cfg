SPECIFICATION MCSpec
CONSTANTS
    Requisitions = {r1}
    Rfqs = {q1, q2}
    Suppliers = {s1}
    Purchases = {1, 2, 3}
    Requests = {c1, c2}
    Lists = {l1}
    ListedLines = {{}, {"a"}, {"b"}}
    Partners = {p1}
    PricedLists = {1, 2}
    LineSets <- MCLineSets
    Queries <- MCQueries
    Currency = "EUR"
    Window = {1}
    ItemPrices = {100}
    Groups = {}
    Quotations = {f1}
    Orders = {o1, o2}
    MaxQty = 2
    Limits = {0, 2, 99}
    Unlimited = 99
    None = None
SYMMETRY Symmetric
INVARIANTS
    OrdersAreClaimed
    ResolvesByTheRule
PROPERTIES
    CreditHeld
    
CHECK_DEADLOCK FALSE
