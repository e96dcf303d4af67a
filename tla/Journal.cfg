SPECIFICATION MCSpec
CONSTANTS
    t1 = t1
    t2 = t2
    e1 = e1
    e2 = e2
    e3 = e3
    a1 = a1
    a2 = a2
    a3 = a3
    y1 = y1
    y2 = y2
    i1 = i1
    i2 = i2
    i3 = i3
    Threads = {t1, t2}
    Ids = {e1, e2, e3}
    Accounts = {a1, a2, a3}
    System = {a1, a2}
    Months = {1, 2}
    YearLength = 2
    Years = {y1, y2}
    Lines <- PairsOfLines
    MaxRetired = 1
    Overlapping = {"calendar", "chart"}
    None = None
    Type <- MCType
SYMMETRY Symmetric
INVARIANTS
    BooksTie
    EntriesTie
PROPERTIES
    PostedIsImmutable
    ClosedBooksRest
CHECK_DEADLOCK FALSE
