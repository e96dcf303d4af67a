SPECIFICATION FairSpec
CONSTANTS
    Docs = {d1, d2, d3}
    Zero = {d3}
    Sweepers = {p1}
    MaxCrashes = 1
    MaxClosings = 1
PROPERTIES
    ImplementsBooks
    RequestsEnd
