SPECIFICATION Spec
CONSTANTS
    r1 = r1
    r2 = r2
    k1 = k1
    k2 = k2
    v1 = v1
    v2 = v2
    None = None
    o1 = o1
    Requests = {r1}
    Keys = {k1}
    Views = {v1, v2}
    SideOf <- MCSideOf
    OperationSide <- MCOperationSide
    Operations = {}
    Prices = {1}
    Horizons = {5}
    LastDay = 7
    QuoteDays = {}
    CandleDays = {0, 5}
    MaxRecords = 1
    MaxLinks = 0
INVARIANTS
    MaturesAfterCapture
