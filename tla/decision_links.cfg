SPECIFICATION FairSpec
CONSTANTS
    r1 = r1
    r2 = r2
    k1 = k1
    k2 = k2
    v1 = v1
    v2 = v2
    None = None
    o1 = o1
    Requests = {r1, r2}
    Keys = {k1, k2}
    Views = {v1, v2}
    SideOf <- MCSideOf
    OperationSide <- MCOperationSide
    Operations = {o1}
    Prices = {}
    Horizons = {}
    LastDay = 1
    QuoteDays = {}
    CandleDays = {}
    MaxRecords = 2
    MaxLinks = 2
INVARIANTS
    LinkedInWindow
    OneActiveLink
PROPERTIES
    RequestsEnd
