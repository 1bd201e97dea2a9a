SPECIFICATION Spec
CONSTANTS
    r1 = r1
    r2 = r2
    k1 = k1
    k2 = k2
    v1 = v1
    v2 = v2
    None = None
    o1 = o1
    Requests = {r1, r2}
    Keys = {k1}
    Views = {v1, v2}
    SideOf <- MCSideOf
    OperationSide <- MCOperationSide
    Operations = {}
    Prices = {1, 2}
    Horizons = {1, 2}
    LastDay = 3
    QuoteDays = {0, 1}
    CandleDays = {0, 2}
    MaxRecords = 2
    MaxLinks = 0
SYMMETRY RequestSymmetry
INVARIANTS
    TypeOK
    OneRecordPerKey
    BaselineWasKnown
    OutcomesAreMature
PROPERTIES
    ReadyLostToOverlapOnly
