SPECIFICATION FairSpec
CONSTANTS
    w1 = w1
    w2 = w2
    m1 = m1
    i1 = i1
    i2 = i2
    r1 = r1
    r2 = r2
    r3 = r3
    Workers = {w1, w2}
    Recoveries = {}
    Instruments = {i1, i2}
    LastDay = 1
    Rows = {r1, r2, r3}
    MaxPosting = 1
    MaxFaults = 1
    Free = Free
    Orphan = Orphan
    NoRow = NoRow
PROPERTIES
    RowsEnd
    ForwardComesOut
