SPECIFICATION Spec
CONSTANTS
    w1 = w1
    w2 = w2
    m1 = m1
    i1 = i1
    i2 = i2
    r1 = r1
    r2 = r2
    r3 = r3
    Workers = {w1, w2}
    Recoveries = {m1}
    Instruments = {i1, i2}
    LastDay = 2
    Rows = {r1, r2, r3}
    MaxPosting = 0
    MaxFaults = 2
    Free = Free
    Orphan = Orphan
    NoRow = NoRow
SYMMETRY WorkerSymmetry
INVARIANTS
    TypeOK
    
    FinishedCyclesPredicted
    PredictionsRestOnFeatures
PROPERTIES
    PredictionsFrozen
