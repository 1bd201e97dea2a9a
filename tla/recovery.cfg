SPECIFICATION FairSpec
CONSTANTS
    t1 = t1
    t2 = t2
    i1 = i1
    i2 = i2
    Tasks = {t1, t2}
    Instruments = {i1, i2}
    LastDay = 2
    MinCoverage = 2
    Ttl = 2
    MaxStall = 1
    Nobody = Nobody
    Orphan = Orphan
INVARIANTS
    TypeOK
    CommitsHoldLock
    SessionIsNext
PROPERTIES
    OnlyOwnerReleases
    LockComesFree
