SPECIFICATION FairSpec
CONSTANTS
    m1 = m1
    d1 = d1
    CRs = {m1, d1}
    MaxFaults = 2
    LookUpsFail = TRUE
INVARIANTS
    TypeOK
    RepairedByTheNext
PROPERTIES
    EventuallyKept
