SPECIFICATION Spec
CONSTANTS
    m1 = m1
    d1 = d1
    CRs = {m1, d1}
    MaxFaults = 0
    LookUpsFail = FALSE
INVARIANTS
    SuccessMeansKept
