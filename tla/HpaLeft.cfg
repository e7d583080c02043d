SPECIFICATION Spec
CONSTANTS
    c1 = c1
    c2 = c2
    NoCR = NoCR
    CRs = {c1, c2}
    Selected <- Overlapping
INVARIANTS
    SuccessMeansMigrated
