SPECIFICATION FairSpec
CONSTANTS
    pg = pg
    x1 = x1
    x2 = x2
    None = None
    DbType = {pg}
    PhysDb = {x1, x2}
    Plans <- ThreePlans
    Gateway <- TwoResources
    MaxAttempts = 2
    MaxFaults = 2
INVARIANTS
    TypeOK
    SuccessMeansDone
PROPERTIES
    ConfiguredFirst
    PlacedByRules
    DeletedInOrder
    EventuallyBootstrapped
    EventuallyRemoved
