SPECIFICATION FairSpec
CONSTANTS
    Token = {t1, t2, t3, t4}
    NoToken = NoToken
    Policy = {config, logging}
    Required = {config, logging}
    Duplicated = config
    MaxLegacy = 3
    Retries = 3
    MaxFaults = 3
INVARIANTS
    TypeOK
    SuccessMeansUsable
PROPERTIES
    StaysUsable
    ImplementsTask
    OneTokenRemains
    OthersSpared
    EventuallyMended
