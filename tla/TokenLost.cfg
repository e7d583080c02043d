SPECIFICATION FairSpec
CONSTANTS
    Token = {t1, t2, t3, t4}
    NoToken = NoToken
    Policy = {config, logging}
    Required = {config, logging}
    Duplicated = config
    MaxLegacy = 2
    Retries = 3
    MaxFaults = 2
PROPERTIES
    EventuallyUsable
