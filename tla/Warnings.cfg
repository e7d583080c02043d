SPECIFICATION FairSpec
CONSTANTS
    g1 = g1
    g2 = g2
    g3 = g3
    g4 = g4
    Timeout = Timeout
    Invalid = Invalid
    None = None
    Senders = {g1, g2, g3, g4}
    Reasons = {Timeout, Invalid}
    QueueLength = 2
    MaxTries = 2
    Burst = 2
INVARIANTS
    TypeOK
    OneEventPerReason
    NothingDropped
PROPERTIES
    CountsEveryWarning
    ImplementsTally
    WritingEnds
