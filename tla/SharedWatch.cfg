SPECIFICATION FairSpec
CONSTANTS
    maas = maas
    dbaas = dbaas
    m1 = m1
    m2 = m2
    NoCR = NoCR
    Kinds = {maas, dbaas}
    CRs = {m1, m2}
    KindOf <- OneKindOf
    Declared <- OneKindDeclared
    MayLackLabels = {m2}
    MaxRv = 3
    MaxQueued = 1
    Closing = {maas}
    MaxRetry = 1
    StatusSubresource = FALSE
INVARIANTS
    TypeOK
    OkMeansReconciled
    OnlyWaitersRegistered
    EventsInOrder
    DeliveryAfterRegistration
PROPERTIES
    OwnerKeepsStatus
    Terminates
    ImplementsDeployHook
