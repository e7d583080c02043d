SPECIFICATION FairSpec
CONSTANTS
    Password = {p1, p2, p3}
    None = None
    Stub = Stub
    Retries = 3
    MaxFaults = 4
INVARIANTS
    TypeOK
    CredentialsWork
PROPERTIES
    StaysRegistered
    ImplementsTask
    EventuallyRegistered
