SPECIFICATION Spec
CONSTANTS
    Root = "root"
    MaxDirectoryAncestorDepth = 3
    c1 = c1
    c2 = c2
    c3 = c3
    Clients <- MCClients
    ByteOrder <- MCByteOrder
    Scenarios <- MCScenarios
    DefinitiveAbortRetries = 1
    AmbiguousRecoveryAttempts = 1
    MaxLeaseDuration = 4
    MaxLeaseHistory = 3
    MaxChangeHistory = 2
    MaxPollEvents = 2
    MaxPollKeys = 3

    
PROPERTIES
    PublishesInOrder
    ScansComplete
