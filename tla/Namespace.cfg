SPECIFICATION Spec
CONSTANTS
    m1 = m1
    m2 = m2
    m3 = m3
    Root = "root"
    Mutations <- MCMutations
    Scenarios <- MCScenarios
    ResolveGrant <- MCGrant
    MaxAttempts = 2
    MaxAncestorDepth = 3
    MaxDirectoryAncestorDepth = 4
SYMMETRY Symmetry
INVARIANTS
    NamespaceTypeOK
    RenameNeverCycles
    NamespaceIntact
    OrphansPinned
    PagesComplete
    WalksConsistent
    
PROPERTIES
    CommittedAuthorized
CHECK_DEADLOCK FALSE
