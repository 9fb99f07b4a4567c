SPECIFICATION Spec
CONSTANTS
    m1 = m1  m2 = m2  m3 = m3
    k1 = k1  c1 = c1  c2 = c2  c3 = c3
    create = create  update = update  remove = remove
    Keys = {k1}
    Mutations = {m1, m2, m3}
    Values <- AllValues
    Fingerprints = {create, update, remove}
    Operations <- Lifecycle
    ChangeOf <- ThreeChanges
    KeyOf <- OneKey
    Scopes = {s}
    FilesystemScopes = {s}
    Writers = {w1}
    LeaseIds = {l}
    LeaseOps = {o1, o2}
    Durations = {1}
    SingleWriter = TRUE
    MaxLeaseDuration = 2
    MaxLeaseHistory = 4
    MaxChangeHistory = 1
    MaxTime = 1
    MaxRevision = 6
    Calls = {c1, c2, c3}
    MaxConflictRetries <- OneRetries
    MaxAmbiguityAttempts = 2
INVARIANTS
    TypeOK
    PublishedOnce
    FencedOrder
    
PROPERTIES
    
    CallsProgress
SYMMETRY CallSymmetry
CHECK_DEADLOCK FALSE
