SPECIFICATION Spec
CONSTANTS
    s1 = s1  s2 = s2  sub = sub
    k1 = k1  k2 = k2
    f1 = f1  f2 = f2
    w = w
    Keys = {k1, k2}
    Values = {v}
    Mutations = {m1, m2}
    Fingerprints = {fp}
    Scopes = {s1, s2, sub}
    FilesystemScopes = {s1, s2}
    Writers = {w1}
    LeaseIds = {l}
    LeaseOps = {o1, o2, o3}
    Durations = {1, 2}
    SingleWriter = TRUE
    MaxLeaseDuration = 1
    MaxLeaseHistory = 4
    MaxChangeHistory = 3
    MaxTime = 1
    MaxRevision = 6
    Filesystems = {f1, f2}
    FilesystemOf <- TwoFilesystems
    Watchers = {w}
    WatchedBy <- FirstWatched
    MaxEvents = 2
    MaxKeys = 3
INVARIANTS
    CacheCoherent
    
SYMMETRY IdentitySymmetry
CHECK_DEADLOCK FALSE
