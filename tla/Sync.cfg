SPECIFICATION Spec
CONSTANTS
    s1 = s1
    s2 = s2
    k1 = k1
    k2 = k2
    v1 = v1
    v2 = v2
    g1 = g1
    g2 = g2
    Service <- TwoServices
    Key <- TwoKeys
    YamlKey = {}
    Val <- TwoVals
    Route <- TwoRoutes
    Consumer <- TwoConsumers
    NoRow = NoRow
    MaxRows = 3
    MaxManifests = 2
    MaxEdits = 2
    MaxFailures = 1
SYMMETRY SyncSymmetry
INVARIANT ManifestApplied
INVARIANT ReloadAfterChange
PROPERTY LockedContentKept
PROPERTY OwnRowsOnly
CHECK_DEADLOCK FALSE
