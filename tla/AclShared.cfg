SPECIFICATION FairSpec
CONSTANTS
    i1 = i1
    i2 = i2
    u1 = u1
    u2 = u2
    k1 = k1
    k2 = k2
    Inst <- OneInst
    User <- OneUser
    Check <- TwoChecks
    NoInst = NoInst
    HasL2 = TRUE
    MaxRoleChanges = 1
    MaxFaults = 1
    MaxMutations = 1
INVARIANT L2FreshWhenQuiet
PROPERTY CallerAnswered
CHECK_DEADLOCK FALSE
