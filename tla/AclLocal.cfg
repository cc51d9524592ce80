SPECIFICATION Spec
CONSTANTS
    i1 = i1
    i2 = i2
    u1 = u1
    u2 = u2
    k1 = k1
    k2 = k2
    Inst <- TwoInsts
    User <- OneUser
    Check <- TwoChecks
    NoInst = NoInst
    HasL2 = FALSE
    MaxRoleChanges = 0
    MaxFaults = 0
    MaxMutations = 2
SYMMETRY InstCheckSymmetry
INVARIANT TypeOK
INVARIANT RamFreshWhenQuiet
CHECK_DEADLOCK FALSE
