SPECIFICATION FairSpec
CONSTANTS
    c1 = c1
    c2 = c2
    c3 = c3
    Call <- ThreeCalls
    MaxWrites = 3
    MaxSignals = 2
    MaxFailures = 1
    MaxLosses = 1
INVARIANT TypeOK
PROPERTY ImplementsRouteTable
PROPERTY SignalTakesEffect
CHECK_DEADLOCK FALSE
