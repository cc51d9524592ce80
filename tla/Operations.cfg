SPECIFICATION OpsSpec
CONSTANTS
    owner = owner
    editor = editor
    p1 = p1
    p2 = p2
    m1 = m1
    m2 = m2
    i1 = i1
    i2 = i2
    None = None
    Role <- TwoRoles
    Call <- TwoCalls
    MaxDocs = 3
    Point <- MCPoint
    Error <- MCError
    Edge <- MCEdge
    Instance <- TwoInstances
    MaxHour = 2
    MaxBuffer = 1
    BootHours = 2
    Retain = 1
    RollupRetain = 1
    MaxStops = 1
    Option <- MCOption
    Decorated <- MCDecorated
    MaxRuns = 3
INVARIANTS
    NoEmptyRecord
    RolesAddUp
    SingleRecord
    RollupsSound
PROPERTIES
    RollupsOnlyGrow
    BufferDrains
    RerunChangesNothing
    BootKept
CHECK_DEADLOCK FALSE
