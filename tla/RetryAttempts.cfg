SPECIFICATION Spec
CONSTANTS
    m1 = m1
    m2 = m2
    m3 = m3
    c1 = c1
    c2 = c2
    c3 = c3
    s1 = s1
    s2 = s2
    Msg <- ThreeMsgs
    Copy <- ThreeCopies
    Slot <- TwoSlots
    NoCopy = NoCopy
    NoMsg = NoMsg
    Policy = "retry"
    MaxAttempts = 2
    Delayed = TRUE
    DeadLetter = TRUE
    DlxDeclared = TRUE
    Rpc = TRUE
    QueueNameMatches = TRUE
    Misaddressed <- OnlyM3
    WantsReply <- TwoMsgs
    Malformed <- OnlyM2
    Expiring <- NoMsgs
    Outcomes <- AllOutcomes
    QueueMayExpire = TRUE
    MaxLosses = 1
    MaxRefusals = 2
SYMMETRY CopySlotSymmetry
INVARIANT AttemptsRespected
CHECK_DEADLOCK FALSE
