SPECIFICATION Spec
CONSTANTS
    m1 = m1
    m2 = m2
    m3 = m3
    c1 = c1
    c2 = c2
    c3 = c3
    s1 = s1
    s2 = s2
    Msg <- OneMsg
    Copy <- ThreeCopies
    Slot <- TwoSlots
    NoCopy = NoCopy
    NoMsg = NoMsg
    Policy = "retry"
    MaxAttempts = 2
    Delayed = TRUE
    DeadLetter = FALSE
    DlxDeclared = TRUE
    Rpc = FALSE
    QueueNameMatches = TRUE
    Misaddressed <- NoMsgs
    WantsReply <- NoMsgs
    Malformed <- NoMsgs
    Expiring <- NoMsgs
    Outcomes <- OkOrThrow
    QueueMayExpire = TRUE
    MaxLosses = 0
    MaxRefusals = 0
SYMMETRY CopySlotSymmetry
INVARIANT NoLoss
CHECK_DEADLOCK FALSE
