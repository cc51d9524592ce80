SPECIFICATION Spec
CONSTANTS
    m1 = m1
    m2 = m2
    m3 = m3
    c1 = c1
    c2 = c2
    c3 = c3
    s1 = s1
    s2 = s2
    Msg <- TwoMsgs
    Copy <- ThreeCopies
    Slot <- TwoSlots
    NoCopy = NoCopy
    NoMsg = NoMsg
    Policy = "retry"
    MaxAttempts = 3
    Delayed = FALSE
    DeadLetter = FALSE
    DlxDeclared = TRUE
    Rpc = TRUE
    QueueNameMatches = TRUE
    Misaddressed <- NoMsgs
    WantsReply <- TwoMsgs
    Malformed <- OnlyM2
    Expiring <- OneMsg
    Outcomes <- AllOutcomes
    QueueMayExpire = FALSE
    MaxLosses = 2
    MaxRefusals = 1
SYMMETRY CopySlotSymmetry
INVARIANT RpcAnswered
INVARIANT NoLoss
CHECK_DEADLOCK FALSE
