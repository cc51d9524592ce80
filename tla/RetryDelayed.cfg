SPECIFICATION FairSpec
CONSTANTS
    m1 = m1
    m2 = m2
    m3 = m3
    c1 = c1
    c2 = c2
    c3 = c3
    s1 = s1
    s2 = s2
    Msg <- OneMsg
    Copy <- ThreeCopies
    Slot <- TwoSlots
    NoCopy = NoCopy
    NoMsg = NoMsg
    Policy = "retry"
    MaxAttempts = 2
    Delayed = TRUE
    DeadLetter = TRUE
    DlxDeclared = TRUE
    Rpc = FALSE
    QueueNameMatches = TRUE
    Misaddressed <- NoMsgs
    WantsReply <- NoMsgs
    Malformed <- NoMsgs
    Expiring <- NoMsgs
    Outcomes <- NoRequeue
    QueueMayExpire = FALSE
    MaxLosses = 1
    MaxRefusals = 1
INVARIANT TypeOK
INVARIANT NoLoss
INVARIANT OneFate
PROPERTY EventuallySettled
CHECK_DEADLOCK FALSE
