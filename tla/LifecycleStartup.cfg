SPECIFICATION Spec
CONSTANTS
    t1 = t1
    t2 = t2
    m1 = m1
    m2 = m2
    Topic <- TwoTopics
    RpcTopic <- OnlyT2
    Msg <- TwoMsgs
    TopicOf <- ByTopic
    MaxLosses = 0
INVARIANT NoSilentLoss
CHECK_DEADLOCK FALSE
