SPECIFICATION GwSpec
CONSTANTS
    c1 = c1
    c2 = c2
    default = default
    x1 = x1
    q1 = q1
    k1 = k1
    Call <- Calls
    Event <- Events
    Foreign = Foreign
    MaxLosses = 1
    MaxRuns <- Twice
    Channel <- OneChannel
    Exchange <- OneExchange
    Queue <- OneQueue
    Consumer <- OneConsumer
    BoundTo <- AllToX
    ChannelOf <- OnDefault
    Durable <- Nothing
    MaxAlternates = 1
    Req <- TwoRequests
    EventReq <- SecondIsEvent
    HttpProvider <- OnlyJwt
    Path <- TwoPaths
    Cap = 1
    WsEvent <- ThreeEvents
    Remote <- OnlyBoard
    Def <- EventDefs
    WsProvider <- JwtAndBasic
    MaxSubs = 2
    Frame <- TwoFrames
    jwt = jwt
    basic = basic
    NoProvider = NoProvider
INVARIANTS
    DeclaredBeforeUse
    OwnAnswer
    InFlightExact
    SuccessMeansDone
    SubscriptionsEntitled
PROPERTIES
    ImplementsContract
    CallReturns
    RequestsAnswered
    SessionsEnd
CHECK_DEADLOCK FALSE
