SPECIFICATION Spec
CHECK_DEADLOCK FALSE
CONSTANTS
    p1 = p1
    a1 = a1
    a2 = a2
    NoAddr = NoAddr
    Peer <- OnePeer
    Addr <- TwoAddrs
    Bootstrap <- AtFirst
    MaxRpc = 3
    MaxConn = 2
    MaxIdle = 1
    MaxVersion = 2
INVARIANTS
    AnswersMatch
    IdleIsClean
    ReceivedWhereResolved
PROPERTIES
    ImplementsTransport
    BookFollowsView
