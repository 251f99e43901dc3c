SPECIFICATION SimSpec
CHECK_DEADLOCK FALSE
CONSTANTS
    n1 = n1
    n2 = n2
    x = x
    y = y
    Node <- Both
    Sender <- First
    Message <- Messages
    MaxSends = 2
    MaxLives = 2
    MaxFlips = 1
INVARIANTS
    ObserverExact
    ArrivesAsPlanned
PROPERTIES
    SimKeepsContract
