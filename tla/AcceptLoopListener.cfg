SPECIFICATION Spec
CONSTANTS
    c1 = c1
    c2 = c2
    c3 = c3
    c4 = c4
    Conns <- MCConns
    ChanCap = 2
PROPERTIES
    ReturnsWhenListenerCloses
CHECK_DEADLOCK FALSE
