SPECIFICATION FairSpec
CONSTANTS
    Conns = {c1, c2}
    Fds = {3, 4, 5, 6}
    RingSize = 4
    BufferSize = 2
    Traffics <- OneOrTwoClients
    NoConn = NoConn
    c1 = c1
    c2 = c2
INVARIANT Consistent
INVARIANT AckedIsKept
INVARIANT InOrderDelivery
INVARIANT NoLostSignal
PROPERTY Served
