CONSTANTS
    MAX_NUM_ROUTES = 4
    msgID_SHIFT = 2
    MAX_SND_PKT_ENTRIES = 2
    MaxPackets = 2
    MAX_RCV_PKT_ENTRIES = 2
    MYRPKT_MTU = 24
    PktHdrSize = 8
    DBL_BUF_SIZE = 40
    Shapes <- OneShape
    MaxArrivals = 2
    Traffic <- SomeTraffic
SPECIFICATION FairSpec
PROPERTY ImplementsSndRing
PROPERTY ImplementsRcvRing
 
CHECK_DEADLOCK FALSE
