CONSTANTS
    MAX_NUM_ROUTES = 4
    msgID_SHIFT = 2
    MAX_RCV_PKT_ENTRIES = 2
    MYRPKT_MTU = 24
    PktHdrSize = 8
    DBL_BUF_SIZE = 40
    MaxArrivals = 4
    Scenarios <- Cases
SPECIFICATION FairSpec
INVARIANT UpIntact
INVARIANT UpInOrder
PROPERTY EventuallyTaken
