CONSTANTS
    MAX_SND_PKT_ENTRIES = 3
    MaxPackets = 6
    Scenarios <- Cases
SPECIFICATION FairSpec
INVARIANT PageNotShared
PROPERTY PageFrozen
PROPERTY InOrderOnce
 
CHECK_DEADLOCK FALSE
