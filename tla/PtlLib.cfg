SPECIFICATION FairSpec
CONSTANTS
    Sizes = {1, 2, 3}
    MAX_MES = 2
    MAX_MDS = 3
    MAX_MSGS = 2
    MaxOffset = 12
    Scenarios <- Cases
CHECK_DEADLOCK FALSE
INVARIANT OkIsWhole
INVARIANT NothingDropped
INVARIANT PendingExact
INVARIANT DepositsApart
PROPERTY AlwaysForward
PROPERTY Retired
 
PROPERTY UpdateSafe
