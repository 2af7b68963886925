CONSTANTS
    MAX_NUM_ROUTES = 4
    msgID_SHIFT = 2
    Nodes <- FirstNodes
    Types <- SentTypes
    WrongTypes <- OtherTypes
SPECIFICATION Spec
INVARIANT UpConsistent
PROPERTY OneCopyRestored
PROPERTY IdsTellApart
