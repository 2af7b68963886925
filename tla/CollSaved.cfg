SPECIFICATION FairSpec
CONSTANT N = 4
CONSTANT Scenarios <- Pairs
CHECK_DEADLOCK FALSE
PROPERTY AllReturn
