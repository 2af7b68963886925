SPECIFICATION FairSpec
CONSTANT N = 4
CONSTANT Scenarios <- MCScenarios
CHECK_DEADLOCK FALSE
INVARIANT BarrierSafe
 
PROPERTY AllReturn
