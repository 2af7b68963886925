SPECIFICATION Spec
CONSTANTS
  a = a
  b = b
  Node <- TwoNodes
  Msg <- Msgs
  Src <- Srcs
  Dst <- Dsts
  Size <- Sizes
  Mlen <- Mlens
  RtsPay = 1
  DataPay = 2
  RcvPool = 2
  MaxDataPkts = 2
  P3MsgRetries = 2
  IdMod = 3
  Scenarios <- SafeCases
  MaxRestart = 2
INVARIANT DataIntegrity
INVARIANT OrderedOnce
INVARIANT FinalizedOnce
INVARIANT GrantAccounting
 
INVARIANT BufferBound
INVARIANT NoUnderflow
CHECK_DEADLOCK FALSE
