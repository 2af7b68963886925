SPECIFICATION FairSpec
CONSTANTS
  a = a
  b = b
  Node <- TwoNodes
  Msg <- Msgs
  Src <- Srcs
  Dst <- Dsts
  Size <- Sizes
  Mlen <- Mlens
  RtsPay = 1
  DataPay = 2
  RcvPool = 2
  MaxDataPkts = 2
  P3MsgRetries = 2
  IdMod = 3
  Scenarios <- LiveCases
  MaxRestart = 6
PROPERTY EventuallyQuiet
CHECK_DEADLOCK FALSE
