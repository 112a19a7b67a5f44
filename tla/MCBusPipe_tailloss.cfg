SPECIFICATION FairSpec
CONSTANTS
  NumStreams = 3
  Units <- UnitsWindow
  IdxSpan = 4
  TxBufCap = 2
  KSend = 1
  KRecv = 1
  Faults = {"lose"}
  MaxFaults = 1
PROPERTIES Settled
CHECK_DEADLOCK FALSE
