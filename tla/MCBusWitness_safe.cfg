SPECIFICATION WSpec
CONSTANTS
  NumStreams = 3
  Units <- UnitsGap
  IdxSpan = 4
  TxBufCap = 1
  KSend = 1
  KRecv = 1
  Faults = {"dup"}
  MaxFaults = 1
INVARIANTS TypeOK DeliveredIntact NoStall RetransmitWindow Causality WTypeOK
PROPERTIES PoisonJustified NackOnlyForLost ImplementsPipe ReportsOnce
CHECK_DEADLOCK FALSE
