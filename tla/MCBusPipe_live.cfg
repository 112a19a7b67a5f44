SPECIFICATION FairSpec
CONSTANTS
  NumStreams = 2
  Units <- UnitsMixed
  IdxSpan = 4
  TxBufCap = 2
  KSend = 1
  KRecv = 1
  Faults = {"again", "die", "leave", "lose"}
  MaxFaults = 3
INVARIANTS PipeSound
PROPERTIES GapResolved SettledWithoutFault
CHECK_DEADLOCK FALSE
