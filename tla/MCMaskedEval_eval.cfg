SPECIFICATION Spec
CONSTANTS
  P = 13
  L = 1
  FRACTION = 1
  NP = 3
  Prg <- SomePrg
  Jobs <- SomeJobs
  Menu <- SomeMenu
  MaxGates = 6
INVARIANTS TypeOK MaskedRight InStep MacSound LevelsOrdered GeneratedRight
CHECK_DEADLOCK FALSE
