SPECIFICATION Spec
CONSTANTS
  P = 13
  L = 1
  FRACTION = 1
  NP = 3
  Prg <- SomePrg
  Jobs <- EqzJobs
  Menu <- EqzMenu
  MaxGates = 6
INVARIANTS EqzAsEvaluate
CHECK_DEADLOCK FALSE
