SPECIFICATION FairSpec
CONSTANTS
  NP = 3
  Inputs <- SomeInputs
  Levels <- SomeLevels
  BoolLevels <- SomeBoolLevels
  Kind <- SomeKind
  Fragile <- SomeEnds
  MaxFaults = 1
INVARIANTS TypeOK OpenedRight OutputsVerified NothingLeft
PROPERTIES Completes
CHECK_DEADLOCK FALSE
