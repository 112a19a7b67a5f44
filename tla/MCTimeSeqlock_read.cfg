SPECIFICATION Spec
CONSTANTS
  Tries = 2
  Offsets = {5, 7}
  MaxMono = 3
  MaxSamples = 3
INVARIANTS NoTornSample
PROPERTIES MonotoneClock RetryForCause
CHECK_DEADLOCK FALSE
