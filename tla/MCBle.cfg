SPECIFICATION Spec
CONSTANTS
  MaxTests = 3
  Word = 6
  MaxAge = 2
  Epoch = 8
  Lag = 1
  Phases = {0, 4}
  Horizon = 7
  MaxSeq = 3
INVARIANTS
  TypeOK
  ContextCurrent
  ShownAgrees
PROPERTIES
  EstimateSound
  DatedIffHeard
CHECK_DEADLOCK FALSE
