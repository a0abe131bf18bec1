SPECIFICATION Spec
CONSTANTS
  FieldOrder <- MCFieldOrder
  FieldSets <- MCFieldSets
  UnitsOf <- MCUnitsOf
  Radix = 4
  FifoSize = 5
  MaxFrames = 3
  LogThreads = {m, r}
  LogMain = m
  LogSize = 2
  MaxFaults = 4
INVARIANTS
  TypeOK
  LogIsRecent
PROPERTIES
  FrameWhole
CHECK_DEADLOCK FALSE
