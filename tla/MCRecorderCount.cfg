SPECIFICATION Spec
CONSTANTS
  Slots = 536870912
  Packet = 3
  Sizes <- MCSizes
  MaxSessions = 2
  MaxRecords = 2
  MaxCrashes = 2
INVARIANT NumFiles
CHECK_DEADLOCK FALSE
