SPECIFICATION FairSpec
CONSTANTS
  Slots = 536870912
  Packet = 3
  Sizes <- MCSizes
  MaxSessions = 2
  MaxRecords = 4
  MaxCrashes = 2
INVARIANTS TypeOK FilesListed FreshSession WholeRecords KeptUntilPublished CountAgrees
PROPERTY SearchEnds
CHECK_DEADLOCK FALSE
