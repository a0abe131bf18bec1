SPECIFICATION FairSpec
CONSTANTS
  Imu = 2
  Low = 1
  Rec = 0
  Tx = 0
  Capacity <- MCCapacity
  Sizes <- MCSizes
  MaxItems <- MCMaxItems
  Payload = 5
  MaxBatch = 2
PROPERTIES
  CallsReturn
  Settles
