SPECIFICATION Spec
CONSTANTS
  Imu = 1
  Low = 0
  Rec = 0
  Tx = 0
  Capacity <- MCCapacity
  Sizes <- MCSizes
  MaxItems <- MCMaxItems
  Payload = 5
  MaxBatch = 2
INVARIANT
  ShutdownDrains
