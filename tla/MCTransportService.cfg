SPECIFICATION Spec
CONSTANTS
  Imu = 3
  Low = 1
  Rec = 1
  Tx = 1
  Capacity <- MCCapacity
  Sizes <- MCSizes
  MaxItems <- MCMaxItems
  Payload = 5
  MaxBatch = 2
INVARIANTS
  TypeOK
  InOrder
  NoDataMeansNoItem
PROPERTY ImplementsDelivery
