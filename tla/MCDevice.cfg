SPECIFICATION FairSpec
CONSTANTS
  CanUpload = TRUE
  RecordSink = TRUE
  MaxAttempts = 1
  MaxPanics = 1
  MaxData = 1
INVARIANTS TypeOK ActsOnWhatWasPut WaitersWatched
PROPERTIES StaysBarred SleepsOnBattery Charges
CHECK_DEADLOCK FALSE
