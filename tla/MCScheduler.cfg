SPECIFICATION Spec
CONSTANTS
  Tasks = 3
  Interval <- MCInterval
  Duration <- MCDuration
  Word = 65536
  Boot = 7
  Delays <- MCDelays
  Slip = 1
  MaxLate <- MCMaxLate
  Horizon = 600
INVARIANTS TypeOK NoInversion TasksOnTime SearchSucceeds
PROPERTY Spaced
CHECK_DEADLOCK FALSE
