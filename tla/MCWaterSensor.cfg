SPECIFICATION Spec
CONSTANTS
  ArraySize = 5
  Windows <- MCWindows
  Low = 25
  High = 75
INVARIANTS TypeOK SumUntorn RingIsRecent WindowDecides
PROPERTY ChangesWithCause
