SPECIFICATION Spec
CONSTANTS
  ArraySize = 5
  Windows <- MCWindows
  Low = 25
  High = 75
INVARIANT SumOfWindow
