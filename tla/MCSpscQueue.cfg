SPECIFICATION Spec
CONSTANTS
  Item = {a, b, c}
  NoItem = NoItem
  Capacity = 4
SYMMETRY Symmetry
INVARIANTS
  NoSlotRace
  IInv
PROPERTY ImplementsFifo
