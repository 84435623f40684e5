SPECIFICATION Spec
CONSTANTS
  Types <- MCTypes
  Handlers = {f}
  MaxOnce = 2
  MaxSlot = 2
  MaxDepth = 5
  MaxDrift = 1
INVARIANTS
  TypeOK
  SlotShape
  CountAccounted
  OnceIsOnce
