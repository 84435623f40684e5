SPECIFICATION Spec
CONSTANTS
  Types <- MCTypes
  Handlers <- MCHandlers
  Others <- MCOthers
INVARIANT DestEndedWithSource
