CONSTANTS
  Events = {tick}
  Tick = tick
  Timers = {1}
  Delays = {1, 2}
  Period = 1
  MaxFrames = 2
  MaxDepth = 2
SPECIFICATION Spec
INVARIANTS
  TypeOK
  CallsAPrefix
  ClearedIsSilent

  
