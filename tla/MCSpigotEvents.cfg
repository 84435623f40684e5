SPECIFICATION Spec
CONSTANTS
  Events = {join}
  BukkitEvents = {join}
  Fns = {f, h}
  MaxTokens = 3
  MaxDepth = 5
  MaxGeneration = 1
INVARIANTS
  TypeOK
  EndedIsGone
  EachIsCalled
