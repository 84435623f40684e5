SPECIFICATION Spec
CONSTANTS
  MaxWrites = 3
  Lens = {0, 1}
  MaxCorks = 1
  Options <- SmallOptions
INVARIANTS
  TypeOK
  

  
  
