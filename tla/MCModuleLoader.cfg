SPECIFICATION Spec
CONSTANTS
  Files <- MCFiles
  Packages = {"pkg"}
  IndexOf <- MCIndexOf
  Entries = {"index", "dist"}
  Main = "main"
  NoJson = NoJson
  MaxInstances = 3
  MaxDepth = 3
  MaxNative = 2
  MaxEdits = 1
INVARIANTS
  TypeOK
  EvaluatedOnce
  FreshAfterReload
  
CHECK_DEADLOCK FALSE
