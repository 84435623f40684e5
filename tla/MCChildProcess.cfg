SPECIFICATION FairSpec
CONSTANTS
  Capacity = 2
  MaxOut = 4
  MaxErr = 2
INVARIANTS
  ProcessTypeOK
  OutputArrives
PROPERTIES
  CallsEnd
CHECK_DEADLOCK FALSE
