CONSTANTS
  Players = {p1, p2}
  Others = {console}
  Keys = {k1, k2}
  Values = {v}
  Absent = none
  MaxRuns = 2
  MaxWaiting = 3
SPECIFICATION Spec
SYMMETRY Symmetry
INVARIANTS
  TypeOK
  StateLostOnlyIfStale
  
