SPECIFICATION Spec
CONSTANTS
  MaxBytes = 3
  HighWaterMarks = {0, 2}
  Sizes = {0, 2}
INVARIANTS
  TypeOK
  InOrderOnce
PROPERTIES
  Piping
