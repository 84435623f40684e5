SPECIFICATION RegistrySpec
CONSTANTS
  Labels <- MCLabels
  Namings <- MCNamings
  MaxCommands = 3
  MaxDepth = 2
INVARIANTS
  RegistryTypeOK
  EscapesOnlyIfOverwrittenOrAdopted
PROPERTIES
  TablesAgree
CHECK_DEADLOCK FALSE
