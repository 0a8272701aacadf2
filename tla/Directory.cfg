CONSTANTS
  a = a
  c = c
  l = l
  NSector = 12
  NB_BLOCS = 2
  OCTET = 16
  SECTOR = 3
  Names <- MCNames
  Long = l
  Cut = c
  Paths <- MCPaths
  Creations <- MCCreations
  MaxKills = 2
CONSTRAINT Explored
SPECIFICATION Spec
CHECK_DEADLOCK FALSE
VIEW Remembered
INVARIANTS
  TypeOK
  EntriesNameInodes
  BlocsNamedOnce
PROPERTIES
  ImplementsNamespace
