\* A directory and a file in it; no program is killed.
CONSTANTS
  a = a
  c = c
  l = l
  NSector = 12
  NB_BLOCS = 2
  OCTET = 16
  SECTOR = 3
  Names <- MCNames
  Long = l
  Cut = c
  Paths <- MCPaths
  Creations <- MCCreations
  MaxKills = 0
CONSTRAINT Explored
SPECIFICATION Spec
INVARIANTS
  FileHeaderHolds
CHECK_DEADLOCK FALSE
