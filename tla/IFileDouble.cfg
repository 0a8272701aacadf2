\* One file, tables of one entry, up to the bloc of the double indirect table.
CONSTANTS
  NSector = 8
  NB_BLOCS = 1
  OCTET = 16
  Files = {f1}
  Values = {0, 1}
  SECTOR = 2
  MaxPosition = 5
CONSTRAINT NotDeleted
SPECIFICATION Spec
INVARIANTS
  AllocatedIsFound
CHECK_DEADLOCK FALSE
