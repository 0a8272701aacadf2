\* Two files, tables of two entries, sectors of two octets: every entry of the
\* direct and of the indirect table, on a volume that has room for three blocs
\* of one file or for one sector of each of the two.
CONSTANTS
  NSector = 5
  NB_BLOCS = 2
  OCTET = 16
  Files = {f1, f2}
  Values = {0, 1}
  SECTOR = 2
  MaxPosition = 7
VIEW Remembered
SYMMETRY FileSymmetry
CONSTRAINT NotDeleted
SPECIFICATION Spec
INVARIANTS
  TypeOK
  BlocsAccountedFor
  AllocatedIsFound
PROPERTIES
  DeleteGivesBack
  ImplementsByteFile
CHECK_DEADLOCK FALSE
