\* Three volumes of which the first holds two or three small files; volume 3 is
\* in no table.
CONSTANTS
  NSector = 7
  NB_BLOCS = 2
  OCTET = 16
  SECTOR = 2
  NVol = 3
  MAX_VOLUME = 4
  Types = {"NORMAL"}
  Inputs <- MCInputs
VIEW Remembered
CONSTRAINT Explored
SPECIFICATION Spec
INVARIANTS
  TypeOK
PROPERTIES
  VolumesApart
  ImplementsFileStore
CHECK_DEADLOCK FALSE
