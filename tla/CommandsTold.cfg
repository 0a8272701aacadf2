\* Two volumes, both in the table.
CONSTANTS
  NSector = 7
  NB_BLOCS = 2
  OCTET = 16
  SECTOR = 2
  NVol = 2
  MAX_VOLUME = 2
  Types = {"NORMAL"}
  Inputs <- MCInputs
CONSTRAINT Explored
SPECIFICATION Spec
PROPERTIES
  ToldAnother
CHECK_DEADLOCK FALSE
