\* Cylinders of 3 sectors, a table of 3 volumes, octets of 4 values: the last
\* cylinder and the last size do not fit in the table.
CONSTANTS
  HDA_MAXSECTOR = 3
  MAX_VOLUME = 3
  OCTET = 4
  Cylinders = {0, 1, 2, 3, 4}
  Sectors = {0, 1, 2}
  Sizes = {0, 1, 4, 5, 16}
SPECIFICATION Spec
INVARIANTS
  TypeOK
  DistinctStarts
  OrderedAreDisjoint
  
PROPERTIES
  RvolKeepsOthers
