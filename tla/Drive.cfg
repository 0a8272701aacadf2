\* Coordinates below NIBBLE in their low octet, two that differ in the high one.
CONSTANTS
  OCTET = 4
  NIBBLE = 2
  Cylinders = {1, 5}
  Sectors = {0, 1}
  Buffers = {b1, b2}
  NoBuffer = NoBuffer
SPECIFICATION Spec
INVARIANTS
  TypeOK
  NoStaleIrq
PROPERTIES
  ImplementsSectorStore
  CallsReturn
