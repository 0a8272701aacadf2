\* A sector number whose low octet is NIBBLE or more, as 16 .. 31 on the disk.
CONSTANTS
  OCTET = 4
  NIBBLE = 2
  Cylinders = {0}
  Sectors = {1, 3}
  Buffers = {b1, b2}
  NoBuffer = NoBuffer
SPECIFICATION Spec
PROPERTIES
  ImplementsSectorStore
