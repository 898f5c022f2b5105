SPECIFICATION Spec
CONSTANTS
  r = r
  a = a
  b = b
  c = c
  Dentry <- MCDentry
  Root <- r
  MapBits = 4
  MaxIno = 2
  MaxData = 2
  DATA_PER_FILE = 2
SYMMETRY Symmetry
INVARIANTS
  TypeOK
  
  
  InsideAreas
  OnlyRefusedBitsLeak
PROPERTIES
  GrantsAreKept
