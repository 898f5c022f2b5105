SPECIFICATION Spec
CONSTANTS
  a = a
  b = b
  Name <- PlainNames
  StartsWith <- PlainStartsWith
  MapBits = 5
  MaxIno = 4
  MaxData = 3
  Cells = 2
  MaxDepth = 3
  MaxMade = 3
SYMMETRY Symmetry
INVARIANTS
  TreeIsPromised
  DiskIsPromised
  
PROPERTIES
  ListingMissesNone
