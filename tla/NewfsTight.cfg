SPECIFICATION Spec
CONSTANTS
  a = a
  b = b
  Name <- PlainNames
  StartsWith <- PlainStartsWith
  MapBits = 5
  MaxIno = 3
  MaxData = 2
  Cells = 1
  MaxDepth = 2
  MaxMade = 3
SYMMETRY Symmetry
INVARIANTS
  TypeOK
  ConfusedNeedsMishap
