SPECIFICATION Spec
CONSTANTS
  a = a
  b = b
  ab = ab
  x = x
  Junk = Junk
  Name <- PlainNames
  StartsWith <- PlainStartsWith
  Target <- Targets
  Byte <- OneByte
  MapBits = 3
  MaxIno = 2
  Cells = 1
  MaxDepth = 2
  MaxOps = 3
  Op <- AllCalls
  Mishaps <- Mishap
SYMMETRY Symmetry
INVARIANTS
  TypeOK
  HeapIsSound
  
