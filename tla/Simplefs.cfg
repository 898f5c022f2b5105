SPECIFICATION Spec
CONSTANTS
  a = a
  b = b
  ab = ab
  x = x
  Junk = Junk
  Name <- PlainNames
  StartsWith <- PlainStartsWith
  Target <- Targets
  Byte <- OneByte
  MapBits = 6
  MaxIno = 5
  Cells = 2
  MaxDepth = 2
  MaxOps = 4
  Op <- AllCalls
  Mishaps <- NoMishaps
SYMMETRY Symmetry
INVARIANTS
  AnswersArePromised
  DiskIsPromised
  NumbersAreOwned
