SPECIFICATION Spec
CONSTANTS
  a = a
  b = b
  ab = ab
  x = x
  Junk = Junk
  Name <- PrefixNames
  StartsWith <- PrefixStartsWith
  Target <- Targets
  Byte <- NoBytes
  MapBits = 6
  MaxIno = 5
  Cells = 2
  MaxDepth = 1
  MaxOps = 3
  Op <- NameCalls
  Mishaps <- NoMishaps
INVARIANTS
  OnlyTheNamedGoes
