SPECIFICATION Spec
CONSTANTS
  p = p
  q = q
  x = x
  Zero = Zero
  Process <- Processes
  Byte <- Bytes
  Sectors = 2
  MaxCalls = 5
SYMMETRY Symmetry
INVARIANTS
  TypeOK
  
  Exclusive
