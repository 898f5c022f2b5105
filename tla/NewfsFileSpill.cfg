SPECIFICATION Spec
CONSTANTS
  t1 = t1
  t2 = t2
  x = x
  y = y
  Junk = Junk
  Null = Null
  Thread <- OneThread
  NumFiles = 2
  Value <- OneValue
  LOGIC_SZ = 2
  DATA_PER_FILE = 2
  MapBits = 6
  MaxData = 4
  MaxOps = 2
  MaxLen = 4
CHECK_DEADLOCK FALSE
INVARIANTS
  DataReachesDisk
