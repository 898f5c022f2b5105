SPECIFICATION Spec
CONSTANTS
  t1 = t1
  t2 = t2
  x = x
  y = y
  Junk = Junk
  Null = Null
  Thread <- OneThread
  NumFiles = 1
  Value <- TwoValues
  LOGIC_SZ = 2
  DATA_PER_FILE = 2
  MapBits = 5
  MaxData = 3
  MaxOps = 3
  MaxLen = 4
CHECK_DEADLOCK FALSE
INVARIANTS
  TypeOK
  ReadsReturnWrites
  SlotsInStep
  SizeCoversWrites
