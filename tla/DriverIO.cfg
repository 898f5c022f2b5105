SPECIFICATION Spec
CONSTANTS
  t1 = t1
  x = x
  y = y
  Thread <- OneThread
  Byte <- Bytes
  Op <- ReadWrite
  DiskSize = 6
  IO_SZ = 2
  MaxSize = 4
INVARIANTS
  TypeOK
PROPERTIES
  ImplementsByteDisk
  CallsReturn
