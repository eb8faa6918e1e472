CONSTANTS
  Reader = Reader
  w1 = w1
  Writers <- MCWriters
  MaxBytes = 3
  MaxOrphans = 2
SPECIFICATION Spec
INVARIANTS
  TypeOK
  BytesInOrder
  LocalsReleased
  FreedUnused
PROPERTY CloseReturns
CHECK_DEADLOCK FALSE
