SPECIFICATION Spec
CONSTANTS
  w1 = w1
  r1 = r1
  r2 = r2
  b1 = b1
  b2 = b2
  Partial = Partial
  NoBlock = NoBlock
  NoThread = NoThread
  UnitCount = 3
  IndexRange = 6
  Writers <- OneWriter
  Readers <- TwoReaders
  WriteWaits = {TRUE, FALSE}
  ReadWaits = {TRUE, FALSE}
  Wakes = {TRUE, FALSE}
  Block <- Blocks
INVARIANTS
  RingInv
  NeverOverfull
  BorrowedIsWhole
PROPERTIES
  ImplementsQueue
CHECK_DEADLOCK FALSE
