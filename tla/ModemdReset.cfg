SPECIFICATION FairSpec
CONSTANTS
  r1 = r1
  d1 = d1
  o1 = o1
  Closed = Closed
  Gone = Gone
  MaxClientNum = 2
  Fds <- FdNumbers
  ResetClients <- Reset
  DumpClients <- None
  OtherClients <- None
  ModemReset = TRUE
  Backlog = 2
PROPERTIES
  AssertIsReset
CHECK_DEADLOCK FALSE
