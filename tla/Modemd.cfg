SPECIFICATION FairSpec
CONSTANTS
  r1 = r1
  d1 = d1
  o1 = o1
  Closed = Closed
  Gone = Gone
  MaxClientNum = 2
  Fds <- FdNumbers
  ResetClients <- Reset
  DumpClients <- Dump
  OtherClients <- Other
  ModemReset = TRUE
  Backlog = 1
INVARIANTS
  EntriesOwnTheirFd
  ReportDelivered
  LogStoppedOnlyForReset
PROPERTIES
  DumpListens
CHECK_DEADLOCK FALSE
