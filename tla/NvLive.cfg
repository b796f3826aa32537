SPECIFICATION FairSpec
CONSTANTS
  NCells = 2
  Chunk = 2
  Types <- AllTypes
  MaxReq = 2
  MaxCrash = 0
  MaxReset = 2
  MaxFault = 1
INVARIANTS
  RuntimeCopiesAgree
PROPERTIES
  FramingKept
  SyncAnswered
  GuestRestarted
CHECK_DEADLOCK FALSE
