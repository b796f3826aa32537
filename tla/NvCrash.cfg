SPECIFICATION Spec
CONSTANTS
  NCells = 2
  Chunk = 2
  Types <- FixnvAndProduct
  MaxReq = 3
  MaxCrash = 1
  MaxReset = 1
  MaxFault = 0
INVARIANTS
  TypeOK
  NvRecoverable
  UnsyncedUnderLock
  ProductRecoverable
CHECK_DEADLOCK FALSE
