SPECIFICATION Spec
CONSTANTS
  NCells = 2
  Chunk = 2
  Types <- FixnvOnly
  MaxReq = 3
  MaxCrash = 0
  MaxReset = 1
  MaxFault = 0
PROPERTIES
  SyncCopiesFixnv
CHECK_DEADLOCK FALSE
