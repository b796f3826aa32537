SPECIFICATION Spec
CONSTANTS
  BodyBytes <- SpecialBytes
  MaxBody = 3
  MaxWrites = 2
INVARIANTS
  CrcVerifies
  SumsVerify
  ArrivesWithoutEscape
CHECK_DEADLOCK FALSE
