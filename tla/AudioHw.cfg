SPECIFICATION Spec
CONSTANTS
  MaxSem = 1
  OutRoutes <- Routes
  InDevices <- Inputs
INVARIANTS
  UsesOpenPcm
  PcmMatchesCall
  NoLockCycle
  RouteFollows
