SPECIFICATION Spec
CONSTANTS
  MaxSem = 1
  OutRoutes <- Routes
  InDevices <- Inputs
PROPERTY OutputRouteKept
