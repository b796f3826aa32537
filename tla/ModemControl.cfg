SPECIFICATION FairSpec
CONSTANTS
  MAX_CLIENT_NUM = 1
  MaxAsserts = 2
  ImageCount = 2
  ImageSize <- Sizes
  FDL_PACKET_SIZE = 2
  HS_PACKET_SIZE = 4
  UART_TIMEOUT = 4
  NvImages = {1}
  MaxFaults = 3
INVARIANTS
  MonitorResumed
  ClientsUpToDate
  FinishedIsComplete
  MessagesInOrder
  DescriptorsClosed
PROPERTIES
  RecoversFromAssert
  BootEnds
CHECK_DEADLOCK FALSE
