SPECIFICATION RemoteSpec
CONSTANTS
  Conn <- TwoConnections
  MaxFrames = 2
  WireCap = 1
  SilentLoss = FALSE
  MaxServers = 2
  WrongPath <- NoConnection
  Slow <- NoConnection
  Dev <- OneCard
  MaxDevices = 1
  Contents <- OneGoodFrame
  Garbled = Garbled
PROPERTIES
  Delivered
CHECK_DEADLOCK FALSE
