SPECIFICATION EndsSpec
CONSTANTS
  Conn <- TwoConnections
  MaxFrames = 2
  WireCap = 1
  SilentLoss = TRUE
  MaxServers = 2
  WrongPath <- TwoConnections
  Slow <- FirstIsSlow
  Dev <- ThreeCards
  MaxDevices = 2
  Contents <- GoodAndBad
  Garbled = Garbled
INVARIANTS
  CountIsExact
  FramesInOrder
  NothingForgotten
  ScreenIsOneFrame
PROPERTIES
  NewestArrives
  FeedImplemented
CHECK_DEADLOCK FALSE
