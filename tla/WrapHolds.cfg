SPECIFICATION HivemindSpec
CONSTANTS
  Pollers = {k1}
  Tails = {l1}
  Wraps = {w1}
  PollTime = 3
  TailTime = 2
  ScanTime = 2
  WrapTime = 1
  ChannelCap = 2
  HeirsStay = TRUE
  Nobody = Nobody
INVARIANT StopIsBrief
