SPECIFICATION DefragSpec
CONSTANTS
  Channel = {c1}
  RestPower = {10, 14}
  WorkPower = {23, 40}
  TdpLimit = 100
  EvictDwell = 5
  Settled = 6
  Gaps = TRUE
INVARIANTS
  RestReadsIdle
