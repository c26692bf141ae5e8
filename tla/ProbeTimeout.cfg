SPECIFICATION ProberSpec
CONSTANTS
  Runtime = {r1, r2}
  ProbeInterval = 3
  MaxAge = 8
  ScanEvery = 2
  ScanLate = 3
  MaxTurns = 2
  Never = Never
PROPERTY TimeoutIsNoVerdict
