SPECIFICATION IdleSpec
CONSTANTS
  Server = {s1, s2}
  Foreground = {s1, s2}
  TickInterval = 2
  AlarmAfter = 6
  ScanGap = 1
  LateScan = 3
  MaxKernels = 1
  MaxEvents = 2
  Flaky = {}
  Absent = Absent
PROPERTY AlarmIsFiveMinutes
