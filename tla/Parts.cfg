SPECIFICATION PartsSpec
CONSTANTS
  \* SnapshotJoin
  Pos = {0, 1, 2}
  Index = {0, 1, 2}
  Bus = {b1, b2, b3}
  None = None
  \* TrainSteps
  Styles = {"harness", "timed", "counted", "blind", "whole", "lines"}
  ChunkLen = 3
  End = 8
  MaxLaunches = 3
  MaxUnread = 3
  NoStep = NoStep
  \* LivenessProber
  Runtime = {r1, r2}
  ProbeInterval = 3
  MaxAge = 8
  ScanEvery = 2
  ScanLate = 3
  MaxTurns = 2
  Never = Never
  \* InferenceMonitor
  Server = {s1, s2}
  Foreground = {s1}
  TickInterval = 2
  AlarmAfter = 4
  ScanGap = 1
  LateScan = 2
  MaxKernels = 1
  MaxEvents = 2
  Absent = Absent
  Flaky = {"stats"}
  \* HivemindEngine
  Pollers = {k1}
  Tails = {l1}
  Wraps = {w1}
  PollTime = 3
  TailTime = 2
  ScanTime = 2
  WrapTime = 1
  ChannelCap = 2
  HeirsStay = FALSE
  Nobody = Nobody
  \* TermWindow
  Widths = {2, 3}
  Heights = {2}
  Param = {0, 1, 2, 3}
  MaxTyped = 8
  MaxWire = 3
  Ink = Ink
  Other = Other
  Blank = Blank
  \* DefragPhases
  Channel = {c1}
  RestPower = {10, 14}
  WorkPower = {23, 40}
  TdpLimit = 100
  EvictDwell = 5
  Settled = 6
  Gaps = FALSE
  \* InsightsPanel
  Pid = {p1, p2}
  Request = {q1, q2}
  Fleets = {q1}
  Rotates = TRUE
  Reachable = {"Mock"}
  MaxKeys = 3
  MaxRows = 1
  Nothing = Nothing
INVARIANTS
  RightCard
  ProgressIsTheRuns
  VerdictsAreTimely
  HungIsAlarmed
  FleetIsShown
  StopIsBrief
  GridIsWhole
  DrawnIsShown
  PhaseIsTrue
  OneMachinePerFrame
PROPERTIES
  OnlyTrainingIsTimed
  ConfirmedOnScreen
  OnlyTheWantedConnects
