SPECIFICATION Spec
CONSTANTS
  Pid <- TwoPids
  ResetCmd <- Reset
  OtherCmd <- Other
  MaxLaunches = 2
  MaxPanics = 1
  Behaviors <- All
  SlotCount = 2
  None = None
INVARIANTS
  DetectorGuardsTakeover
  EndsAreReal
  ReactedOnce
PROPERTIES
  ResetIsNoticed
  EndIsNoticed
CHECK_DEADLOCK FALSE
