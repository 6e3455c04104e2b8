SPECIFICATION Spec
CONSTANTS
  Rundown <- ThreeEntries
  Last = 10
  ArmLead = 2
  CutLead = 1
  Targets = {5}
  Shuttles = {2}
  MaxLate = 1
  MaxCommands = 2
PROPERTIES PausedBoundaryWaits
CHECK_DEADLOCK FALSE
