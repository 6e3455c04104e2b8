SPECIFICATION FairSpec
CONSTANTS
  Rundown <- ThreeEntries
  Last = 10
  ArmLead = 2
  CutLead = 1
  Targets = {5}
  Shuttles = {2}
  MaxLate = 1
  MaxCommands = 3
INVARIANTS
  ArmedBoundaryIsAliveUnlessJumped
  CountsOwnBoundaries
PROPERTIES
  UnspoiltFiresAtOutPoint
  RundownEnds
CHECK_DEADLOCK FALSE
