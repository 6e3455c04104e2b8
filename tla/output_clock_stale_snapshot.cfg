SPECIFICATION ClockSpec
CONSTANTS
  Last = 7
  Lead = 2
  Trail = 1
  Targets = {0, 7}
  Numerator = 2
  Denominator = 3
  MaxCatchUp = 2
  MaxLag = 2
  MaxWall = 5
  MaxCommands = 1
CHECK_DEADLOCK FALSE
PROPERTY ClockIsReanchored
